\* A retry overtaken by the acceptance of the same event.
SPECIFICATION Spec
CONSTANTS
    e1 = e1
    e2 = e2
    e3 = e3
    c1 = c1
    c2 = c2
    c3 = c3
    NoRow = NoRow
    NoConn = NoConn
    MaxInt64 = 1
    Events = {e1}
    Inputs <- MCOneInput
    Rates = {1}
    Conns <- MCConns2
    Codes <- MCCodes
    Breakable = {}
    MaxPending = 1
    BatchLimit = 1
    RetryGens = {0}
    MaxCalls = 2
    MaxFaults = 0
INVARIANT RetryAnswerDocumented
