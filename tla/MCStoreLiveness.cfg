\* A poisoned event at the head of the queue, one event per batch, abandoned
\* sessions.
SPECIFICATION FairSpec
CONSTANTS
    e1 = e1
    e2 = e2
    e3 = e3
    c1 = c1
    c2 = c2
    c3 = c3
    NoRow = NoRow
    NoConn = NoConn
    MaxInt64 = 1
    Events = {e1, e2, e3}
    Inputs <- MCOneInput
    Rates = {1}
    Conns <- MCConns2
    Codes <- MCCodes
    Breakable = {e1}
    MaxPending = 2
    BatchLimit = 1
    RetryGens = {0}
    MaxCalls = 3
    MaxFaults = 1
PROPERTIES Settles CallsReturn
