\* Failures, quarantine and reactivation, up to the largest generation and the
\* largest amount.
SPECIFICATION Spec
CONSTANTS
    e1 = e1
    e2 = e2
    e3 = e3
    c1 = c1
    c2 = c2
    c3 = c3
    NoRow = NoRow
    NoConn = NoConn
    MaxInt64 = 2
    Events = {e1, e2}
    Inputs <- MCBoundaryInputs
    Rates = {1}
    Conns <- MCConns2
    Codes <- MCCodes
    Breakable = {e1}
    MaxPending = 2
    BatchLimit = 2
    RetryGens = {0, 1, 2}
    MaxCalls = 4
    MaxFaults = 1
SYMMETRY SymmetryConns2
INVARIANTS
    ConstraintsHold
    OneHome
    CountsConfirmed
    OneReactivation
    ClaimsExclusive
PROPERTY KeepsPromise
