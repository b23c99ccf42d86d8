\* Two customers and two prices: three admissions compete for one queue slot,
\* and what is reported of them.
SPECIFICATION Spec
CONSTANTS
    e1 = e1
    e2 = e2
    e3 = e3
    c1 = c1
    c2 = c2
    c3 = c3
    NoRow = NoRow
    NoConn = NoConn
    MaxInt64 = 3
    Events = {e1, e2}
    Inputs <- MCTwoCustomers
    Rates = {1, 2}
    Conns <- MCConns3
    Codes <- MCCodes
    Breakable = {e1}
    MaxPending = 1
    BatchLimit = 1
    RetryGens = {0}
    MaxCalls = 3
    MaxFaults = 1
SYMMETRY SymmetryConns3
INVARIANTS QuotesFrozen WithinCapacity ReportsAgree
PROPERTY BillNeverShrinks
