\* Two requests of every kind, beside another instance and the worker.
SPECIFICATION FairSpec
CONSTANTS
    Requests = {q1, q2}
    Menu <- MCMenu
    Events = {e1, e2}
    Inputs = {small, big}
    Overflowing = {big}
    MaxPending = 1
    Elsewhere = Elsewhere
    NoRow = NoRow
    e1 = e1
    e2 = e2
    small = small
    big = big
INVARIANTS TypeOK CreatorIsStored  RefusedWroteNothing AcknowledgedIsFound
    ScrapeBetween
PROPERTY EveryRequestCompletes
\* Requests end.
CHECK_DEADLOCK FALSE
