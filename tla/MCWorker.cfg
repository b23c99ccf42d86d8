\* Two calls of Run on one worker.
SPECIFICATION FairSpec
CONSTANTS
    Runs = {r1, r2}
    Interval = 1
    Cap = 6
    Counts = {0, 2}
    MaxAttempts = 4
INVARIANTS OneLoop Accounting BackoffExact
PROPERTIES KeepsContract KeepsPolling
\* Every call may have returned.
CHECK_DEADLOCK FALSE
