\* Startup, failures and shutdown with two connections.
SPECIFICATION FairSpec
CONSTANTS
    Requests = {q1, q2}
    MaxInt64 = 2000000
    Numbers <- Edges
    Lengths <- TokenLengths
INVARIANTS Joined CleanExit VerdictTrue
PROPERTY ShutdownEnds
\* The process ends.
CHECK_DEADLOCK FALSE
