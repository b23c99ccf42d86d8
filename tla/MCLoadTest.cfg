CONSTANTS
    Total = 3
    Concurrency = 2
SPECIFICATION FairSpec
INVARIANTS ReportComplete SuccessIsReal NobodyLeftBehind
PROPERTY RunReturns
CHECK_DEADLOCK FALSE
