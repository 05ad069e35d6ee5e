SPECIFICATION Spec
CONSTANTS
    FailureLimit = 2
    ReadFailureLimit = 2
    Fallback = TRUE
    HasGst = TRUE
    SlowCalls = TRUE
    MaxOutages = 1
    LateWorker = FALSE
    MaxBreaks = 2
    MaxConns = 3
INVARIANTS
    NothingLeftOpen
PROPERTIES
    StatusFollows
CHECK_DEADLOCK FALSE
