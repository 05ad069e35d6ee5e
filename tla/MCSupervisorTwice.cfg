SPECIFICATION Spec
CONSTANTS
    a = a
    b = b
    Requests <- Twice
    QueueMax = 1
    SeenSize = 1
    Initial <- One
    Workers = 0
    PerWorker = 1
    MaxStreams = 3
    Exclusive = FALSE
    Prompt = TRUE
    MaxSpawns = 4
    MaxDeliveries = 2
    MaxFaults = 1
INVARIANTS
    FileLoads
CHECK_DEADLOCK FALSE
