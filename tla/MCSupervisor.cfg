SPECIFICATION Spec
CONSTANTS
    a = a
    b = b
    Requests <- Commands
    QueueMax = 1
    SeenSize = 1
    Initial <- One
    Workers = 0
    PerWorker = 1
    MaxStreams = 3
    Exclusive = FALSE
    Prompt = TRUE
    MaxSpawns = 3
    MaxDeliveries = 2
    MaxFaults = 1
INVARIANTS
    TypeOK
    ExecutedOnce
    AckedCommandsHold
    RestartsSound
PROPERTIES
    DeadReplaced
CHECK_DEADLOCK FALSE
