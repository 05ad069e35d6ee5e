SPECIFICATION FairSpec
CONSTANTS
    None = None
    w = w
    a = a
    f1 = f1
    Publishers = {w, a}
    Worker = w
    Filters = {f1}
    Messages = {0, 1, 2, 3}
    Ids = {11, 12, 13, 14, 15, 16, 17}
    MaxInflight = 1
    Buffer = 1
    MaxFaults = 1
    QueueSize = 2
    MaxMessages = 3
    MaxCalls = 1
    Value <- Repeated
    Qos <- ThenQos0
INVARIANTS
    KeptInOrder
    NoFilterForgotten
PROPERTIES
    ClientGetsOn
CHECK_DEADLOCK FALSE
