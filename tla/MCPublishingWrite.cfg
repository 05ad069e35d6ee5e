SPECIFICATION FairSpec
CONSTANTS
    None = None
    w = w
    a = a
    f1 = f1
    Publishers = {w, a}
    Worker = w
    Filters = {f1}
    Messages = {0, 1}
    Ids = {11, 12, 13, 14, 15, 16, 17}
    MaxInflight = 1
    Buffer = 1
    MaxFaults = 1
    QueueSize = 1
    MaxMessages = 1
    MaxCalls = 0
    Value <- Alone
    Qos <- AllQos1
PROPERTY
    SessionAlwaysComesBack
CHECK_DEADLOCK FALSE
