SPECIFICATION Spec
CONSTANTS
    QueueLimit = 2
    InflightLimit = 2
    PidLimit = 20
    MaxMessages = 3
    Frames = {2}
    MaxBreaks = 2
    Prompt = TRUE
INVARIANTS
    TypeOK
    ResentOnceInOrder
    LossesCounted
PROPERTIES
    EndsOffline
