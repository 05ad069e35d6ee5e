SPECIFICATION FairSpec
CONSTANTS
    None = None
    MaxFailures = 3
    MaxAdds = 1
    MaxRemoves = 0
    MaxFaults = 3
    AddWhileStarting = FALSE
    DiesAtFirstHello = TRUE
    FailingSpawns = {1}
PROPERTY
    RuntimeComesBack
CHECK_DEADLOCK FALSE
