SPECIFICATION FairSpec
CONSTANTS
    None = None
    MaxFailures = 2
    MaxAdds = 1
    MaxRemoves = 0
    MaxFaults = 1
    AddWhileStarting = FALSE
    DiesAtFirstHello = FALSE
    FailingSpawns = {1, 2, 3}
PROPERTY
    RuntimeComesBack
CHECK_DEADLOCK FALSE
