SPECIFICATION FairSpec
CONSTANTS
    None = None
    MaxFailures = 2
    MaxAdds = 2
    MaxRemoves = 1
    MaxFaults = 2
    AddWhileStarting = FALSE
    DiesAtFirstHello = FALSE
    FailingSpawns = {1}
INVARIANTS
    OneRuntime
PROPERTIES
    RestartsEndWell
CHECK_DEADLOCK FALSE
