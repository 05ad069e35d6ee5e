SPECIFICATION Spec
CONSTANTS
    None = None
    MaxFailures = 2
    MaxAdds = 1
    MaxRemoves = 0
    MaxFaults = 1
    AddWhileStarting = TRUE
    DiesAtFirstHello = FALSE
    FailingSpawns = {1}
INVARIANT
    OneRuntime
CHECK_DEADLOCK FALSE
