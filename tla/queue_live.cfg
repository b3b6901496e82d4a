SPECIFICATION FairSpec
CONSTANTS
    Kinds = {"query", "resume", "detach"}
    MaxCommands = 3
    MaxBurst = 2
    MaxBadResults = 1
    MaxBadAsync = 1
    MaxCrashes = 0
    MayTear = FALSE
    Forces = {FALSE}
    MayAttach = TRUE
    MayExit = TRUE
INVARIANT OneInFlight
PROPERTIES QueueDrains FlightEnds
CHECK_DEADLOCK FALSE
