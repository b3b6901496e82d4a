SPECIFICATION Spec
CONSTANTS
    Kinds = {"query", "resume", "detach"}
    MaxCommands = 4
    MaxBurst = 2
    MaxBadResults = 1
    MaxBadAsync = 0
    MaxCrashes = 2
    MayTear = FALSE
    Forces = {TRUE}
    MayAttach = FALSE
    MayExit = FALSE
INVARIANTS WireHoldsInFlight RepliesMatch FirstInFirstOut NeverStuck
PROPERTY ImplementsService
CHECK_DEADLOCK FALSE
