SPECIFICATION Spec
CONSTANTS
    Kinds = {"query", "resume"}
    MaxCommands = 3
    MaxBurst = 1
    MaxBadResults = 0
    MaxBadAsync = 0
    MaxCrashes = 1
    MayTear = FALSE
    Forces = {}
    MayAttach = TRUE
    MayExit = FALSE
INVARIANT NeverStuck
CHECK_DEADLOCK FALSE
