SPECIFICATION Spec
CONSTANTS
    Nemivers = {a}
    Tables = {"attributes", "watchpoints"}
    Cleared = {"attributes"}
    KeptSessions = 1
    MaxSaves = 3
    MayFail = FALSE
    MayCrash = FALSE
    MayRename = FALSE
    MayPurge = FALSE
PROPERTY SavedIsThere
CHECK_DEADLOCK FALSE
