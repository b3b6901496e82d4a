SPECIFICATION Spec
CONSTANTS
    Nemivers = {a, b}
    Tables = {"attributes", "watchpoints"}
    Cleared = {"attributes"}
    KeptSessions = 1
    MaxSaves = 3
    MayFail = TRUE
    MayCrash = TRUE
    MayRename = TRUE
    MayPurge = TRUE
INVARIANTS NeverTorn NothingLeftOpen
PROPERTY ImplementsTable
CHECK_DEADLOCK FALSE
SYMMETRY Alike
