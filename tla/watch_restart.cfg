SPECIFICATION Spec
CONSTANTS
    MaxGoes = 2
    MaxQueue = 1
    MaxClicks = 6
    Scenarios = {{"global", "struct", "restart"}}
INVARIANT KilledComeBack
CHECK_DEADLOCK FALSE
