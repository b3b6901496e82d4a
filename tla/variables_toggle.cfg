SPECIFICATION Spec
CONSTANTS
    MaxLen = 2
    MaxStops = 3
    MaxQueue = 1
    MaxClicks = 2
    Scenarios = {{"container", "toggle"}}
INVARIANT SiblingsKnown
CHECK_DEADLOCK FALSE
