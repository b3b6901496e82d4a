SPECIFICATION Spec
CONSTANTS
    Locs = {"a","b"}
    MaxBps = 2
    MaxIgnore = 1
    MaxHits = 1
    MaxQueue = 1
    Scenarios = {{"resume"}}
INVARIANT LinesKept
