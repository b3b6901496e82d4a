SPECIFICATION FairSpec
CONSTANTS
    Locs = {"a","b"}
    MaxBps = 3
    MaxIgnore = 1
    MaxHits = 2
    MaxQueue = 2
    Scenarios = {{"haste", "delete", "disable"}, {"haste", "resume"},
                 {"delete", "disable", "count", "ignore"}, {"ignore", "restart"},
                 {"delete", "disable", "notify"}}
INVARIANTS CacheIsGdbs ShownIsCached ChoicesKept CountpointsContinue
PROPERTIES RunsIgnore DeletedGoes
