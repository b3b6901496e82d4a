SPECIFICATION Spec
CONSTANTS
    Threads = {1, 2}
    MaxDepth = 3
    MaxStops = 4
    MaxGoes = 4
    MaxQueue = 3
    MaxClicks = 3
    WatchClicks = 6
    Chunk = 1
    TabGoes = 3
    TabClicks = 4
    TabIds = 2
    Window = 2
    TipClicks = 5
    Registers = {1, 2}
    Addresses = {2, 3, 4}
    DataClicks = 3
    FrameScenarios = {{"frames", "pages", "hiding", "core", "again"}, {"threads", "hiding"},
                      {"threads", "select threads", "hiding"},
                      {"haste", "frames", "pages"}, {"haste", "threads", "select threads"},
                      {"blocks", "frames"}}
    WatchScenarios = {{"global", "inner", "restart", "remove"}, {"local", "exits", "again", "others", "hiding"},
                      {"inner", "restart", "hiding", "remove"}, {"inner", "haste", "exits", "again", "others"},
                      {"struct", "haste", "replace", "exits"}, {"global", "struct"}}
    TabScenarios = {{"two", "tabs", "breaks", "toggle"}, {"two", "breaks", "close", "toggle"},
                    {"two", "edit", "tabs"}, {"two", "breaks", "asm", "onward"}, {"two", "tabs", "close", "exits"},
                    {"bare", "breaks", "toggle", "onward"}, {"namesakes", "frames", "breaks"},
                    {"lost", "frames", "breaks"}, {"two", "breaks", "detach"},
                    {"two", "breaks", "goto", "asm", "onward"}}
    TipScenarios = {{"struct", "twice", "haste"}, {"local", "steps", "haste"}, {"struct", "revisualize", "twice"},
                    {"struct", "exits", "steps"}}
    DataScenarios = {{"registers", "hiding", "exits"}, {"registers", "hiding", "restart"}, {"registers", "frames"},
                     {"registers", "edit"}, {"memory", "exits", "edit"}, {"memory", "readonly", "edit"},
                     {"memory", "typed", "edit", "restart"}}
INVARIANTS FramesShown LocalsShown
           ShownWhereItIs NothingLost BreakpointsKnown MarksShown ArrowFollows TipShown DataShown
CHECK_DEADLOCK FALSE
