SPECIFICATION TreeSpec
CONSTANT Exchanges <- MCExchanges
CONSTANT ReadRecord <- ParseOutputRecord
CONSTANT ReadText <- Parse
CONSTANT Sources <- MCSources
CONSTANTS
    MaxLen = 3
    MaxStops = 4
    MaxQueue = 3
    MaxClicks = 3
    Scenarios = {{"container", "struct"}, {"container", "toggle"}, {"struct", "toggle"},
                 {"string", "toggle"}, {"container", "shrinks"}, {"container", "frames"},
                 {"struct", "exits"}, {"struct", "haste", "frames"}, {"container", "copy"},
                 {"struct", "toggle", "copy"}}
INVARIANTS Understood RetiresOne  ReadsBack
           MembersShown PeersOwned VisualizersFollow WalksAreWhole
CHECK_DEADLOCK FALSE
