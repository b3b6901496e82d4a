SPECIFICATION FairSpec
CONSTANTS
    MaxQueue = 3
    MaxFollowUps = 2
    Scenarios = {{"haste", "reuse", "attach", "death"}, {"attach", "early exit", "death"}}
INVARIANTS
    StateFollowsInferior
    MenusFollowInferior
    AttachedToProcess
    DetachInterrupts
PROPERTIES
    DetachEnds
    MenusComeBack
