SPECIFICATION FairSpec
CONSTANTS
    Overlaps = {{"beat"}, {"introduce", "beat", "absent", "retire", "reap"}}
    MaxRestarts = 1
    MaxStrays = 2
    MaxQueue = 3
INVARIANTS
    PresentIsWatched
PROPERTIES
    BeatingIsPresent
    LostIsAbsentIfPrompt
