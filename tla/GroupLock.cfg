SPECIFICATION FairSpec
CONSTANTS
    Requests = {r1}
    Ticks = {t1, t2}
    Overlap = 2
    Tries = 2
    MaxRestarts = 1
INVARIANTS
    MutualExclusion
    NoLockIsLeft
PROPERTY
    EveryCallerIsTold
CHECK_DEADLOCK FALSE
