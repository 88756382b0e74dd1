SPECIFICATION FairSpec
CONSTANTS
    Groups = {g1, g2}
    None = None
    Devices = {d1}
    Requests = {r1, r2}
    Ticks = {t1}
    Scenarios = {{"update", "tick"}, {}}
    Focus = {g1}
    MaxNumber = 2
    MaxDuration = 3
    Period = 1
    MaxStart = 1
    MaxTimes = 2
    MaxTime = 3
    MaxDrift = 0
INVARIANTS
    NoDoubleBooking
    QuotaIsExact
    OneHolder
PROPERTIES
    OverIsDeleted
CHECK_DEADLOCK FALSE
