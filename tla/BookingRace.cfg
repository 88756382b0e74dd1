SPECIFICATION Spec
CONSTANTS
    Groups = {g1, g2}
    None = None
    Devices = {d1}
    Requests = {r1, r2}
    Ticks = {t1}
    Scenarios = {{"tick"}}
    Focus = {}
    MaxNumber = 2
    MaxDuration = 3
    Period = 1
    MaxStart = 1
    MaxTimes = 2
    MaxTime = 3
    MaxDrift = 0
INVARIANTS
    DevicesAreBookedOnce
CHECK_DEADLOCK FALSE
