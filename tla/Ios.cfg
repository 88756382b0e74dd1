SPECIFICATION FairSpec
CONSTANTS
    Users = {u1, u2}
    None = None
    MaxReservations = 2
    MaxInstalls = 2
    MaxQueue = 2
    MaxPending = 3
    MaxRecoveries = 1
    MaxRestarts = 1
    Uses = {{"command", "power"}, {"power", "recover"},
            {"command", "fail"},
            {"command", "watch", "absent", "turn"},
            {"command", "watch", "restart", "crash"},
            {"command", "absent", "restart", "turn", "crash"},
            {"install", "recover"}, {"install", "restart"},
            {"install", "fail"}, {"install", "expire", "crash"},
            {"install", "absent"}, {"command", "install"},
            {"install", "status", "cancel"},
            {"install", "cross"}}
INVARIANTS
    InstallIsOwned
    SessionOutlivesAction
PROPERTIES
    ImplementsReservation
    ReleaseIsEffective
    NeverBusyForGood
CHECK_DEADLOCK FALSE
