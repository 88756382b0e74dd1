SPECIFICATION FairSpec
CONSTANTS
    Users = {u1, u2}
    None = None
    Batch = 2
    MaxReservations = 3
    Clients = {c1, c2}
    Configs = {upright, turned}
    FailLimit = 1
    MaxSending = 2
    Ids = {f1, f2}
    Ports = {p1, p2}
    MaxConnections = 3
    MaxTenures = 2
    Uses = {{"group", "turn"}, {"group", "turn", "forward"},
            {"group", "forward", "late"}, {"forward", "reuse"}, {"screen"},
            {"screen", "restart"}, {"screen", "close"}, {"screen", "fail"},
            {"screen", "slow"}}
INVARIANTS
    AcknowledgedIsHeld
    HeldIsKnown
    ScreenIsCurrent
    NothingIsInherited
PROPERTIES
    ImplementsReservation
    FollowsWatchers
    FramesFlow
CHECK_DEADLOCK FALSE
