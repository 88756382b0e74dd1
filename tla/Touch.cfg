SPECIFICATION ControlSpec
CONSTANTS
    Pages = {1, 2}
    Contacts = {0, 1}
    Cycle = 8
    MinSafe = 2
    MaxPending = 2
    None = None
    Scenarios = {{"lose", "miss"}, {"leave", "age"}, {"owner", "leave"}, {"pages"}, {"fingers"}, {"fingers", "lose"}, {"long"},
                 {"owner", "minitouch", "gestures", "vnc"},
                 {"owner", "minitouch", "vnc", "late", "abrupt"}}
    MaxReservations = 2
    MaxGestures = 2
    MaxLength = 14
    MaxSent = 6
    MaxLost = 1
    Viewers = {v1}
    FailLimit = 1
    MaxWrites = 2
INVARIANTS
    NoStrayFinger
    PlayedInOrder
    BegunInOrder
    LiftedInTheEnd
    NothingBlocks
    NothingIsStuck
CHECK_DEADLOCK FALSE
