SPECIFICATION Spec
CONSTANTS
    Root = root
    Others = {o1}
    Bookings = {b1, b2}
    Devices = {d1, d2}
    Users = {u1}
    Requests = {r1, r2}
    None = None
    Scenarios = {{"schedule", "unbook", "relist", "invite", "users", "move", "book", d1},
                 {"schedule", "unbook", "relist", "invite", "users", d1},
                 {"schedule", "unbook", "relist", d1, d2},
                 {"schedule", "unbook", "delete", d1, d2}}
    MaxAsked = 4
    MaxOverlapping = 4
SYMMETRY
    Symmetry
INVARIANTS
    OriginsAgree
    CurrentIsRight
    NoOutsider
PROPERTIES
    AnswerIsTrue
CHECK_DEADLOCK FALSE
