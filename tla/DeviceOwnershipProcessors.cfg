SPECIFICATION Spec
CONSTANTS
    Users = {u1, u2}
    None = None
    Processors = {p1, p2}
    AutoRestoreOwner = FALSE
    MaxReservations = 2
    MaxQueue = 2
    MaxInbox = 1
    MaxWrites = 1
INVARIANTS
    OwnerIsShown
