SPECIFICATION FairSpec
CONSTANTS
    Users = {u1, u2}
    None = None
    Processors = {p1}
    AutoRestoreOwner = TRUE
    MaxReservations = 2
    MaxQueue = 2
    MaxInbox = 1
    MaxWrites = 1
INVARIANTS
    RowTellsTheTruth
    ClaimIsTheOwners
PROPERTIES
    RowCatchesUp
