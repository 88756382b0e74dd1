SPECIFICATION FairSpec
CONSTANTS
    Serials = {d1, d2}
    PortGroups = {g1, g2}
    NoPorts = NoPorts
    Racing = {d1}
    Calms = {TRUE, FALSE}
    MaxScopes = 3
    MaxWorkers = 2
    MaxTodo = 2
INVARIANTS
    PortsAreConserved
    OneWorkerPerDevice
PROPERTIES
    UsableIsWorked
    CalmlyRemovedIsStopped
CHECK_DEADLOCK FALSE
