SPECIFICATION FairSpec
CONSTANTS
    Serials = {d1}
    PortGroups = {g1, g2}
    NoPorts = NoPorts
    Racing = {d1}
    Calms = {FALSE}
    MaxScopes = 1
    MaxWorkers = 3
    MaxTodo = 2
PROPERTIES
    RemovedIsStopped
CHECK_DEADLOCK FALSE
