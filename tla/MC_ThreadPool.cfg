SPECIFICATION FairSpec
CHECK_DEADLOCK FALSE
CONSTANTS
    Clients <- TwoClients
    Workers <- TwoWorkers
    Initial <- OneInitial
    Tiles = 2
    Frames <- TwoAndOne
INVARIANTS
    Inv
    WorkSafe
PROPERTIES
    PoolProgress
