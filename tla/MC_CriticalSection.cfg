SPECIFICATION FairSpec
CONSTANTS
    Threads <- ThreeThreads
    NoThread = "NULL"
    SpinCounts <- SpinOrNot
    MaxDepth = 2
INVARIANTS
    Inv
    MutualExclusion
PROPERTIES
    ImplementsRecursiveLock
    WaiterIsServed
