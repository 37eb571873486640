SPECIFICATION FairSpec
CHECK_DEADLOCK FALSE
CONSTANTS
    r1 = r1
    r2 = r2
    Readers = {r1, r2}
    InitialCapacity = 2
    MaxPosts = 6
    Zero = Zero
INVARIANTS
    Inv
PROPERTIES
    IsFifo
    Drained
