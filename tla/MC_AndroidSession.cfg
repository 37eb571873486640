SPECIFICATION FairSpec
CHECK_DEADLOCK FALSE
CONSTANTS
    Instances = {i1}
    i1 = i1
    NoInstance = NoInstance
    MaxThreads = 3
    Ticks = 2
INVARIANTS
    Inv
    OneThreadUnlessHasty
    OrphanHasCause
PROPERTIES
    ExitHonoured
    OutcomeShown
