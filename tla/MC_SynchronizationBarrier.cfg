SPECIFICATION BarrierFairSpec
CHECK_DEADLOCK FALSE
CONSTANTS
    t1 = t1
    t2 = t2
    t3 = t3
    Participants = {t1, t2, t3}
    Loops = 3
    Processors = 2
INVARIANTS
    BarrierInv
    Rendezvous
    OneTrue
PROPERTIES
    AllPass
