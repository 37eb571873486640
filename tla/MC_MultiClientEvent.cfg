SPECIFICATION FairSpec
CONSTANT
    Clients <- FourClients
INVARIANTS
    Inv
    SurfaceStable
    FrameComplete
PROPERTIES
    NobodyStuck
