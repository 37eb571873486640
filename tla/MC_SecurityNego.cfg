SPECIFICATION FairSpec
CONSTANTS
    Hosts <- AllHosts
    Clients <- AllClients
INVARIANTS
    Inv
    HighestCommon
    GivesUpOnlyIfIncompatible
    LayersAgree
PROPERTIES
    NegoEnds
