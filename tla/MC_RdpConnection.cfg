SPECIFICATION FairSpec
CONSTANTS
    Channels <- TwoChannels
    MessageChannel = TRUE
    PersistentCache = TRUE
    InputWindow = 3
INVARIANTS
    Inv
    NoRefusal
    ActiveAgrees
    ActivationsTold
PROPERTIES
    ConnectCompletes
    ResizeCompletes
