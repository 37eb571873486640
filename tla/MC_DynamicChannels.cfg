SPECIFICATION FairSpec
CHECK_DEADLOCK FALSE
CONSTANTS
    MaxChannels = 2
    Chunk = 2
    Lengths <- TwoLengths
    MaxMessages = 2
    Writers <- TwoWriters
INVARIANTS
    Inv
    GetsWritten
PROPERTIES
    DroppedOnlyAfterClose
    OpenAnswered
    WrittenArrives
    DisconnectEnds
