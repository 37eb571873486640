SPECIFICATION Spec
CONSTANTS
    Channels <- NoChannels
    MessageChannel = FALSE
    PersistentCache = TRUE
    InputWindow = 2
INVARIANT
    KeyListOnlyFirst
