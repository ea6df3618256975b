CONSTANTS
    MaxWrites = 2
    MaxReconnects = 2
    TickOn = TRUE
    OwnThread = TRUE
    LiveReconnect = FALSE
    BufferSize = 2
    MaxLength = 1
    MaxInbound = 1
SPECIFICATION FairSpec
PROPERTY EveryWriteAnswered
