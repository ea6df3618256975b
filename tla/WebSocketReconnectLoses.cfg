CONSTANTS
    MaxWrites = 2
    MaxReconnects = 2
    TickOn = TRUE
    OwnThread = TRUE
    LiveReconnect = TRUE
    BufferSize = 2
    MaxLength = 1
    MaxInbound = 1
SPECIFICATION Spec
INVARIANT MessageToSend
