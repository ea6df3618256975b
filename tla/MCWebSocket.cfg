CONSTANTS
    MaxWrites = 2
    MaxReconnects = 2
    TickOn = TRUE
    OwnThread = TRUE
    LiveReconnect = FALSE
    BufferSize = 2
    MaxLength = 3
    MaxInbound = 2
SPECIFICATION FairSpec
INVARIANTS TypeOK SessionCoherent TaskExpected OneTimer DestroyedClean MultipartReported
PROPERTIES SendsTheWrite CallbacksOnlyInSession WriteAnswered
