CONSTANTS
    a = a
    b = b
    c = c
    Connections = {a, b, c}
    NoConnection = NoConnection
    TickTimeout <- Timeouts
    InitialCapacity = 1
    MaxTime = 3
SPECIFICATION Spec
INVARIANTS TypeOK NodesConserved OneEntryPerSession
PROPERTIES ImplementsTimerQueue NoEarlyTick
