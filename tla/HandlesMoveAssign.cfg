CONSTANTS
    MaxClients = 2
    MaxThreads = 1
    MaxConnections = 2
    MaxTasks = 2
    MoveAssign = TRUE
SPECIFICATION Spec
INVARIANT ConnectionReleased
