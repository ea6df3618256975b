CONSTANTS
    MaxClients = 2
    MaxThreads = 2
    MaxConnections = 2
    MaxTasks = 2
    MoveAssign = FALSE
SPECIFICATION FairSpec
INVARIANTS RegisteredIsOwned WorkerOutlives
PROPERTY AllDestroyed
