CONSTANTS
    Clients = {c1, c2}
    Worker = w
    MaxCalls = 1
SPECIFICATION FairSpec
INVARIANTS MutualExclusion HandledInOrder NothingLeftAfterJoin NothingRegisteredAtExit IInv
PROPERTIES NoPushAfterStop ShutdownCompletes ImplementsTaskFifo
