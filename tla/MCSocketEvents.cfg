CONSTANTS
    Sessions = {w}
    Transfers = {r1, r2}
    Sockets = {s1, s2}
    None = None
    Curl = Curl
    InitialCapacity = 1
    Addresses = 1
SYMMETRY Symmetry
SPECIFICATION Spec
INVARIANTS TypeOK EventsConserved NoStaleEvent NoLostWakeup DataSocketIsConnected
PROPERTY SocketsExpected
