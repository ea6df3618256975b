CONSTANTS
    Sessions = {w}
    Transfers = {}
    Sockets = {s1, s2, s3}
    None = None
    Curl = Curl
    InitialCapacity = 1
    Addresses = 2
SPECIFICATION Spec
PROPERTIES AttachExpected
