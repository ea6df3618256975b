CONSTANTS
    MaxText = 3
    Char <- MCChar
    Header <- MCHeader
    Line <- MCLine
    Path <- MCPath
    Query <- MCQuery
    Timeout = {100}
    MaxHeaders = 2
    MaxBody = 2
    MaxRequests = 2
    RegisterRaces = FALSE
SPECIFICATION FairSpec
INVARIANTS TypeOK TransferCoherent TaskExpected RequestReturned NodesConserved HeadersIntact WireMatches
PROPERTY ImplementsRequestReply
