CONSTANTS
    MaxText = 1
    Char <- MCChar
    Header <- MCHeader
    Line <- MCLine
    Path <- MCPath
    Query <- MCQuery
    Timeout = {100}
    MaxHeaders = 1
    MaxBody = 1
    MaxRequests = 1
    RegisterRaces = TRUE
SPECIFICATION Spec
INVARIANT SendExpected
