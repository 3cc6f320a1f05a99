SPECIFICATION Spec
CONSTANTS
    Caller = Caller
    Callee = Callee
    None = None
    Peers <- MCPeers
    Senders <- MCSenders
    MaxSent <- MCMaxSent
    Reliables = {r1}
    Types = {}
    MaxVersion = 0
    Versions = {5}
    Producers = 1
    CallerSends = 2
    CalleeSends = 2
    MaxTotal = 4
    Window = 3
    MaxRecent = 3
    MaxSeqs = 2
CHECK_DEADLOCK FALSE
INVARIANT RemovedIsAccepted
