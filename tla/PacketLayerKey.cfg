SPECIFICATION Spec
CONSTANTS
    Caller = Caller
    Callee = Callee
    None = None
    Peers <- MCPeers
    Senders <- MCSenders
    MaxSent <- MCMaxSent
    Reliables = {}
    Types = {key}
    MaxVersion = 1
    Versions = {6}
    Producers = 2
    CallerSends = 2
    CalleeSends = 1
    MaxTotal = 4
    Window = 3
    MaxRecent = 3
    MaxSeqs = 2
CHECK_DEADLOCK FALSE
INVARIANT ConfirmedIsSeen
