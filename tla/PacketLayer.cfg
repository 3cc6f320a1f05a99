SPECIFICATION Spec
CONSTANTS
    Caller = Caller
    Callee = Callee
    None = None
    Peers <- MCPeers
    Senders <- MCSenders
    MaxSent <- MCMaxSent
    Reliables = {r1}
    Types = {flags}
    MaxVersion = 2
    Versions = {5, 6}
    Producers = 3
    CallerSends = 3
    CalleeSends = 2
    MaxTotal = 4
    Window = 2
    MaxRecent = 2
    MaxSeqs = 2
CHECK_DEADLOCK FALSE
INVARIANTS AckIsAccepted WindowIsTrue TwiceOnlyAfterJump RemovedIsReached ConfirmedIsSeenOrOvertaken NewestIsKept
PROPERTY BackOnlyWhenLateOrOvertaken
