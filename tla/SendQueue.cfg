\* Three producers, the send thread and Stop() at any time.
CONSTANTS
    Buffers = 2
    Capacity = 3
    Audio <- OneAudio
    MaxPackets = 4
    MaxArrivals = 1
    Null = Null
SPECIFICATION Spec
CHECK_DEADLOCK FALSE
INVARIANTS
    BuffersAccounted
    NeverAborts
    PermitIsElement
PROPERTIES
    StopReturns
    ImplementsOutbox
