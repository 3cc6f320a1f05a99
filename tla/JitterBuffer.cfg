\* Four frames and a copy in every order: evictions, losses, resets and resyncs.
CONSTANTS
    Step = 2
    SlotCount = 3
    MaxUsedSlots = 2
    MinMinDelay = 1
    MaxMinDelay = 1
    InitialDelay = 1
    PacketCounts <- TwoCounts
    LossesToReset = 4
    LossFactor = 1
    HistorySize = 2
    LateWindow = 1
    ResyncLate = 1
    HoldDec = 2
    HoldChange = 2
    Packets <- Four
    Drifts <- AllDrifts
    MaxTicks = 1
    MaxPuts = 6
    MaxTimestamp = 14
    None = None
SPECIFICATION Spec
CHECK_DEADLOCK FALSE
INVARIANTS
    BuffersMatchSlots
    OneSlotPerTimestamp
    OnlyLateBehind
    FecIsSuccessor
PROPERTIES
    PlayedInOrder
