SPECIFICATION FairSpec
CONSTANTS
    Slots = 2
    RttSize = 3
    RttWindow = 2
    HistorySize = 2
    Word = 16
    Sizes = {1, 2}
    MaxSeq = 4
CHECK_DEADLOCK FALSE
INVARIANTS SizeIsInflight SettledOnce
PROPERTY EventuallySettled
