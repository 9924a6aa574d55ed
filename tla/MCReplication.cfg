CONSTANTS
    Keys = {k1}
    Hist = hist
    Buffer = 2
    BatchSize = 2
    CompactEvery = 2
    MaxWrites = 3
    MaxFaults = 1
SPECIFICATION FairSpec
INVARIANTS TypeOK StreamComplete HistoryOnce PromotionComplete
PROPERTIES ResyncCompletes Converges
CHECK_DEADLOCK FALSE
