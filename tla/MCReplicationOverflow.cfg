CONSTANTS
    Keys = {k1}
    Hist = hist
    Buffer = 1
    BatchSize = 2
    CompactEvery = 2
    MaxWrites = 2
    MaxFaults = 0
SPECIFICATION FairSpec
INVARIANT Converged
CHECK_DEADLOCK FALSE
