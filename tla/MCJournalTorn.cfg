CONSTANTS
    Procs = {p1, p2}
    Keys = {k1, k2}
    InstKeys = {k1, k2}
    Serialised = {k1, k2}
    Values = {v1}
    None = None
    NoProc = NoProc
    Corrupt = Corrupt
    CompactEvery = 2
    TornWrites = TRUE
    MaxSeq = 1
    MaxCrashes = 2
SPECIFICATION Spec
INVARIANT
    DurableAfterTornWrite
CHECK_DEADLOCK FALSE
