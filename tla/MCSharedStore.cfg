CONSTANTS
    Replicas = {r1, r2}
    Workers = {w1, w2}
    Tasks = {1, 2}
    Jobs = {j1}
    None = None
    LockFor = 1
    Limit = 2
    Retries = 2
    MaxTime = 2
    MaxRequests = 4
    MaxCrashes = 1
SPECIFICATION Spec
INVARIANTS TypeOK JobOnce LockHonoured AppliedOnce RowMatchesToken HistoryComplete
SYMMETRY Symmetry
CHECK_DEADLOCK FALSE
