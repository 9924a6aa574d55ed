CONSTANTS
    Processes = {"review", "race", "scopes", "choice", "loop", "ballot", "assist", "order", "order2", "watch"}
    Elements <- MCElements
    Node <- MCNode
    Flows <- MCFlows
    Flow <- MCFlow
    Retries = 2
    Budget = 1
    MaxItems = 2
    Plans <- MCPlans
    Clients = {c1, c2}
    MaxOps <- MCMaxOps
    MaxCrashes = 1
SPECIFICATION Spec
INVARIANTS TypeOK NoSilentHang WaitsRecovered NoOrphanRecords ScopesOwned NoDoubleArrival LoopsAccounted TokensPlaced
PROPERTIES EndIsFinal
SYMMETRY Symmetry
CHECK_DEADLOCK FALSE
