CONSTANTS
    Processes = {"race"}
    Elements <- MCElements
    Node <- MCNode
    Flows <- MCFlows
    Flow <- MCFlow
    Retries = 2
    Budget = 1
    MaxItems = 2
    Plans <- MCPlans
    Clients = {c1, c2}
    MaxOps <- MCMaxOps
    MaxCrashes = 0
SPECIFICATION Spec
CHECK_DEADLOCK FALSE
PROPERTY FreshRetries
