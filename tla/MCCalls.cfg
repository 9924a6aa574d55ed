CONSTANTS
    Clients = {c1, c2}
    MaxInst = 3
    MaxDepth = 2
    MaxCrashes = 1
    BatchSize = 3
SPECIFICATION Spec
INVARIANTS TypeOK CallHasAnswer ChildrenCanceled
PROPERTIES PurgeSafe CallAnswered PurgedEventually
