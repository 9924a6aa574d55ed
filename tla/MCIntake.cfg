CONSTANTS
    Clients = {c1, c2}
    Designs <- MCDesigns
    Waits <- MCWaits
    CorrKeys = {"", "b"}
    Events = {"e1", "e2"}
    Cycle = 2
    DedupeLimit = 1
    MaxDeploys = 3
    MaxSends = 2
    MaxCrashes = 1
SPECIFICATION Spec
CONSTRAINT Bounded
INVARIANTS TypeOK WokenOnce EventOnce AckedIsDelivered TriggersMatch
SYMMETRY Symmetry
CHECK_DEADLOCK FALSE
