CONSTANTS
    j1 = j1
    j2 = j2
    p1 = p1
    p2 = p2
    NoJob = NoJob
    Jobs = {j1, j2}
    Pools = {p1, p2}
    Specs <- TwoApart
    PoolName <- TwoPools
    MaxOps = 6
    MaxIncarnations = 1
    SpecEdits = FALSE
    CacheLag = FALSE
    FaultKinds = {"pollCall", "deleteCall", "deleteOp"}
    MaxFaults = 1
    MaxEntries = 2
SPECIFICATION Spec
INVARIANTS HoldInv TrainsOnOwnPool
PROPERTIES NoPoolTakenFromTraining
CHECK_DEADLOCK FALSE
