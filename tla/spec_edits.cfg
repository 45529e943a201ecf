CONSTANTS
    j1 = j1
    j2 = j2
    p1 = p1
    p2 = p2
    NoJob = NoJob
    Jobs = {j1}
    Pools = {p1}
    Specs <- Edited
    PoolName <- OnePool
    MaxOps = 6
    MaxIncarnations = 1
    SpecEdits = TRUE
    CacheLag = FALSE
    FaultKinds = {"crash", "api"}
    MaxFaults = 2
    MaxEntries = 2
SPECIFICATION Spec
INVARIANTS LifeInv PoolsAreClaimed TrainsOnOwnPool
PROPERTIES KeepsJobContract
CHECK_DEADLOCK FALSE
