CONSTANTS
    j1 = j1
    j2 = j2
    p1 = p1
    p2 = p2
    NoJob = NoJob
    Jobs = {j1}
    Pools = {p1}
    Specs <- OneObjective
    PoolName <- OnePool
    MaxOps = 6
    MaxIncarnations = 1
    SpecEdits = FALSE
    CacheLag = TRUE
    FaultKinds = {"api"}
    MaxFaults = 0
    MaxEntries = 2
SPECIFICATION Spec
PROPERTIES ResolvedOnce
CHECK_DEADLOCK FALSE
