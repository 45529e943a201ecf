CONSTANTS
    j1 = j1
    j2 = j2
    p1 = p1
    p2 = p2
    NoJob = NoJob
    Jobs = {j1}
    Pools = {p1}
    Specs <- OneRestartable
    PoolName <- OnePool
    MaxOps = 6
    MaxIncarnations = 1
    SpecEdits = FALSE
    CacheLag = FALSE
    FaultKinds = {"pollCall", "api"}
    MaxFaults = 2
    MaxEntries = 2
SPECIFICATION Spec
PROPERTY CleanedUpIsTerminal
CHECK_DEADLOCK FALSE
