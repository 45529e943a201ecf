CONSTANTS
    j1 = j1
    j2 = j2
    p1 = p1
    p2 = p2
    NoJob = NoJob
    Jobs = {j1}
    Pools = {p1}
    Specs <- AnySpec
    PoolName <- OnePool
    MaxOps = 6
    MaxIncarnations = 2
    SpecEdits = FALSE
    CacheLag = FALSE
    FaultKinds = {"crash", "api", "vanish", "createCall", "node"}
    MaxFaults = 2
    MaxEntries = 2
SPECIFICATION FairSpec
INVARIANTS TypeOK ClaimInv PoolHasResolvedSize PoolsAreClaimed TrainsOnOwnPool OperationMatchesPhase StartBelongsToThisRun CollectsOnlySuccess SucceededIsComplete  HistoryOnlyOfSuccess
PROPERTIES ResolvedOnce PhasesInOrder KeepsJobContract JobEnds DeletionCompletes PoolIsReleased
CHECK_DEADLOCK FALSE
