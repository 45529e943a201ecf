CONSTANTS
    c8 = c8
    n1 = n1
    Unset = Unset
    MachineTypes = {c8, n1}
    DefaultCPU = c8
    DefaultGPU = n1
    Requests <- SomeRequests
    Goals <- SomeGoals
    Price = 1
    Provisioning = 10
    CalibrationNodes = 2
    Work = 14400
    Curves <- SomeCurves
    Grid = 2
    Limit = 2
    MaxOver = 1
    PodNames = {101, 102}
    NoPod = NoPod
    MaxPolls = 1
    MaxLost = 2
SPECIFICATION FairSpec
INVARIANTS TypeOK StrayPodsAreLost
PROPERTIES EntriesAreTrue NeverOptimistic RetentionCatchesUp CollectionEnds
CHECK_DEADLOCK FALSE
