SPECIFICATION FairSpec
CONSTANTS
    Objectives <- ManyObjectives
    Histories <- SaneHistories
    Grid = 4
    Works = {0, 120, 144}
    Provisionings = {0, 2}
    Prices <- AnyPrices
    CalibrationNodes = 2
CHECK_DEADLOCK FALSE
INVARIANTS TypeOK SearchBracket BranchInv BothWhenPossible FindsTheMinimum FitsLargerPoint
PROPERTIES KeepsContract SolverEnds
