SPECIFICATION Spec
CONSTANTS
    Objectives <- FewObjectives
    Histories <- SlowedDown
    Grid = 4
    Works = {144}
    Provisionings = {0, 2}
    Prices <- AnyPrices
    CalibrationNodes = 2
CHECK_DEADLOCK FALSE
INVARIANT FindsTheMinimum
