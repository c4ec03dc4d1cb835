SPECIFICATION PackingSpec
CONSTANTS
    Layouts <- MCLayouts
    Elements <- MCElements
    Numbers = {0, 1, 2, 7}
    MaxLen = 2
    HalfByte = 1
    Dirt = {0, 1}
INVARIANT ElementsReturn
CHECK_DEADLOCK FALSE
