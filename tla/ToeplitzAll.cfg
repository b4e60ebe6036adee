SPECIFICATION ToeplitzSpec
CONSTANTS
    W = 3
    KeyLens = {2, 3, 5, 7}
    DataLen = 4
INVARIANTS HashIsToeplitz
CHECK_DEADLOCK FALSE
