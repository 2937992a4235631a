SPECIFICATION Spec
CONSTANTS
    Width = 20
    CountWidth = 16
    Caches <- MCCaches
    Addrs = {0, 1, 2, 4, 6, 8}
    MaxAccesses = 6
    StaleBits = {0}
    Dims <- MCDims
CHECK_DEADLOCK FALSE
INVARIANTS
    CountsAreLru
    TransposeCorrect
    FullMarks
