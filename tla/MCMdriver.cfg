\* The driver exits after its traces.  The indices differ from all tags and
\* pointers, so that a payload is not mistaken for one.
SPECIFICATION Spec
CONSTANTS
    Start = 8
    MAX_HEAP = 120
    CHUNKSIZE = 32
    SIZE_T = 512
    Packages = {"implicit", "explicit", "clean", "mm"}
    Ids = {2, 3, 4}
    Sizes = {0, 4, 12, 40, 300}
    MaxOps = 6
    MaxReplay = 3
    MaxBefore = 2
INVARIANTS
    HeapTiled NoFreeNeighbours FreeListExact NothingLeaks ReplaysSucceed
PROPERTIES
    ChecksPass KeepsPromise
CHECK_DEADLOCK FALSE
