SPECIFICATION Spec
CONSTANTS
    Parent <- MCParent
    Writers = {w1, w2}
    Readers = {r1}
    Line <- MCLine
    Texts <- MCTexts
    Chunks = {2, 6}
    MAXLEN = 5
    MaxWrites = 3
    Base = 4
    PageSize = 16
    Callers = {c1, c2}
    Tasks = {1, 2, 3}
    KernelThreads = {3}
    Packets <- MCPackets
    VPages = {2}
    Frames = {61}
    MaxCalls = 2
    MaxRemaps = 2
    CreateFails = {"dir", "input", "ptree", "output"}
CHECK_DEADLOCK FALSE
INVARIANTS
    TypeOK
    TreeIsBranch
    AddressOfPid
PROPERTIES
    WalksEnd
