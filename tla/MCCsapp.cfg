SPECIFICATION Spec
CONSTANTS
    Data <- MCData
    NL = "nl"
    WriteSizes = {1, 2, 5}
    LineSizes = {2, 3, 5}
    BlockSizes = {1, 2, 4}
    RIO_BUFSIZE = 3
    Capacity = 4
    MaxEintr = 2
    MayFail = TRUE
    NAddrs = 3
CHECK_DEADLOCK FALSE
INVARIANTS
    TypeOK
    StreamIntact
    CallsFilled
    OpensTidy
PROPERTIES
    TransferEnds
