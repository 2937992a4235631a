SPECIFICATION Spec
CONSTANTS
    NULL = NULL
    u1 = u1
    u2 = u2
    u3 = u3
    Threads = {t1, t2}
    Items = {i1, i2, i3, i4, i5}
    Urls = {u1, u2}
    Responses <- MixedResponses
    MAX_CACHE_SIZE = 4
    MAX_OBJECT_SIZE = 3
    MAXBUF = 2
    SIZE_T = 16
    MaxConns = 5
SYMMETRY Symmetric
INVARIANTS RepliesAreResponses HitIsOfUrl RoomExact ReplyInv
PROPERTIES ReadersFreezeCache
