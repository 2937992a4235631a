SPECIFICATION LiveSpec
CONSTANTS
    NULL = NULL
    u1 = u1
    u2 = u2
    u3 = u3
    Threads = {t1}
    Items = {i1, i2, i3, i4}
    Urls = {u1, u2, u3}
    Responses <- ByteResponses
    MAX_CACHE_SIZE = 10
    MAX_OBJECT_SIZE = 3
    MAXBUF = 2
    SIZE_T = 16
    MaxConns = 4
PROPERTIES CacheCallsReturn
