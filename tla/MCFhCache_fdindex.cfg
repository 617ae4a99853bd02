CONSTANTS
    Handles = {h1, h2, h3}
    SpecialFiles = {h3}
    Uids = {u1, u2}
    ROOT_UID = root
    FH_CACHE_LIMIT = 1
    FOPEN_MAX = 2
    CLOSE_INTERVAL = 0
    DISCARD_INTERVAL = 1
    MaxTime = 2
    MaxFds = 3
    InitFds = {0}
    MaxConns = 1
    NoUid = NoUid
    NoRequest = NoRequest
SPECIFICATION Spec
INVARIANT FdIndexInBounds
