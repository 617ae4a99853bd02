CONSTANTS
    Hosts = {h1, h2}
    Exact = {h1}
    Ids = {0, 1, 2}
    NONE = NONE
    NOBODY = NOBODY
    Anon = Anon
    ANY = ANY
    Modes <- MCModes
    SquashUids = {1}
    SquashGids = {1}
    StaticLines <- MCStaticLines
    RootSquash = TRUE
    AllSquash = FALSE
    SrvPasswd <- MCSrvPasswd
    SrvGroup <- MCSrvPasswd
    CltPasswd <- MCCltPasswd
    CltGroup <- MCCltPasswd
    UGID_EXPIRE = 1
    MAXCACHE = 2
    EXPCACHE = 0
    MaxTime = 2
    MaxReload = 1
    MaxCalls = 2
    Orders <- MCOrders
SPECIFICATION Spec
\* The bound on calls, not the server, stops a behaviour.
CHECK_DEADLOCK FALSE
INVARIANT TypeOK
INVARIANT SquashHonouredNamed
INVARIANT NoDuplicateSlots
INVARIANT DaemonMapsByName
