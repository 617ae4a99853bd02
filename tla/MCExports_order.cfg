CONSTANTS
    a1 = a1  a2 = a2  a3 = a3  n1 = n1  w1 = w1  m1 = m1
    o1 = o1  o2 = o2  o3 = o3  o4 = o4
    Addrs = {a1, a2, a3}
    Names = {n1}
    Patterns = {w1}
    Masks = {m1}
    Opts = {o1, o2, o3, o4}
    NoName = NoName
    AnonClient = AnonClient
    NoClient = NoClient
    NoPath = NoPath
    NoAddr = NoAddr
    IP <- MCIP
    Net <- MCNet
    NetMask <- MCNetMask
    Text <- MCText
    Rev <- MCRevSingle
    Code <- MCCode
    LowerCase <- MCLower
    Files <- MCFiles
    ReqPaths <- MCReqPaths
    IPCACHEMAX = 2
    ANONMAX = 1
    MaxReload = 2
    MaxReq = 4
SPECIFICATION Spec
\* The bounds on requests and reloads, not the server, stop a behaviour.
CHECK_DEADLOCK FALSE
INVARIANT WildcardBeforeNetmask
