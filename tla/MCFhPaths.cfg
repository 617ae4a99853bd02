\* Five inodes: "/" (1), a directory "/a" (2) holding a file "/a/a" (3),
\* and two free ones.  Hash collides: 1, 3 and 5 hash to 0, 2 and 4 to 1,
\* so a rebuilt search can descend into the wrong directory first.
CONSTANTS
    Inodes = {1, 2, 3, 4, 5}
    Root = 1
    Names = {"a", "b"}
    NameOrder <- NameOrderDef
    NameLen <- NameLenDef
    Hash <- HashDef
    HP_LEN = 3
    NFS_MAXPATHLEN = 16
    InitFs <- InitFsDef
    Exports <- ExportsDef
    ReadOnly <- ReadOnlyDef
    MountPaths <- MountPathsDef
    NoMnt = NoMnt
    NoEntry = NoEntry
    NoPath = NoPath
    NoReply = NoReply
    MaxCalls = 5
    MaxAllocs = 2
INIT Init
NEXT Next
CHECK_DEADLOCK FALSE
INVARIANT TypeOK
INVARIANT HandlesResolve
PROPERTY ReadOnlyUnchanged
