\* NFS_MAXPATHLEN 5: "/a/a" (4 bytes) is the longest path build_path and
\* fh_compose accept below a directory.
CONSTANTS
    Inodes = {1, 2, 3, 4, 5}
    Root = 1
    Names = {"a", "b"}
    NameOrder <- NameOrderDef
    NameLen <- NameLenDef
    Hash <- HashDef
    HP_LEN = 3
    NFS_MAXPATHLEN = 5
    InitFs <- InitFsDef
    Exports <- ExportsDef
    ReadOnly <- ReadOnlyDef
    MountPaths <- MountPathsDef
    NoMnt = NoMnt
    NoEntry = NoEntry
    NoPath = NoPath
    NoReply = NoReply
    MaxCalls = 5
    MaxAllocs = 2
INIT Init
NEXT Next
CHECK_DEADLOCK FALSE
INVARIANT HandlesResolve
