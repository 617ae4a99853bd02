\* The tree of MCFhPaths.cfg, with "/a" exported read-only: a CREATE with
\* zero file-type bits in "/a" is answered from the stale pathbuf.
CONSTANTS
    Inodes = {1, 2, 3, 4, 5}
    Root = 1
    Names = {"a", "b"}
    NameOrder <- NameOrderDef
    NameLen <- NameLenDef
    Hash <- HashDef
    HP_LEN = 3
    NFS_MAXPATHLEN = 16
    InitFs <- InitFsDef
    Exports <- ExportsDef
    ReadOnly <- ReadOnlyDef
    MountPaths <- MountPathsDef
    NoMnt = NoMnt
    NoEntry = NoEntry
    NoPath = NoPath
    NoReply = NoReply
    MaxCalls = 5
    MaxAllocs = 2
INIT Init
NEXT Next
CHECK_DEADLOCK FALSE
INVARIANT RofsCreateAsCommented
