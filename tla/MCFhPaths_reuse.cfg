\* Inode reuse: a handle that still resolves after its file was removed
\* and the inode given to a new file.
CONSTANTS
    Inodes = {1, 2, 3, 4, 5}
    Root = 1
    Names = {"a", "b"}
    NameOrder <- NameOrderDef
    NameLen <- NameLenDef
    Hash <- HashDef
    HP_LEN = 3
    NFS_MAXPATHLEN = 16
    InitFs <- InitFsDef
    Exports <- ExportsDef
    ReadOnly <- ReadOnlyDef
    MountPaths <- MountPathsDef
    NoMnt = NoMnt
    NoEntry = NoEntry
    NoPath = NoPath
    NoReply = NoReply
    MaxCalls = 5
    MaxAllocs = 2
INIT Init
NEXT Next
CHECK_DEADLOCK FALSE
INVARIANT HandleNamesIssuedFile
