\* "/" exported read-write, with "/a/a" and "/b/a": a client mounts "/a/a"
\* while another empties "/a" and renames "/b" onto it.
CONSTANTS
    Inodes = {1, 2, 3, 4, 5}
    Root = 1
    Names = {"a", "b"}
    NameOrder <- NameOrderDef
    NameLen <- NameLenDef
    Hash <- RaceHashDef
    HP_LEN = 3
    NFS_MAXPATHLEN = 16
    InitFs <- RaceFsDef
    Exports <- RaceExportsDef
    ReadOnly = {}
    MountPaths <- RaceMountPathsDef
    NoMnt = NoMnt
    NoEntry = NoEntry
    NoPath = NoPath
    NoReply = NoReply
    MaxCalls = 5
    MaxAllocs = 0
INIT Init
NEXT Next
CHECK_DEADLOCK FALSE
PROPERTY MntReplyValid
