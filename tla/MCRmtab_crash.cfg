CONSTANTS
    Hosts <- MCHosts
    Args <- MCDirs
    Realpath <- MCRealpath
    Ord <- MCOrd
    LINE_MAX = 5
    MaxTime = 2
    MaxCrash = 0
    MaxWriteCrash = 1
    MaxEdits = 0
SPECIFICATION Spec
INVARIANT DumpIsMounts
