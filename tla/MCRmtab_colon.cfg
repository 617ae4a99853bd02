CONSTANTS
    Hosts <- MCHosts
    Args <- MCColonDirs
    Realpath <- MCRealpath
    Ord <- MCOrd
    LINE_MAX = 5
    MaxTime = 2
    MaxCrash = 1
    MaxWriteCrash = 0
    MaxEdits = 0
SPECIFICATION Spec
INVARIANT DumpIsMounts
