CONSTANTS
    Hosts <- MCFewHosts
    Args <- MCDirs
    Realpath <- MCRealpath
    Ord <- MCOrd
    LINE_MAX = 5
    MaxTime = 2
    MaxCrash = 1
    MaxWriteCrash = 1
    MaxEdits = 1
SPECIFICATION Spec
CONSTRAINT MCOneKill
INVARIANT ListSorted
INVARIANT DumpIsMountsUnlessTorn
