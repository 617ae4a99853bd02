\* One server, one death: a restarted server meets killall -TERM.
SPECIFICATION Spec
CONSTANTS
    NCOPIES = 1
    MaxDeaths = 1
    MaxTime = 1
    Kernels = {"zombies"}
CHECK_DEADLOCK FALSE
PROPERTY TermStops
