\* A kernel that reaps children at once while SIGCHLD is SIG_IGN.
SPECIFICATION Spec
CONSTANTS
    NCOPIES = 2
    MaxDeaths = 1
    MaxTime = 1
    Kernels = {"autoreap"}
CHECK_DEADLOCK FALSE
PROPERTY ServerReplaced
