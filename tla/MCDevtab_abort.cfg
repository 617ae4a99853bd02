CONSTANTS
    Procs = {p1, p2}
    Devs = {d1, d2, d3}
    MaxTime = 3
    MaxCrash = 0
    MaxRestarts = 0
    NoDev = NoDev
SPECIFICATION Spec
CHECK_DEADLOCK FALSE



INVARIANT NoFatalExit
