CONSTANTS
    Procs = {p1, p2}
    Devs = {d1, d2, d3}
    MaxTime = 2
    MaxCrash = 1
    MaxRestarts = 1
    NoDev = NoDev
SPECIFICATION Spec
CHECK_DEADLOCK FALSE
INVARIANT TypeOK
INVARIANT MutualExclusionWhileNoneKilled
PROPERTY LockServed
