\* Two servers, three deaths, two seconds, on both kernels.
SPECIFICATION Spec
CONSTANTS
    NCOPIES = 2
    MaxDeaths = 3
    MaxTime = 2
    Kernels = {"zombies", "autoreap"}
\* Servers idle when no request comes and nothing dies.
CHECK_DEADLOCK FALSE
INVARIANTS TypeOK SlotsMatch
PROPERTY ReplacedOnZombieKernels
