\* One server crashing at once after every fork, in one second.
SPECIFICATION Spec
CONSTANTS
    NCOPIES = 1
    MaxDeaths = 7
    MaxTime = 1
    Kernels = {"zombies"}
CHECK_DEADLOCK FALSE
PROPERTY BackoffDoubles
