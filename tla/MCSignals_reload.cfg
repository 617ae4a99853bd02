CONSTANTS
    Handles = {h1, h2}
    MaxHups = 2
    MaxVer = 2
SPECIFICATION Spec
INVARIANT ReloadApplied
