\* A timer callback unloads another filterscript.
SPECIFICATION Spec
CONSTANTS
    FilterScripts = {fs1}
    Mode = mode
    Intervals = {3}
    Tick = 2
    MaxTimers = 2
    NoTimer = none
    UnloadInCallback = TRUE
INVARIANT
    IteratorsValid
