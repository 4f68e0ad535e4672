\* One filterscript and the game mode, intervals longer than a tick.
SPECIFICATION FairSpec
CONSTANTS
    FilterScripts = {fs1}
    Mode = mode
    Intervals = {3, 5}
    Tick = 2
    MaxTimers = 3
    NoTimer = none
    UnloadInCallback = FALSE
INVARIANTS
    TypeOK
    IteratorsValid
    NeverTooEarly
PROPERTIES
    KeepsPromise
    KilledGoes
    EveryTimerFires
