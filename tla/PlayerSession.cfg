SPECIFICATION Spec
CONSTANTS
    Players = {p1, p2}
    Addrs = {a1, a2, a3}
    NoAddr = NoAddr
    MaxCommands = 1
    RestartWait = 1
    KickLeavers = FALSE
SYMMETRY Symmetry
INVARIANTS
    TypeOK
    AdminBelongsToOccupant
    QueueInv
    CountMatchesSlots
    EveryPlayerInitialised
    CrashOnlyWhileRestarting
PROPERTY KeepsRoster
CHECK_DEADLOCK FALSE
