SPECIFICATION Spec
CONSTANTS
    Players = {p1}
    Addrs = {a1}
    NoAddr = NoAddr
    MaxCommands = 0
    RestartWait = 1
    KickLeavers = TRUE
INVARIANT CountMatchesSlots
CHECK_DEADLOCK FALSE
