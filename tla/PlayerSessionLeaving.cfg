SPECIFICATION Spec
CONSTANTS
    Players = {p1}
    Addrs = {a1}
    NoAddr = NoAddr
    MaxCommands = 0
    RestartWait = 1
    KickLeavers = FALSE
PROPERTY LeavingIsSafe
CHECK_DEADLOCK FALSE
