SPECIFICATION FairSpec
CONSTANTS
    Players = {p1, p2}
    Addrs = {a1, a2}
    NoAddr = NoAddr
    MaxCommands = 0
    RestartWait = 1
    KickLeavers = FALSE
PROPERTIES
    RestartCompletes
    FinishIsHonoured
    GoneIsNoticed
CHECK_DEADLOCK FALSE
