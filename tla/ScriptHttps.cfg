SPECIFICATION FairSpec
CONSTANTS
    Addrs = {x1, x2, x3}
    Files = {f, h, g}
    Refused = {g}
    ModeFile = gm
    MaxScripts = 2
    MaxLoads = 3
    MaxDepth = 2
    MaxHttps = 1
    MaxTickets = 2
    MaxWork = 4
    None = None
INVARIANTS
    TypeOK
    SlotsInv
    WorkersHaveRecords
    ToldWhoAsked
    CrashNeedsFault
PROPERTIES
    ExitBeforeFree
    KeepsPromise
    SlotsComeBack
CHECK_DEADLOCK FALSE
