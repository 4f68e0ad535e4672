SPECIFICATION Spec
CONSTANTS
    Modes = {"lvdm", "rivershell", "sf_tdn"}
    Readable = {"lvdm", "rivershell"}
    Valid = {"lvdm", "rivershell"}
    NoMode = "none"
    MaxSlot = 2
    Configs <- MCGoodCfg
    NewLines <- MCNoLines
    MaxRepeat = 4
    MaxTurns = 3
INVARIANTS TurnsAsConfigured
CHECK_DEADLOCK FALSE
