SPECIFICATION Spec
CONSTANTS
    Modes = {"lvdm", "rivershell", "notes", "sf_tdn"}
    Readable = {"lvdm", "rivershell", "notes"}
    Valid = {"lvdm", "rivershell"}
    NoMode = "none"
    MaxSlot = 2
    Configs <- MCServerCfgs
    NewLines <- MCNewLines
    MaxRepeat = 2
    MaxTurns = 2
INVARIANTS TypeOK RotationInv ModeMissingForAReason
PROPERTIES LoadsWhatWasAccepted RepeatsCurrent
CHECK_DEADLOCK FALSE
