SPECIFICATION FairSpec
CONSTANTS
    Players = {p1, p2}
    MaxLives = 2
    MaxWire = 2
    MaxLate = 1
    None = None
INVARIANTS
    TypeOK
    DrivenInThisLife
    ClientsCatchUp
PROPERTIES
    WheelKeepsCar
    WreckIsRespawned
    AbandonedIsRespawned
CHECK_DEADLOCK FALSE
