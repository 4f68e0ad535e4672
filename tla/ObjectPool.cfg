SPECIFICATION FairSpec
CONSTANTS
    Players = {p1, p2}
    MaxObjects = 2
    Far = 1
    MaxWire = 2
    MaxLate = 1
    NoObject = NoObject
    ExitCreates = FALSE
INVARIANTS
    TypeOK
    IndexInv
    ViewExact
PROPERTIES
    NoMoveLost
    MoveArrives
