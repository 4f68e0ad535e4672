SPECIFICATION Spec
CONSTANTS
    Players = {p1}
    MaxObjects = 2
    Far = 1
    MaxWire = 1
    MaxLate = 1
    NoObject = NoObject
    ExitCreates = FALSE
INVARIANT MovesReachEverybody
