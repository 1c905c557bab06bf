SPECIFICATION Spec
CONSTANTS
    a = a
    b = b
    NoCycle = NoCycle
    Cycles = {a, b}
    Limitable = {a}
    Holdable = {a}
    MaxBusy = 1
    Items = TRUE
INVARIANTS
    TypeOK
    NothingUnseen
PROPERTIES
    PushesWait
