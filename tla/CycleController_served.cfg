SPECIFICATION FairSpec
CONSTANTS
    a = a
    b = b
    NoCycle = NoCycle
    Cycles = {a, b}
    Limitable = {a}
    Holdable = {}
    MaxBusy = 0
    Items = FALSE
PROPERTIES
    EveryoneServed
