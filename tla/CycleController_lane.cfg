SPECIFICATION Spec
CONSTANTS
    a = a
    b = b
    NoCycle = NoCycle
    Cycles = {a, b}
    Limitable = {}
    Holdable = {}
    MaxBusy = 0
    Items = FALSE
INVARIANTS
    LaneServed
