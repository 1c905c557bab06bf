SPECIFICATION FairSpec
CONSTANTS
    a = a
    b = b
    c = c
    d = d
    e = e
    r = r
    here = here
    there = there
    Procs = {a, b, c}
    Dirs = {d, e, r}
    needs <- OneRoot
    namespace <- Sandboxed
    Retries = 2
    Failing = {b}
    Crashing = {a, c}
INVARIANTS
    TypeOK
    OneHolder
    HolderIsFound
    NothingLeft
PROPERTIES
    LoneStarterHolds
CHECK_DEADLOCK FALSE
