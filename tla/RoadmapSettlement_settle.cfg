SPECIFICATION FairSpec
CONSTANTS
    e1 = e1
    e2 = e2
    d1 = d1
    v1 = v1
    None = None
    Entries = {e1, e2}
    Decisions = {d1}
    Versions = {v1}
    plan <- OnePlan
    RivalVersions = {v1}
    MaxCommands = 2
    MaxFaults = 1
INVARIANTS
    TypeOK
    SettledIsStill
    RetiringVersionsRest
PROPERTIES
    EndedForGood
    SettlesInTheEnd
CHECK_DEADLOCK FALSE
