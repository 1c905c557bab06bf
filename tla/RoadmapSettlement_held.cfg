SPECIFICATION Spec
CONSTANTS
    e1 = e1
    e2 = e2
    d1 = d1
    v1 = v1
    None = None
    Entries = {e1, e2}
    Decisions = {d1}
    Versions = {v1}
    plan <- OnePlan
    RivalVersions = {v1}
    MaxCommands = 3
    MaxFaults = 0
INVARIANTS
    SettledRunsNothing
CHECK_DEADLOCK FALSE
