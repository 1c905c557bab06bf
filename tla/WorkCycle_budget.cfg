SPECIFICATION FairSpec
CONSTANTS
    o = o
    f = f
    g = g
    None = None
    Operators = {o}
    Findings = {f, g}
    MaxRounds = 3
    MaxRefreshes = 1
    RepairLimit = 1
    RetryLimit = 1
    ContinuationLimit = 1
    Outages = 1
    Restarts = 1
    Commands = 1
INVARIANTS
    TypeOK
    WaitsReviewed
    NoSpinning
    WayOn
PROPERTIES
    OnlyCommandsResume
    ComesToRest
CHECK_DEADLOCK FALSE
