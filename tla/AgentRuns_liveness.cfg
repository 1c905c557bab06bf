SPECIFICATION FairSpec
CONSTANTS
    m1 = m1
    m2 = m2
    c1 = c1
    c2 = c2
    i1 = i1
    w1 = w1
    NoRun = NoRun
    Runs = {c1, i1}
    Worktrees = {w1}
    tree <- OneTree
    ManualRuns = {}
    CycleRuns = {c1}
    ControlledRuns = {i1}
    Checked = {c1}
    Scoped = {}
    Capacity = 1
    Faults = {"removal", "consumer"}
    MaxCrashes = 1
INVARIANTS
    ProcessesRecorded
PROPERTIES
    NothingHangs
    StopReturns
