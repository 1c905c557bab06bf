SPECIFICATION Spec
CONSTANTS
    m1 = m1
    m2 = m2
    c1 = c1
    c2 = c2
    i1 = i1
    w1 = w1
    NoRun = NoRun
    Runs = {c1, c2, i1}
    Worktrees = {w1}
    tree <- OneTree
    ManualRuns = {}
    CycleRuns = {c1, c2}
    ControlledRuns = {i1}
    Checked = {c2}
    Scoped = {c1, c2}
    Capacity = 2
    Faults = {}
    MaxCrashes = 0
INVARIANTS
    TypeOK
    OneAgentPerWorktree
    ProcessesApart
    NoAbandonedRun
PROPERTIES
    DrainAdmitsNothing
