SPECIFICATION Spec
CONSTANTS
    m1 = m1
    m2 = m2
    c1 = c1
    c2 = c2
    i1 = i1
    w1 = w1
    NoRun = NoRun
    Runs = {m1, c1, c2}
    Worktrees = {w1}
    tree <- OneTree
    ManualRuns = {m1}
    CycleRuns = {c1, c2}
    ControlledRuns = {}
    Checked = {}
    Scoped = {}
    Capacity = 1
    Faults = {}
    MaxCrashes = 0
INVARIANTS
    OneAgentPerWorktree
