SPECIFICATION Spec
CONSTANTS
    m1 = m1
    m2 = m2
    c1 = c1
    c2 = c2
    i1 = i1
    w1 = w1
    NoRun = NoRun
    Runs = {m1, m2}
    Worktrees = {w1}
    tree <- OneTree
    ManualRuns = {m1, m2}
    CycleRuns = {}
    ControlledRuns = {}
    Checked = {m2}
    Scoped = {m1, m2}
    Capacity = 2
    Faults = {"removal", "register", "strand", "consumer", "finalize", "identity", "reap"}
    MaxCrashes = 1
INVARIANTS
    OneLiveRunPerWorktree
    DirectoriesOwned
    WorkingIsSupervised
    ClaimsMatchLiveRuns
PROPERTIES
    ImplementsLifecycle
