\* One worktree, with room for an update and a second merge besides someone's own commit.
SPECIFICATION FairSpec
CONSTANTS
    w1 = w1
    Worktrees = {w1}
    MaxCommits = 6
    MaxOperations = 2
    MaxVersion = 2
    MaxCrashes = 1
INVARIANTS
    TypeOK
    MergedOnce
    RecordedIsMerged
    NoCommitLost
PROPERTIES
    ImplementsMergeLife
    MergesAreReviewed
    FinishedMergesRecorded
