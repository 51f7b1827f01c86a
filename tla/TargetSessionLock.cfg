SPECIFICATION SharedSpec
CONSTANTS
    MaxTargets = 2
    Users <- BothTasks
    Overlap = TRUE
INVARIANT TargetExclusive
