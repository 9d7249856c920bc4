SPECIFICATION WjSpec
CONSTANTS
    WjGroups = {"g", "h"}
    WjBranches = {"x", "y"}
    WjSource <- JoinSource
    WjRequired = {"x", "y"}
    WjExpected = 2
    WjTarget = 1
INVARIANTS DrainFlushesGroups
CHECK_DEADLOCK FALSE
