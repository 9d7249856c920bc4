SPECIFICATION DcSpec
CONSTANTS
    SourceBatches = 3
    DcTarget = 2
    MaxDeferred = 2
INVARIANTS FilteredBehindRetained
CHECK_DEADLOCK FALSE
