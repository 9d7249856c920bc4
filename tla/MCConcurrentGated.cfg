SPECIFICATION FairSpec
CONSTANTS
    w1 = w1
    w2 = w2
    NoWorker = NoWorker
    Workers <- Pool
    NumBatches = 2
    CommitLimit = 1
    Disturbed = TRUE
    Ordered = TRUE
    Gated = TRUE
    MaxHeld = 3
    Sending = 5
    HasRetry = FALSE
    HasDlq = FALSE
    Policy = "StopRoute"
    Outcomes <- GoodOrBad
    OrderedPublish = TRUE
    ExitOnEmpty = FALSE
    MaxPanics = 1
INVARIANTS RouterInv CommitSafety CleanEndCommitsAll
PROPERTIES PublishInOrder ImplementsRouter StopEnds
