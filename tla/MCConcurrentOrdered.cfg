SPECIFICATION Spec
CONSTANTS
    w1 = w1
    w2 = w2
    NoWorker = NoWorker
    Workers <- Pool
    NumBatches = 3
    CommitLimit = 1
    Disturbed = TRUE
    Ordered = TRUE
    Gated = FALSE
    MaxHeld = 3
    Sending = 5
    HasRetry = TRUE
    HasDlq = TRUE
    Policy = "StopRoute"
    Outcomes <- MixedOutcomes
    OrderedPublish = FALSE
    ExitOnEmpty = TRUE
    MaxPanics = 1
SYMMETRY PoolSymmetry
INVARIANTS CleanEndCommitsAll
PROPERTIES DeliveryContract
