SPECIFICATION Spec
CONSTANTS
    w1 = w1
    w2 = w2
    NoWorker = NoWorker
    Workers <- Pool
    NumBatches = 3
    CommitLimit = 1
    Disturbed = TRUE
    Ordered = FALSE
    Gated = TRUE
    MaxHeld = 1
    Sending = 5
    HasRetry = FALSE
    HasDlq = FALSE
    Policy = "ReplyBadGateway"
    Outcomes <- ServerOutcomes
    OrderedPublish = FALSE
    ExitOnEmpty = TRUE
    MaxPanics = 1
SYMMETRY PoolSymmetry
INVARIANTS CommitSafety InFlightBound
