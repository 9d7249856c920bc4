SPECIFICATION TimedSpec
CONSTANTS
    NumBatches = 2
    CommitLimit = 2
    Disturbed = TRUE
    Ordered = TRUE
    Gated = TRUE
    MaxHeld = 2
    Sending = 2
    HasRetry = FALSE
    HasDlq = FALSE
    Policy = "StopRoute"
    Outcomes <- AllKinds
    ExitOnEmpty = FALSE
    MaxPanics = 1
INVARIANTS LoopInv DrainCommitsAll
PROPERTIES ImplementsRouter StopEnds
