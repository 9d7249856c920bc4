SPECIFICATION FairSpec
CONSTANTS
    NumBatches = 5
    CommitLimit = 2
    Disturbed = FALSE
    Ordered = TRUE
    Gated = TRUE
    MaxHeld = 2
    Sending = 2
    HasRetry = FALSE
    HasDlq = FALSE
    Policy = "StopRoute"
    Outcomes <- Good
    ExitOnEmpty = FALSE
    MaxPanics = 0
PROPERTIES StarvedReaderResumes
