SPECIFICATION Spec
CONSTANTS
    ExitOnEmpty = FALSE
    ZeroInterval = FALSE
    GiveUpAfter = 2
    PassResults <- RunnerResults
    MaxDrops = 1
INVARIANTS HealthyIsConnected
CHECK_DEADLOCK FALSE
