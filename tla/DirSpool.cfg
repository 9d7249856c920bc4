SPECIFICATION SpSpec
CONSTANTS
    SpMessages = 2
    SpBatch = 1
    SpOpen = 2
    SpReopens = 2
    SpNames = 3
    SpTracked = 1
    SpReadFailures = 3
    SpFaults = 1
INVARIANTS SpooledUntilAcked
CHECK_DEADLOCK FALSE
