SPECIFICATION EsSpec
CONSTANTS
    Subscribers = {1}
    EsEvents = 3
    EsBatch = 2
    EsMaxCounts = {3}
    EsNacks = 1
INVARIANTS NoAckPastNack
CHECK_DEADLOCK FALSE
