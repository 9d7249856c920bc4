SPECIFICATION EndpointsSpec
CONSTANTS
    Rows <- FourRows
    ValueOf <- Tied
    Txs = {1, 2, 3}
    TxChoices <- Writers
    CrBatch = 2
    CrRestarts = 1
    CrNacks = 2
    MqBatches <- QueueBatches
    MqConsumers = {1, 2}
    MqMax = 4
    MqCapacity = 1
    MqPermits = 2
    MqNacks = 2
    SpMessages = 2
    SpBatch = 2
    SpOpen = 2
    SpReopens = 2
    SpNames = 3
    SpTracked = 1
    SpReadFailures = 2
    SpFaults = 1
    ExitOnEmpty = FALSE
    ZeroInterval = FALSE
    GiveUpAfter = 2
    PassResults <- AllResults
    MaxDrops = 1
INVARIANTS CursorReaderInv MemoryQueueInv  SupInv
PROPERTIES RowsArrive QueueSettles SpoolDrains StopReturns JoinReturns OrphanEnds
CHECK_DEADLOCK FALSE
