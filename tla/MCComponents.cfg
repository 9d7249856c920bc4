SPECIFICATION ComponentsSpec
CONSTANTS
    SourceBatches = 4
    DcTarget = 2
    MaxDeferred = 1
    Consumers = {1, 2}
    Keys = {"a", "b"}
    Copies <- ThreeCopies
    KeyOf <- KeyOfCopies
    DdBatch = 2
    Durable = TRUE
    MaxCrashes = 1
    BatchMessages <- ThreeMessages
    MaxAttempts = 3
    NumSends = 3
    MessageId <- MessageIds
    BufMax = 2
    WjGroups = {"g", "h"}
    WjBranches = {"x", "y"}
    WjSource <- JoinSource
    WjRequired = {"x", "y"}
    WjExpected = 2
    WjTarget = 1
    Savers = {1, 2, 3}
    FcSaves = 1
    FcClears = 1
    FcOutages = 1
    Subscribers = {1, 2}
    EsEvents = 2
    EsBatch = 2
    EsMaxCounts = {1, 2}
    EsNacks = 1
    FoLegs = 2
    FoId <- TwoIds
    FoHasDlq = FALSE
    SqPhases = 3
    SqRows = {1, 2, 3}
    SqTable <- TwoTables
    SqFaults = 2
    SqRestarts = 1
    c1 = c1
    c2 = c2
    c3 = c3
    NoRoute = NoRoute
    Calls <- ThreeCalls
    ExitOnEmpty = TRUE
    ZeroInterval = TRUE
    GiveUpAfter = 2
    PassResults <- RunnerResults
    MaxDrops = 1
INVARIANTS DeferredCommitsInv DeduplicationInv RetryDlqInv BufferInv WeakJoinInv
INVARIANTS FileCheckpointInv EventStoreInv FanoutInv SequenceInv RegistrySafety SupInv
PROPERTIES CollectsOnlyTaken WaitEnds SendsReturn StraysEnd
CHECK_DEADLOCK FALSE
