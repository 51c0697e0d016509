SPECIFICATION FairSpec
CONSTANTS
    ingestor    = ingestor
    gateway     = gateway
    Services       <- MCServices
    Subscribers    <- MCSubscribers
    DeleteExisting <- MCBoth
    Self           = ingestor
    Tickers        <- MCTickers
    MaxFrames  = 3
    MaxOutages = 1
    MaxFaults  = 2
INVARIANTS
    TypeOK
    RunsOnStream
    LossNeedsFault
PROPERTIES
    ImplementsAtMostOnce
    EventuallyServed
    FeedResumes
CHECK_DEADLOCK FALSE
