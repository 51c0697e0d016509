SPECIFICATION Spec
CONSTANTS
    ingestor    = ingestor
    gateway     = gateway
    Services       <- MCServices
    Subscribers    <- MCSubscribers
    DeleteExisting <- MCBoth
    Self           = ingestor
    Tickers        <- MCTickers
    MaxFrames  = 3
    MaxOutages = 1
    MaxFaults  = 0
INVARIANT
    ReadyMeansConnected
CHECK_DEADLOCK FALSE
