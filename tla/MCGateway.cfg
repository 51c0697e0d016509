SPECIFICATION FairSpec
CONSTANTS
    Products <- MCProducts
    Requests <- MCRequests
    BatchSize    = 2
    MaxConns     = 3
    MaxPublished = 1
    MaxRequests  = 2
INVARIANTS
    TypeOK
    ReachedUnlessSwapped
    OncePerBroadcast
    GaugeDriftNeedsCause
PROPERTY
    EventuallyAcked
CHECK_DEADLOCK FALSE
