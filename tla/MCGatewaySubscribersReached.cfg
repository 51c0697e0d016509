SPECIFICATION Spec
CONSTANTS
    Products <- MCProducts
    Requests <- MCRequests
    BatchSize    = 2
    MaxConns     = 3
    MaxPublished = 1
    MaxRequests  = 2
INVARIANT
    SubscribersReached
CHECK_DEADLOCK FALSE
