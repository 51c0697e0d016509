SPECIFICATION Spec
CONSTANTS
    Products <- MCProducts
    Sides    <- MCSides
    Shards   <- MCShards
    BatchSize      = 2
    MaxPublished   = 2
    MaxFaults      = 1
    MaxStoreFaults = 0
INVARIANT
    HistoryUnique
CHECK_DEADLOCK FALSE
