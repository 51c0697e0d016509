SPECIFICATION FairSpec
CONSTANTS
    Products <- MCProducts
    Sides    <- MCSides
    Shards   <- MCShards
    BatchSize      = 2
    MaxPublished   = 2
    MaxFaults      = 1
    MaxStoreFaults = 1
INVARIANTS
    TypeOK
    RowFollowsState
    SidesNotAhead
    AckedIsRecorded
    DuplicateRowsNeedCause
    TwoSnapshotsPerPeriod
PROPERTIES
    ImplementsLoop
    RowRegressNeedsCause
    SidesLostNeedRestart
    DueSnapshotsMade
CHECK_DEADLOCK FALSE
