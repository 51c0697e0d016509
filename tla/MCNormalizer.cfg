SPECIFICATION FairSpec
CONSTANTS
    Streams       <- MCStreams
    InputStream   = "raw"
    OutputStreams <- MCOutputStreams
    Feed          <- MCFeed
    None          = None
    BatchSize     = 2
    MaxIngested   = 2
    MaxLog        = 3
    MaxFaults     = 2
INVARIANTS
    TypeOK
    StatsBalance
    AckedIsAccounted
    CopiesNeedCause
    ReorderingNeedsCause
PROPERTY
    EventuallyOut
CHECK_DEADLOCK FALSE
