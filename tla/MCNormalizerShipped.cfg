SPECIFICATION Spec
CONSTANTS
    Streams       <- MCStreams
    InputStream   = "raw"
    OutputStreams <- Shipped
    Feed          <- MCFeed
    None          = None
    BatchSize     = 2
    MaxIngested   = 2
    MaxLog        = 3
    MaxFaults     = 0
INVARIANT
    StreamsSeparated
CHECK_DEADLOCK FALSE
