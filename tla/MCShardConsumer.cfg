SPECIFICATION FairSpec
CONSTANTS
    BatchSize    = 2
    MaxPublished = 3
    MaxFaults    = 2
INVARIANTS
    TypeOK
    DuplicatesNeedCause
    OvertakingNeedsCause
PROPERTIES
    ImplementsAtLeastOnce
    EventuallyAcked
CHECK_DEADLOCK FALSE
