SPECIFICATION FairSpec
CONSTANTS
    Numberings <- MCNumberings
    MaxPublished = 2
    MaxExpiries  = 1
    MaxFaults    = 1
INVARIANTS
    TypeOK
    NoGap
PROPERTIES
    IncrementsInOrder
    EventuallyTold
CHECK_DEADLOCK FALSE
