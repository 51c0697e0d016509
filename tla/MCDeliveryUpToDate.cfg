SPECIFICATION Spec
CONSTANTS
    Numberings <- MCNumberings
    MaxPublished = 2
    MaxExpiries  = 1
    MaxFaults    = 0
PROPERTY
    SnapshotUpToDate
CHECK_DEADLOCK FALSE
