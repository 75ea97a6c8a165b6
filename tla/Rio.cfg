SPECIFICATION FairSpec
CONSTANTS
    BufSize = 2
    Cap = 2
    Newlines <- MCNewlines
    Sizes <- MCSizes
    LineSizes <- MCLineSizes
    MaxConn = 2
    MaxBytes = 4
    MaxSignals = 1
INVARIANTS
    InOrder
    InBounds
    Written
PROPERTIES
    Promise
    Answered
\* a process that has read its last connection, or has exited, stops
CHECK_DEADLOCK FALSE
