SPECIFICATION FairSpec
CONSTANTS
    t1 = t1
    t2 = t2
    t3 = t3
    c1 = c1
    c2 = c2
    Threads <- MCThreads
    Items <- MCItems
    N = 2
    IntMax = 7
    MaxInsert = 3
INVARIANTS
    MutualExclusion
    UnitsExact
    LookExact
PROPERTIES
    FIFO
    NoLostWakeup
    Leaves
\* every thread may be blocked in sbuf_insert on a full buffer
CHECK_DEADLOCK FALSE
