SPECIFICATION FairSpec
CONSTANTS
    w0 = w0
    w1 = w1
    w2 = w2
    c1 = c1
    c2 = c2
    main = main
    noFd = noFd
    Workers <- MCThree
    Conns <- MCTwoConns
    N = 2
    MaxThreads = 2
    First = w0
    MayFail = TRUE
    NoFd = noFd
    Main = main
INVARIANTS
    NoConnLost
    NeverCutShort
    PoolSize
    WellFormed
PROPERTIES
    Served
    FIFO
\* exit() ends the program
CHECK_DEADLOCK FALSE
