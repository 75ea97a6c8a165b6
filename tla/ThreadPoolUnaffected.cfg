SPECIFICATION FairSpec
CONSTANTS
    w0 = w0
    w1 = w1
    w2 = w2
    c1 = c1
    c2 = c2
    main = main
    noFd = noFd
    Workers <- MCThree
    Conns <- MCTwoConns
    N = 1
    MaxThreads = 2
    First = w0
    MayFail = FALSE
    NoFd = noFd
    Main = main
PROPERTIES
    Unaffected
\* exit() ends the program
CHECK_DEADLOCK FALSE
