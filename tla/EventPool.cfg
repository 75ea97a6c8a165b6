SPECIFICATION FairSpec
CONSTANTS
    c1 = c1
    c2 = c2
    c3 = c3
    Conns <- MCThree
    FD_SETSIZE = 4
    OpenMax = 4
    ListenFd = 1
    MAXLINE = 3
    RIO_BUFSIZE = 3
    MaxBytes = 2
INVARIANTS
    PoolConsistent
    AllReadyServed
    NoIdleBlock
    EchoesOwn
PROPERTY
    Released
\* the server waits in select when no client is left
CHECK_DEADLOCK FALSE
