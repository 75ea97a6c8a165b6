SPECIFICATION Spec
CONSTANTS
    c1 = c1
    c2 = c2
    c3 = c3
    Conns <- MCOne
    FD_SETSIZE = 4
    OpenMax = 4
    ListenFd = 1
    MAXLINE = 8
    RIO_BUFSIZE = 8
    MaxBytes = 4
INVARIANT
    EchoesLines
\* the server waits in select when no client is left
CHECK_DEADLOCK FALSE
