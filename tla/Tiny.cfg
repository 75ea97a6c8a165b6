SPECIFICATION FairSpec
CONSTANTS
    c1 = c1
    c2 = c2
    noConn = noConn
    NoConn = noConn
    Conns <- MCConns
    Grown <- MCGrown
    Variants <- MCVariants
INVARIANTS
    EndsOnlyBy
    WaitsMatchChildren
    
PROPERTIES
    NoZombies
    Served
\* the server waits in accept when no client is left
CHECK_DEADLOCK FALSE
