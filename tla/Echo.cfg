SPECIFICATION FairSpec
CONSTANTS
    c1 = c1
    c2 = c2
    server = server
    NoClient = server
    Clients <- MCClients
    Programs <- MCPrograms
    Inputs <- MCInputs
    MAXLINE = 3
    Addresses = 2
    MaxTyped = 2
INVARIANTS
    OneSocket
    EchoesBack
PROPERTY
    Answered
\* the servers wait for connections when no client is left
CHECK_DEADLOCK FALSE
