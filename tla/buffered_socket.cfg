\* Sockets of clients, peers and HTTP requests.
CONSTANTS
    FileChunks = 2
    Setups <- SomeSetups
    Mishaps = {}
SPECIFICATION FairSpec
CHECK_DEADLOCK FALSE
INVARIANTS
    TypeOK
    CallsHaveOwner
    StreamIntact
PROPERTIES
    StreamSpec
    EventuallyEnds
