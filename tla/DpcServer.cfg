SPECIFICATION Spec
CONSTANTS
    Radix = 2
    Requests <- MCRequests
    WordBytes = 1
    MaxWords = 2
    BufMax = 6
    MaxAddrs = 2
    MaxRequests = 2
    MaxConns = 2
    MaxPackets = 2
INVARIANTS
    FramingExact
    AbortsOnlyForLength
    LinkHonest
    SocketsTidy
    MappedOnce
PROPERTIES
    ImplementsSession
    AnsweredEventually
