SPECIFICATION Spec
CONSTANTS
    Requests <- FrameRequests
    Handlers <- AllHandlers
    BufMax = 4
    MaxRequests = 3
    MaxConns = 1
    FdLimit = 1
    SigPipeKills = FALSE
INVARIANTS
    FramingExact
PROPERTIES
    ImplementsSession
    SentComplete
    AnsweredEventually
    ListensAgain
