SPECIFICATION Spec
CONSTANTS
    Requests <- SessionRequests
    Handlers <- AllHandlers
    BufMax = 4
    MaxRequests = 4
    MaxConns = 2
    FdLimit = 1
    SigPipeKills = TRUE
INVARIANTS
    TypeOK
    NothingInherited
    ErrorLatched
    StatusHonest
PROPERTIES
    LockPaired
    LockOwesNothing
