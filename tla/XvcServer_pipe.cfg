SPECIFICATION Spec
CONSTANTS
    Requests <- TinyRequests
    Handlers <- MemHandlers
    BufMax = 1
    MaxRequests = 2
    MaxConns = 2
    FdLimit = 2
    SigPipeKills = TRUE
INVARIANTS
    WaitsIndefinitely
