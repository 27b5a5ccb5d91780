SPECIFICATION Spec
CONSTANTS
    Fds <- MCFds
    Listener <- MCListener
    Requested <- Kinds
    MaxConns = 3
    MaxRequests = 2
INVARIANTS
    TypeOK
PROPERTIES
    ShiftsUndisturbed
    HungUpForCause
    AcceptedEventually
    ServedEventually
CHECK_DEADLOCK FALSE
