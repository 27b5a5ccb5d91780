SPECIFICATION Spec
CONSTANTS
    Devices = {d1, d2}
    ConfigCount = 2
    Files = {f1}
    Null = Null
    Err = Err
CONSTRAINT OneKindFails
SYMMETRY Symmetry
INVARIANTS
    TypeOK
    GivenBackOnce
    NoDangling
    CallsMapped
CHECK_DEADLOCK FALSE
