SPECIFICATION Spec
CONSTANTS
    p1 = p1
    p2 = p2
    nobody = nobody
    Users <- MCUsers
    NoUser <- nobody
    WordBits = 3
    Lengths <- MCLengths
INVARIANTS
    WordInForce
PROPERTIES
    ImplementsBitShift
    Returns
