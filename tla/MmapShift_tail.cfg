SPECIFICATION Spec
CONSTANTS
    ByteBits = 8
    WordBytes = 4
    Lengths <- AnyLengths
INVARIANTS
    TogglesAsAsked

