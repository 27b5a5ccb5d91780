SPECIFICATION Spec
CONSTANTS
    Base = 4
    Size = 8
    Cells <- MCCells
    InitialMem <- Blank0
    Addresses <- MCAddresses
    ReadCounts <- ReadSizes
    WriteCounts <- WriteSizes
    Payloads <- MCPayloads
    ReplyMax = 6
PROPERTIES
    ImplementsByteMemory
    KeepsToWindow
