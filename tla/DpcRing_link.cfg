SPECIFICATION Spec
CONSTANTS
    N = 3
    SlotBytes = 1040
    MaxPacketSize = 1032
    Sizes <- UsualSizes
    Window = 3
    MaxPackets = 4
INVARIANTS
    NeverStale
    RingsAligned
PROPERTIES
    ImplementsLink
    LostOnlyByFaults
    Delivered
