SPECIFICATION PathSpec
CONSTANTS
    SegmentDataSize = 19
    Lengths = {}
    MaxPackets = 2
    MaxLosses = 0
    ModeIndices = {0, 1}
    Transmissions <- SomeTransmissions
PROPERTIES
    ImplementsStream
    ImplementsCells
CHECK_DEADLOCK FALSE
