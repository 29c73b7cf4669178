SPECIFICATION Spec
CONSTANTS
    SegmentDataSize = 2
    Lengths = {0, 2, 3, 4, 5}
    MaxPackets = 4
    MaxLosses = 2
INVARIANTS
    LinkTypeOK
    SinglesDelivered
    Recovers
    OffsetsKept
    OneLossNeverMixes
CHECK_DEADLOCK FALSE
