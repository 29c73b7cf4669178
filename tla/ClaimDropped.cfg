SPECIFICATION Spec
CONSTANTS
    SegmentDataSize = 2
    Lengths = {0, 2, 3, 4, 5}
    MaxPackets = 2
    MaxLosses = 2
INVARIANT
    AllReceivedDelivered
CHECK_DEADLOCK FALSE
