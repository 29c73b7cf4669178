SPECIFICATION Spec
CONSTANTS
    MaxRequests = 2
    MaxEvents = 2
    MaxPieces = 3
INVARIANTS
    TypeOK
    ServedInOrder
PROPERTIES
    ServedOrClosed
    StreamToTui
    AllHeard
CHECK_DEADLOCK FALSE
