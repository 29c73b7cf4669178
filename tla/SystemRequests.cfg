SPECIFICATION Spec
CONSTANTS
    Clients = {c1}
    cnc = cnc
    Cells = {cnc}
    Settable = {cnc}
    Supported = {cnc}
    Values = {v1, v2}
    None = None
    Malformed = Malformed
    SM = SM
    EventCap = 3
    MaxPresses = 0
    MaxWriteFailures = 1
    SockCap = 1
    CmdCap = 1
    InitialQueries <- OneCell
    Requests <- AllRequests
    MaxRequests = 1
SYMMETRY ValueSymmetry
INVARIANTS
    TypeOK
    SyncInv
    ConnectedFlag
    OneReplyPerRequest
CHECK_DEADLOCK FALSE
