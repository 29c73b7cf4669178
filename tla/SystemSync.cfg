SPECIFICATION Spec
CONSTANTS
    Clients = {c1}
    cnc = cnc
    Cells = {cnc}
    Settable = {cnc}
    Supported = {cnc}
    Values = {v1, v2}
    None = None
    Malformed = Malformed
    SM = SM
    EventCap = 2
    MaxPresses = 1
    MaxWriteFailures = 1
    SockCap = 1
    CmdCap = 1
    InitialQueries <- OneCell
    Requests <- SetRequests
    MaxRequests = 1
SYMMETRY ValueSymmetry
INVARIANTS
    ViewConverges
    DeviceMirrored
CHECK_DEADLOCK FALSE
