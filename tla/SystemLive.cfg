SPECIFICATION LiveSpec
CONSTANTS
    Clients = {c1}
    cnc = cnc
    Cells = {cnc}
    Settable = {cnc}
    Supported = {cnc}
    Values = {v1}
    None = None
    Malformed = Malformed
    SM = SM
    EventCap = 2
    MaxPresses = 0
    MaxWriteFailures = 0
    SockCap = 1
    CmdCap = 1
    InitialQueries <- OneCell
    Requests <- CommandRequests
    MaxRequests = 1
PROPERTIES
    RequestsAnswered
    LinkLossShutsDown
    EventuallyMirrors
CHECK_DEADLOCK FALSE
