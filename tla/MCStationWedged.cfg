\* A frame is started before a device is bound.
CONSTANTS
    TxCap = 1
    Chunk = 1
    CmdCap = 1
    EventCap = 4
    MaxOffered = 0
    Lengths = {1}
    AppOps = {"SEND_ID"}
    GuestOps = {}
    Server = {}
    Requests = {"OPEN"}
    ReqCap = 1
    Faults = FALSE
SPECIFICATION FairSpec
PROPERTY RequestsAreServed
CHECK_DEADLOCK FALSE
