\* No guest and no fault: the transmit credit and the event ring.
CONSTANTS
    TxCap = 2
    Chunk = 2
    CmdCap = 2
    EventCap = 4
    MaxOffered = 3
    Lengths = {1, 2}
    AppOps = {"ABORT"}
    GuestOps = {}
    Server = {}
    Requests = {"OPEN", "CLOSE"}
    ReqCap = 1
    Faults = FALSE
SPECIFICATION Spec
INVARIANTS
    NoTruncation
    LossIsReported
CHECK_DEADLOCK FALSE
