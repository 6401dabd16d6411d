\* A guest that comes and goes, faults, PTT tests.
CONSTANTS
    TxCap = 1
    Chunk = 1
    CmdCap = 1
    EventCap = 2
    MaxOffered = 1
    Lengths = {1}
    AppOps = {"CONNECT"}
    GuestOps = {"CONNECT", "DISCONNECT"}
    Server = {"START", "STOP"}
    Requests = {"OPEN", "CLOSE", "PTT_TEST"}
    ReqCap = 1
    Faults = TRUE
SPECIFICATION Spec
INVARIANTS
    NeverLeftKeyed
    
PROPERTIES
    NoMixing
CHECK_DEADLOCK FALSE
