\* One station, ARQ commands only, every frame at any time.
CONSTANTS
    Data = {d1}
    Modes = 1
    Cap <- MCCapTwo
    TxCap = 2
    DiscTries = 3
    Listening = TRUE
    PingAck = TRUE
    AutoBreak = FALSE
    IdleTimed = TRUE
    FecRepeats = 1
    FecTypes = {0}
    Replies = {"CONACK", "CONREJ"}
    Commands = {"CONNECT", "SEND_DATA", "DISCONNECT", "ABORT", "BREAK", "SEND_ID"}
SPECIFICATION Spec
INVARIANTS
    TypeOK
    DeadlinesFit
    HostKnowsSession
    InFlightIsQueueHead
