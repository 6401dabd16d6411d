\* One station changing modes and broadcasting, also in the middle of a session.
CONSTANTS
    Data = {d1}
    Modes = 1
    Cap <- MCCap
    TxCap = 2
    DiscTries = 2
    Listening = TRUE
    PingAck = FALSE
    AutoBreak = TRUE
    IdleTimed = FALSE
    FecRepeats = 1
    FecTypes <- MCFecTypes
    Replies = {"CONACK"}
    Commands = {"CONNECT", "SEND_DATA", "SET_MODE", "FEC_SEND", "PURGEBUFFER"}
SPECIFICATION Spec
INVARIANTS
    BroadcasterTransmits
