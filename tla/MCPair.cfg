\* One way and both ways, over a bad channel and a good one.
CONSTANTS
    Modes = 2
    Cap <- MCCap
    AutoBreak = TRUE
    MaxData = 3
    Scenarios <- AllScenarios
SPECIFICATION FairSpec
INVARIANTS
    NoSilentLoss
    RolesFit
PROPERTIES
    CarriesStreams
    HangUpCompletes
    DataArrives
    TurnoverCompletes
CHECK_DEADLOCK FALSE
