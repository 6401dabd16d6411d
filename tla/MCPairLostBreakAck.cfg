\* The ACK of a BREAK is lost.
CONSTANTS
    Modes = 2
    Cap <- MCCap
    AutoBreak = TRUE
    MaxData = 1
    Scenarios <- LostBreakAckScenario
SPECIFICATION FairSpec
PROPERTY TurnoverCompletes
CHECK_DEADLOCK FALSE
