\* The receiver hangs up while frames are lost.
CONSTANTS
    Modes = 2
    Cap <- MCCap
    AutoBreak = TRUE
    MaxData = 3
    Scenarios <- HangUpScenario
SPECIFICATION Spec
PROPERTY HangUpRepeatsDisc
CHECK_DEADLOCK FALSE
