\* A second session between the same stations.
CONSTANTS
    Modes = 2
    Cap <- MCCap
    AutoBreak = TRUE
    MaxData = 2
    Scenarios <- SecondCallScenario
SPECIFICATION Spec
INVARIANT NoSilentLoss
CHECK_DEADLOCK FALSE
