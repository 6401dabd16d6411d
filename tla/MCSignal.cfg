\* Gear shift, demodulator, capture and recording, busy detector.
CONSTANTS
    Modes = 3
    Cap <- MCCap
    Thresholds <- MCThresholds
    Qualities = {38, 70, 86}
    MaxTx = 4
    DemBlocks = {1200}
    DemPlaces <- MCDemPlaces
    DemFines <- MCDemFines
    DemSyncs = {0, 1, 2, 3}
    DemFrames <- MCDemFrames
    DemBudget = 5
    CptMax = 9
    CptBuf = 10
    CptRoom = 22
    CptFreed = 8
    CptLens = {0, 1, 6}
    CptWrites = 2
    WavWord = 64
    WavBlocks = {1, 2, 3}
    WavRoom = 7
    WavHeard = 9
    BsyHold = 4
    BsyWord = 13
    BsyConfirm = 3
    BsyRatios <- MCBsyRatios
    BsyDets = {0, 5}
    BsyWidths = {500, 2000}
SPECIFICATION SignalSpec
INVARIANTS
    DemBuffersHold
    CptFilesReadable
PROPERTIES
    
    DownOnlyOnNaks
    RetryAfterFive
    OneRung
    BsyEvidence
CHECK_DEADLOCK FALSE
