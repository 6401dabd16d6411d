\* Radio, telemetry, daemon, sound device, host commands, calls, messages.
CONSTANTS
    PttSpecs <- MCPttSpecs
    PttHids <- MCPttHids
    PttRefusals = {"unkey"}
    PttOpens = 2
    PttBehind = 2
    TlmQueue = 5
    TlmSock = 2
    TlmMaxBuf = 6
    TlmRecords = 4
    TlmVisits = 2
    TlmLens = {2, 3}
    DmnQueue = 2
    DmnBlocks = 1
    DmnRepeats = 1
    DmnCommands = 2
    DmnVisits = 1
    DmnSignal = {1}
    AudCap = 3
    AudWord = 9
    AudRatio = 2
    AudTail = 1
    AudFrames = 2
    AudLength = 2
    AudOvers = 1
    AudStalls = {"capture", "playback"}
    HstLines <- MCHstLines
    HstSends = 2
    HstAux = 2
    HstFecTypes = {"4PSK.200.100", "4FSK.500.100"}
    HstQueue = 1
    CllTargets <- MCCllTargets
    CllMine <- MCCllMine
    CllNames <- MCCllNames
    CllSettings <- MCCllSettings
    CllLadders <- MCCllLadders
    CllTries = 1
    AwrMessages <- MCAwrMessages
    AwrSends = 2
    AwrPieces = {1, 4, 127, 128}
    AwrMax = 140
    AwrCall = 4
    AwrNameMax = 6
    AwrKind = 3
    AwrOffered <- MCAwrOffered
    AwrCap = 6
SPECIFICATION Spec
INVARIANTS
    PttSafe
    DmnKeysRight
    DmnSeesClients
    AudSamplesWhole
    CllSetUp
    AwrStands
PROPERTIES
    ShellSettles
    HstRepliesTrue
CHECK_DEADLOCK FALSE
