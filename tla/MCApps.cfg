\* The application protocol, scripts, the host server and the programs.
CONSTANTS
    AspScenarios <- MCAspScenarios
    ScrPrograms <- MCScrPrograms
    ScrTimeout = 2
    ScrXferMax = 6
    ScrCredit = 2
    TcpScenarios <- MCTcpScenarios
    TcpSock = 2
    TcpOut = 3
    TcpBuf = 3
    CatChunks = 2
    CatWindow = 2
    CatCap = 3
    CatNoise = 1
    FecLines <- MCFecLines
    FecFrame = 3
    FecCopies = 2
    FecGap = 1
    FecSeen = 2
    FecWindow = 2
    FecIds = 5
    FecTyped = 2
    FecLoss = 2
SPECIFICATION Spec
INVARIANTS
    
    AspInStep
    ScrVerified
    TcpChannelsWhole
    
    FecShownExactly
PROPERTIES
    AppsSettle
    ScrStallOnly
    TcpDataFirst
CHECK_DEADLOCK FALSE
