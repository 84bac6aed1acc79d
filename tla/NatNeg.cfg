SPECIFICATION FairSpec
CONSTANTS
    Clients = {"host", "joiner"}
    GameSock = {"host"}
    NNPorts = {"nn1"}
    InitRetries = 1
    PingRetries = 0
    ReportRetries = 0
INVARIANTS
    TypeOK
    AnsweredOnce
    SuccessIsMutual
    SocketKept
PROPERTIES
    ImplementsNegotiation
    Completes
CHECK_DEADLOCK FALSE
