SPECIFICATION Spec
CONSTANTS
    Half = 8
    ClientConn <- OneClient
    ServerConn <- TwoServers
    TooLarge <- Never
    ClosesInClosed <- Never
    MaxInFlight = 2
    MaxLoss = 0
    MaxDup = 1
INVARIANTS
    TypeOK
    ConnectedIsAccepted
CHECK_DEADLOCK FALSE
