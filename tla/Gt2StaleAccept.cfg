SPECIFICATION Spec
CONSTANTS
    Half = 8
    ClientConn <- TwoClients
    ServerConn <- TwoServers
    TooLarge <- Never
    ClosesInClosed <- Never
    MaxInFlight = 2
    MaxLoss = 0
    MaxDup = 0
INVARIANT ConnectedIsAccepted
CHECK_DEADLOCK FALSE
