SPECIFICATION Spec
CONSTANTS
    Half = 8
    ClientConn <- TwoClients
    ServerConn <- OneServer
    TooLarge <- Either
    ClosesInClosed <- Never
    MaxInFlight = 2
    MaxLoss = 0
    MaxDup = 0
INVARIANT OpenKeepsItsPlace
CHECK_DEADLOCK FALSE
