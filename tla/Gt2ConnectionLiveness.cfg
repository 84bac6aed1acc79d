SPECIFICATION FairSpec
CONSTANTS
    Half = 8
    ClientConn <- OneClient
    ServerConn <- OneServer
    TooLarge <- Never
    ClosesInClosed <- Never
    MaxInFlight = 1
    MaxLoss = 1
    MaxDup = 0
PROPERTIES
    AttemptFinishes
    ClosingEnds
    ClosedIsFreed
CHECK_DEADLOCK FALSE
