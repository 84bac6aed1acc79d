SPECIFICATION Spec
CONSTANTS
    Half = 8
    ClientConn <- TwoClients
    ServerConn <- OneServer
    TooLarge <- Never
    ClosesInClosed <- Never
    MaxInFlight = 2
    MaxLoss = 0
    MaxDup = 0
INVARIANTS
    ListsMatchState
    PendingIsNotFreed
    CallbacksInOrder
CHECK_DEADLOCK FALSE
