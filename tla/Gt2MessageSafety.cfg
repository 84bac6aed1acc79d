SPECIFICATION Spec
CONSTANTS
    Half = 4
    OutCap = 2
    InCap = 1
    MaxMsgs <- ThreeAndOne
    MaxLoss = 1
    MaxDup = 0
INVARIANTS
    TypeOK
    InOrderOnce
    IInv
    ConfirmedIsHandled
    RemoteCloseHasCause
    CloseFlushes
PROPERTY ImplementsStream
CONSTRAINT AtMost2InFlight
CHECK_DEADLOCK FALSE
