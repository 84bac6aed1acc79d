SPECIFICATION Spec
CONSTANTS
    Half = 2
    OutCap = 2
    InCap = 1
    MaxMsgs <- EightAndNone
    MaxLoss = 1
    MaxDup = 1
INVARIANTS
    InOrderOnce
    ConfirmedIsHandled
CONSTRAINT OnlyAppMessages
CHECK_DEADLOCK FALSE
