SPECIFICATION Spec
CONSTANTS
    Half = 3
    OutCap = 3
    InCap = 2
    MaxMsgs <- EightAndNone
    MaxLoss = 0
    MaxDup = 0
INVARIANT InOrderOnce
CONSTRAINT OnlyAppMessages
CHECK_DEADLOCK FALSE
