SPECIFICATION FairSpec
CONSTANTS
    Half = 4
    OutCap = 2
    InCap = 1
    MaxMsgs <- TwoAndNone
    MaxLoss = 1
    MaxDup = 0
PROPERTIES
    EventuallyConfirmed
    CloseCompletes
    DroppedIsDetected
CHECK_DEADLOCK FALSE
