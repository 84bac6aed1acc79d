SPECIFICATION FairSpec
CONSTANTS
    MAX_RETRIES = 1
    Messages = {"m1", "m2"}
    RECENT_MESSAGES = 2
    MAX_FIRST_COUNT = 2
    MaxDelivered = 2
    Users = {"u1", "u2"}
    Keys = {"k1"}
    SessKeys = {"sk1"}
    ReauthKeys = {"r1"}
    VAL_RETRIES = 1
    MAXPENDING_REAUTH = 1
    MaxTold = 2
INVARIANTS
    TypeOK
    ErrorsOnce
    ChangeNotLost
    DeliveredOnce
    ToldOnce
    KeyAskedOnce
PROPERTIES
    StateReported
    Authenticated
    AvailabilityDecided
CHECK_DEADLOCK FALSE
