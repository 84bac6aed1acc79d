SPECIFICATION FairSpec
CONSTANTS
    Servers = {"s1", "s2", "s3"}
    Addresses = {"a", "b"}
    Address <- MCAddress
    maxupdates = 1
    numserverkeys = 1
    UseChallenge = TRUE
    Reentry = {}
    MaxCalls = 1
INVARIANTS
    TypeOK
    FifosSound
    OwedIsQueued
PROPERTIES
    StrandedOnlyByRemoval
    
