SPECIFICATION FairSpec
CONSTANTS
    PingEvery = 3
    MaxMissed = 2
    SilenceLimit = 7
    TTL = 3
    MaxDelay = 2
    MaxSkew = 1
    MaxStalls = 1
INVARIANTS
    TypeOK
    HealthyKept
    DetectedInTime
PROPERTIES
    BothEnd
    ReaderEnds
