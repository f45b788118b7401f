SPECIFICATION FairSpec
CONSTANTS
    MaxHolePunchAttempts = 2
    Members = {"m1", "m2"}
    StunServers = 3
    PortLimit = 4
    LowPort = 1
    HighPort = 30
INVARIANTS
    TypeOK
    PathOfOneAttempt
    DirectIsServed
    ClientFreesSockets
    NATTypeFits
PROPERTIES
    AttemptEnds
