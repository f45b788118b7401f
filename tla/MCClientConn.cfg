SPECIFICATION FairSpec
CONSTANTS
    Gos = {g1, g2, g3}
    MaxHolePunchAttempts = 2
    BackoffMin = 4
    BackoffMax = 7
INVARIANTS
    TypeOK
    OneOwner
    DataPathMatchesControl
PROPERTIES
    Reconnects
    StopExits
