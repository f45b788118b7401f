SPECIFICATION FairSpec
CONSTANTS
    hb = hb
    resp = resp
    Types = {hb, resp}
    Requests <- MCRequests
    Waiters = {w1}
    Closers = {c1}
    PerTypeLimit = 2
    TTLs = {0, 2, 9}
    DefaultTTL = 1
    MaxTTL = 2
    MaxMsgs = 3
    MaxTime = 2
INVARIANTS
    TypeOK
    Accounted
    InOrder
    NoLostWakeup
PROPERTIES
    WaitsEnd
    LiveKept
