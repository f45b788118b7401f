SPECIFICATION FairSpec
CONSTANTS
    hb = hb
    resp = resp
    Types = {hb, resp}
    Requests <- MCRequests
    Waiters = {w1, w2}
    Closers = {c1}
    PerTypeLimit = 2
    TTLs = {0, 2, 9}
    DefaultTTL = 1
    MaxTTL = 2
    MaxMsgs = 0
    MaxTime = 0
PROPERTIES
    CloseUnblocksAll
