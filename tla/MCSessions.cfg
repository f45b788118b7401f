SPECIFICATION FairSpec
CONSTANTS
    p1 = p1
    a1 = a1
    a2 = a2
    a3 = a3
    Peers = {p1}
    Streams = {a2, a3}
    PeerOf <- MCPeerOf
    Kind <- MCMixed
    None = None
INVARIANTS
    TypeOK
    AuthBeforeService
    EntryHasMonitor
    TagHasOwner
PROPERTIES
    LibP2PRemovesOnlyOwn
    DeadSessionForgotten
    ReplacedEnds
