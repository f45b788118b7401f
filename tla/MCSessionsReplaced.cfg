SPECIFICATION Spec
CONSTANTS
    p1 = p1
    a1 = a1
    a2 = a2
    a3 = a3
    Peers = {p1}
    Streams = {a1, a2}
    PeerOf <- MCPeerOf
    Kind <- MCAllQUIC
    None = None
PROPERTIES
    ReplacementSurvives
