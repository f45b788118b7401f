----------------------------- MODULE MCSessions -----------------------------
(* Sessions on small instances: one peer that comes back, over libp2p and  *)
(* over QUIC, while its earlier sessions are still being cleaned up.       *)
EXTENDS Sessions

CONSTANTS p1, a1, a2, a3

MCPeerOf == [x \in Streams |-> p1]

\* a1 and a2 over libp2p, a3 over QUIC.
MCMixed == [x \in Streams |-> IF x = a3 THEN "quic" ELSE "libp2p"]

MCAllQUIC == [x \in Streams |-> "quic"]

=============================================================================
