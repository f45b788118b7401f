---------------------------- MODULE MCForwarding ----------------------------
(* Forwarding on a small instance: TCP over a plain libp2p stream, UDP over *)
(* a compressed QUIC stream, and requests the server refuses.              *)
EXTENDS Forwarding, Codec

TCP == [udp |-> FALSE, quic |-> FALSE, zstd |-> FALSE, known |-> TRUE,
        enabled |-> TRUE, protocol |-> TRUE, password |-> "none"]

UDP == [TCP EXCEPT !.udp = TRUE, !.quic = TRUE, !.zstd = TRUE,
                   !.password = "right"]

MCCases == {TCP, UDP,
            [TCP EXCEPT !.password = "missing"], [TCP EXCEPT !.known = FALSE],
            [UDP EXCEPT !.enabled = FALSE], [UDP EXCEPT !.protocol = FALSE]}

\* With two chunks a loop can block on its write, with three the loss of one
\* that did not fit is seen.
MCMaxUp(c) == IF c.udp THEN 2 ELSE 3

\* A compressor that makes a chunk shorter where it is a run of one byte,
\* longer where it is not but ends in 0, and fails on the others.
IsRun(s) == \A i \in 1 .. Len(s) : s[i] = s[1]
MCCompress ==
    LET chunks == UNION { [1 .. n -> Alphabet] : n \in 1 .. ZstdChunkSize }
    IN  [s \in { c \in chunks : IsRun(c) \/ Last(c) = 0 } |->
            IF IsRun(s) THEN <<s[1], Len(s)>> ELSE <<0>> \o s \o <<0>>]
MCDecompress ==
    [s \in { MCCompress[c] : c \in DOMAIN MCCompress } |->
        IF Len(s) = 2 THEN [i \in 1 .. s[2] |-> s[1]] ELSE SubSeq(s, 2, Len(s) - 1)]

Data == UNION { [1 .. n -> Alphabet] : n \in 0 .. 2 * ZstdChunkSize + 1 }

\* d written by one call of Write, or by two.
Calls(d) == { <<SubSeq(d, 1, n), SubSeq(d, n + 1, Len(d))>> : n \in {0, Len(d) \div 2} }

\* A stream wrapped in ZstdDuplex carries the bytes unchanged: whatever is
\* written, by one or two calls of Write, comes out of Read in order, with
\* room for any number of bytes, and a stream cut off anywhere gives a prefix.
CodecCarriesPrefix ==
    (case = UDP /\ cl = "open" /\ open["app"] /\ sentUp = 0) =>
        \A d \in Data : \A ps \in Calls(d) :
            /\ \A r \in 1 .. ZstdChunkSize + 1 : CarriesAll(ps, r)
            /\ CarriesPrefix(ps, 2)

=============================================================================
