------------------------------- MODULE Codec --------------------------------
(***************************************************************************)
(* The framing of ZstdDuplex (internal/compress/zstd.go): Write cuts its   *)
(* argument into chunks and writes each as a flag byte, the length of the  *)
(* payload as a uvarint and the payload, compressed or not; Read reads one *)
(* frame at a time and keeps what its caller has no room for.              *)
(***************************************************************************)
EXTENDS Integers, Sequences, SequencesExt

CONSTANTS
    Alphabet,      \* bytes of the data
    ZstdChunkSize, \* zstdChunkSizeB
    ZstdMinSize,   \* zstdMinSizeB
    MaxStored,     \* what Read takes for a length, 1<<30 in the code
    Base,          \* digits of a uvarint, 128 in the code
    Compress,      \* external: ddzstd.CompressLevel, on the chunks it does not
                   \* fail on
    Decompress     \* external: ddzstd.Decompress, on the payloads it accepts

ASSUME CodecAssumption ==
    /\ ZstdChunkSize \in Nat \ {0} /\ ZstdMinSize \in Nat /\ Base \in Nat \ {0, 1}
    /\ MaxStored \in Nat /\ ZstdChunkSize <= MaxStored
    /\ Alphabet \subseteq Nat

\* All that is asked of the compressor: what it makes of a chunk is restored.
\* Nothing is said of how short it is, or of other payloads.
ASSUME CompressorAssumption ==
    /\ \A c \in DOMAIN Compress :
          Compress[c] \in DOMAIN Decompress /\ Decompress[Compress[c]] = c
    /\ \A s \in DOMAIN Decompress : s \in Seq(Nat) /\ Decompress[s] \in Seq(Nat)

\* Mutant: as if a length always took one byte.
MutUvarint(v) == <<v % Base>>

\* PutUvarint: low digits first, all but the last marked by adding Base.
Uvarint(v) ==
    LET u[n \in Nat] ==
        IF n < Base THEN <<n>> ELSE <<(n % Base) + Base>> \o u[n \div Base]
    IN  u[v]

\* uvarintLen.
UvarintLen(v) ==
    LET l[n \in Nat] == IF n < Base THEN 1 ELSE 1 + l[n \div Base]
    IN  l[v]

-----------------------------------------------------------------------------
(* Write *)

Frame(chunk) ==
    LET comp == Compress[chunk]
        use  == /\ Len(chunk) >= ZstdMinSize /\ chunk \in DOMAIN Compress
                /\ Len(comp) + 1 + UvarintLen(Len(comp)) < Len(chunk)
        payload == IF use THEN comp ELSE chunk
    IN  <<IF use THEN 1 ELSE 0>> \o Uvarint(Len(payload)) \o payload

\* Where the chunk, or the piece, of at most size bytes after k ends in n.
Upto(k, size, n) == IF k + size > n THEN n ELSE k + size

\* The frames of p from each offset on.
FramesFrom(p) ==
    LET w[off \in 0 .. Len(p)] ==
        LET end == Upto(off, ZstdChunkSize, Len(p))
        IN  IF off >= Len(p) THEN <<>>
            ELSE Frame(SubSeq(p, off + 1, end)) \o w[end]
    IN  w

Write(p) == FramesFrom(p)[0]

-----------------------------------------------------------------------------
(* Read *)

\* The digits of a uvarint at position i: how many, 0 if the end comes first.
Digits(b, i) ==
    LET ends == { j \in i .. Len(b) : b[j] < Base }
    IN  IF ends = {} THEN 0
        ELSE (CHOOSE j \in ends : \A k \in ends : j <= k) - i + 1

\* The number the digits from the k-th on stand for.
ValueFrom(b, i, n) ==
    LET v[k \in 0 .. n] ==
        IF k = n THEN 0 ELSE (b[i + k] % Base) + Base * v[k + 1]
    IN  v

Value(b, i, n) == ValueFrom(b, i, n)[0]

\* The frame at position i: where it ends, and what it holds; to = 0: the end
\* of the stream comes first, or the length or the payload is refused.
FrameAt(b, i) ==
    LET n       == Digits(b, i + 1)
        stored  == Value(b, i + 1, n)
        to      == i + n + stored
        payload == SubSeq(b, i + n + 1, to)
    IN  IF \/ i > Len(b) \/ n = 0 \/ stored > MaxStored \/ to > Len(b)
           \/ b[i] = 1 /\ payload \notin DOMAIN Decompress
        THEN [to |-> 0, out |-> <<>>]
        ELSE [to |-> to,
              out |-> IF b[i] = 1 THEN Decompress[payload] ELSE payload]

\* One frame through readBuf, from each offset on: every call of Read takes
\* what it has room for, r bytes.
PiecesFrom(out, r) ==
    LET p[k \in 0 .. Len(out)] ==
        LET end == Upto(k, r, Len(out))
        IN  IF k = Len(out) THEN <<>> ELSE <<SubSeq(out, k + 1, end)>> \o p[end]
    IN  p

\* What calls of Read with room for r bytes return one after the other, from
\* each position of the stream b on, up to the error at its end.
ReadsFrom(b, r) ==
    LET rd[i \in 1 .. Len(b) + 1] ==
        LET f == FrameAt(b, i)
        IN  IF f.to = 0 THEN <<>> ELSE PiecesFrom(f.out, r)[0] \o rd[f.to + 1]
    IN  rd

Reads(b, r) == ReadsFrom(b, r)[1]

-----------------------------------------------------------------------------
(* Properties *)

\* The stream after calls of Write with each of ps.
Written(ps) == FlattenSeq([k \in 1 .. Len(ps) |-> Write(ps[k])])

\* What is written comes out of Read in order, whatever room its callers have.
CarriesAll(ps, r) == FlattenSeq(Reads(Written(ps), r)) = FlattenSeq(ps)

\* A stream cut off anywhere gives a prefix of what was written.
CarriesPrefix(ps, r) ==
    \A n \in 0 .. Len(Written(ps)) :
        IsPrefix(FlattenSeq(Reads(SubSeq(Written(ps), 1, n), r)), FlattenSeq(ps))

=============================================================================
