----------------------------- MODULE Recursion ------------------------------
(***************************************************************************)
(* What the proofs about recursive functions rest on.  f[x \in D] == e      *)
(* means CHOOSE f : f = [x \in D |-> e], and says nothing until such an f is *)
(* shown to exist.  Induction and recursion are stated with sets and       *)
(* functions in place of operators, and rest on the well-foundedness of <. *)
(***************************************************************************)
EXTENDS Integers, Sequences, SequencesExt, SequenceTheorems,
        WellFoundedInduction, TLAPS

-----------------------------------------------------------------------------
(* Induction and recursion *)

\* A set of numbers has a least element.
LEMMA LeastElement ==
    ASSUME NEW T, T \subseteq Nat, T # {}
    PROVE  \E x \in T : \A y \in T : x <= y
<1> DEFINE R == {ss \in Nat \X Nat : ss[1] < ss[2]}
<1>1. IsWellFoundedOn(R, Nat)
    BY NatLessThanWellFounded DEF OpToRel
<1> HIDE DEF R
<1>2. PICK x \in T : \A y \in T : ~(<<y, x>> \in R)
    BY <1>1, WFMin, Zenon
<1>3. \A y \in T : ~(y < x)
    BY <1>2 DEF R
<1> QED  BY <1>3

\* Induction over the natural numbers, for a set instead of a predicate.
LEMMA Induction ==
    ASSUME NEW S, S \subseteq Nat,
           \A n \in Nat : (\A k \in 0 .. (n - 1) : k \in S) => n \in S
    PROVE  S = Nat
<1> SUFFICES ASSUME S # Nat PROVE FALSE
    OBVIOUS
<1> DEFINE T == Nat \ S
<1>1. T \subseteq Nat /\ T # {}
    OBVIOUS
<1>2. PICK x \in T : \A y \in T : x <= y
    BY <1>1, LeastElement, Zenon
<1>3. \A k \in 0 .. (x - 1) : k \in S
    BY <1>2
<1> QED  BY <1>3

\* What one unfolding of a linear recursion over D gives from f.
Unfold(f, D, B, b, nx, F) ==
    [d \in D |-> IF d \in B THEN b[d] ELSE F[d][f[nx[d]]]]

\* g satisfies the recursion, as far as its values lie in V.
Obeys(g, D, V, B, b, nx, F) ==
    /\ g = [d \in D |-> g[d]]
    /\ \A d \in D : /\ d \in B => g[d] = b[d]
                    /\ d \notin B /\ g[nx[d]] \in V => g[d] = F[d][g[nx[d]]]

\* A recursion that leads from d to nx[d], until it reaches B, and descends
\* in m: it gives values in V.
Descends(D, V, B, b, nx, F, m) ==
    /\ b \in [D -> V] /\ m \in [D -> Nat]
    /\ \A d \in D : d \notin B =>
          nx[d] \in D /\ m[nx[d]] < m[d] /\ F[d] \in [V -> V]

\* There is a function that satisfies such a recursion, so that CHOOSE finds
\* one.
LEMMA RecursionExists ==
    ASSUME NEW D, NEW V, NEW B, NEW b, NEW nx, NEW F, NEW m,
           Descends(D, V, B, b, nx, F, m)
    PROVE  \E f \in [D -> V] : Obeys(f, D, V, B, b, nx, F)
<1> b \in [D -> V] /\ m \in [D -> Nat]
    BY DEF Descends
<1> \A d \in D : d \notin B =>
          nx[d] \in D /\ m[nx[d]] < m[d] /\ F[d] \in [V -> V]
    BY DEF Descends
<1> DEFINE Up(f) == Unfold(f, D, B, b, nx, F)
           Good(n, f) == f \in [D -> V] /\ \A d \in D : m[d] < n => f[d] = Up(f)[d]
<1>0. \A f \in [D -> V] : Up(f) \in [D -> V]
    BY DEF Unfold
<1>1. \A n \in Nat : \E f : Good(n, f)
  <2> DEFINE S == { n \in Nat : \E f : Good(n, f) }
  <2>1. ASSUME NEW n \in Nat, \A k \in 0 .. (n - 1) : k \in S
        PROVE  n \in S
    <3>1. CASE n = 0
      <4>1. Good(0, b)
          OBVIOUS
      <4> QED  BY <3>1, <4>1
    <3>2. CASE n # 0
      <4>1. n - 1 \in 0 .. (n - 1) /\ n - 1 \in Nat
          BY <3>2
      <4>2. PICK f : Good(n - 1, f)
          BY <2>1, <4>1
      <4>3. Up(f) \in [D -> V]
          BY <1>0, <4>2
      <4>4. ASSUME NEW d \in D, m[d] < n
            PROVE  Up(f)[d] = Up(Up(f))[d]
        <5>1. CASE d \in B
            BY <5>1 DEF Unfold
        <5>2. CASE d \notin B
          <6>1. nx[d] \in D /\ m[nx[d]] \in Nat /\ m[d] \in Nat /\ m[nx[d]] < m[d]
              BY <5>2
          <6>2. m[nx[d]] < n - 1
              BY <6>1, <4>4
          <6>3. f[nx[d]] = Up(f)[nx[d]]
              BY <4>2, <6>1, <6>2
          <6> QED  BY <6>1, <6>3, <5>2 DEF Unfold
        <5> QED  BY <5>1, <5>2
      <4>5. Good(n, Up(f))
          BY <4>3, <4>4
      <4> QED  BY <4>5
    <3> QED  BY <3>1, <3>2
  <2> HIDE DEF Up, Good
  <2>2. S = Nat
    <3>1. S \subseteq Nat
        OBVIOUS
    <3> HIDE DEF S
    <3> QED  BY <2>1, <3>1, Induction
  <2> QED  BY <2>2
<1>2. ASSUME NEW n \in Nat, NEW k \in Nat, NEW f, NEW g, Good(n, f), Good(k, g)
      PROVE  \A d \in D : m[d] < n /\ m[d] < k => f[d] = g[d]
  <2> DEFINE S == { j \in Nat : \A d \in D : (m[d] = j /\ m[d] < n /\ m[d] < k) => f[d] = g[d] }
  <2>1. ASSUME NEW j \in Nat, \A i \in 0 .. (j - 1) : i \in S
        PROVE  j \in S
    <3> SUFFICES ASSUME NEW d \in D, m[d] = j, m[d] < n, m[d] < k
                 PROVE  f[d] = g[d]
        OBVIOUS
    <3>1. f[d] = Up(f)[d] /\ g[d] = Up(g)[d]
        BY <1>2
    <3>2. CASE d \in B
        BY <3>1, <3>2 DEF Unfold
    <3>3. CASE d \notin B
      <4>1. nx[d] \in D /\ m[nx[d]] \in Nat /\ m[d] \in Nat /\ m[nx[d]] < m[d]
          BY <3>3
      <4>2. m[nx[d]] \in 0 .. (j - 1) /\ m[nx[d]] < n /\ m[nx[d]] < k
          BY <4>1
      <4>3. f[nx[d]] = g[nx[d]]
          BY <2>1, <4>1, <4>2
      <4> QED  BY <3>1, <3>3, <4>1, <4>3 DEF Unfold
    <3> QED  BY <3>2, <3>3
  <2>2. S = Nat
    <3>1. S \subseteq Nat
        OBVIOUS
    <3> HIDE DEF S
    <3> QED  BY <2>1, <3>1, Induction
  <2> QED  BY <2>2
<1> DEFINE G(n) == CHOOSE f : Good(n, f)
           h == [d \in D |-> G(m[d] + 1)[d]]
<1>3. \A n \in Nat : Good(n, G(n))
    BY <1>1, Zenon DEF Good
<1> HIDE DEF G, Up
<1>4. ASSUME NEW d \in D
      PROVE  h[d] \in V /\ h[d] = Up(h)[d]
  <2>1. m[d] \in Nat /\ m[d] + 1 \in Nat /\ m[d] < m[d] + 1
      OBVIOUS
  <2>2. Good(m[d] + 1, G(m[d] + 1))
      BY <1>3, <2>1
  <2>3. h[d] \in V /\ h[d] = Up(G(m[d] + 1))[d]
      BY <2>1, <2>2
  <2>4. CASE d \in B
      BY <2>3, <2>4 DEF Up, Unfold
  <2>5. CASE d \notin B
    <3>1. nx[d] \in D /\ m[nx[d]] \in Nat /\ m[nx[d]] < m[d]
        BY <2>5
    <3>2. Good(m[nx[d]] + 1, G(m[nx[d]] + 1))
        BY <1>3, <3>1
    <3> HIDE DEF Good
    <3>3. G(m[d] + 1)[nx[d]] = G(m[nx[d]] + 1)[nx[d]]
      <4>1. m[nx[d]] + 1 \in Nat /\ m[nx[d]] < m[d] + 1 /\ m[nx[d]] < m[nx[d]] + 1
          BY <2>1, <3>1
      <4> QED  BY <4>1, <2>1, <2>2, <3>1, <3>2, <1>2
    <3>4. h[nx[d]] = G(m[d] + 1)[nx[d]]
        BY <3>1, <3>3
    <3> HIDE DEF h
    <3> QED  BY <2>3, <2>5, <3>4 DEF Up, Unfold
  <2> QED  BY <2>4, <2>5
<1>5. h \in [D -> V] /\ h = Up(h)
  <2>1. \A f : DOMAIN Up(f) = D /\ Up(f) = [d \in D |-> Up(f)[d]]
      BY DEF Up, Unfold
  <2> QED  BY <1>4, <2>1
<1>6. Obeys(h, D, V, B, b, nx, F)
  <2> HIDE DEF h
  <2>1. \A d \in D : h[d] = IF d \in B THEN b[d] ELSE F[d][h[nx[d]]]
      BY <1>5 DEF Up, Unfold
  <2> QED  BY <1>5, <2>1 DEF Obeys
<1> QED  BY <1>5, <1>6

\* Whatever satisfies it has its values in V.
LEMMA RecursionType ==
    ASSUME NEW D, NEW V, NEW B, NEW b, NEW nx, NEW F, NEW m,
           Descends(D, V, B, b, nx, F, m),
           NEW g, Obeys(g, D, V, B, b, nx, F)
    PROVE  g \in [D -> V]
<1> b \in [D -> V] /\ m \in [D -> Nat]
    BY DEF Descends
<1> \A d \in D : d \notin B =>
          nx[d] \in D /\ m[nx[d]] < m[d] /\ F[d] \in [V -> V]
    BY DEF Descends
<1> DEFINE S == { j \in Nat : \A d \in D : m[d] = j => g[d] \in V }
<1>0. /\ g = [d \in D |-> g[d]]
      /\ \A d \in D : d \in B => g[d] = b[d]
      /\ \A d \in D : d \notin B /\ g[nx[d]] \in V => g[d] = F[d][g[nx[d]]]
    BY DEF Obeys
<1>1. ASSUME NEW j \in Nat, \A i \in 0 .. (j - 1) : i \in S
      PROVE  j \in S
  <2> SUFFICES ASSUME NEW d \in D, m[d] = j
               PROVE  g[d] \in V
      OBVIOUS
  <2>1. CASE d \in B
      BY <1>0, <2>1
  <2>2. CASE d \notin B
    <3>1. nx[d] \in D /\ m[nx[d]] \in 0 .. (j - 1) /\ F[d] \in [V -> V]
        BY <2>2
    <3>2. g[nx[d]] \in V
        BY <1>1, <3>1
    <3> QED  BY <1>0, <2>2, <3>1, <3>2
  <2> QED  BY <2>1, <2>2
<1>2. S = Nat
  <2>1. S \subseteq Nat
      OBVIOUS
  <2> HIDE DEF S
  <2> QED  BY <1>1, <2>1, Induction
<1>3. \A d \in D : g[d] \in V
    BY <1>2
<1> QED  BY <1>0, <1>3

-----------------------------------------------------------------------------
(* Digits *)

LEMMA DivMod ==
    ASSUME NEW B \in Nat, B > 1, NEW n \in Nat
    PROVE  /\ n % B \in 0 .. (B - 1) /\ n \div B \in Nat
           /\ n = (n % B) + B * (n \div B)
           /\ n >= B => n \div B < n
           /\ n < B => n % B = n
<1>1. n % B \in 0 .. (B - 1) /\ n \div B \in Nat
   OBVIOUS
<1>2. n = (n % B) + B * (n \div B)
   OBVIOUS
<1>3. n >= B => n \div B < n
   OBVIOUS
<1>4. n < B => n % B = n
   OBVIOUS
<1> QED  BY <1>1, <1>2, <1>3, <1>4

LEMMA MarkedDigit ==
    ASSUME NEW B \in Nat, B > 1, NEW d \in 0 .. (B - 1)
    PROVE  (d + B) % B = d
<1> DEFINE q == (d + B) \div B
           r == (d + B) % B
<1>1. q \in Nat /\ r \in 0 .. (B - 1) /\ d + B = r + B * q
  <2>1. d + B \in Nat
      OBVIOUS
  <2> QED  BY <2>1, DivMod, Zenon
<1> HIDE DEF q, r
<1>2. q # 0
    BY <1>1
<1>3. ~(q >= 2)
  <2> SUFFICES ASSUME q >= 2 PROVE FALSE
      OBVIOUS
  <2>1. B * q >= B * 2
      BY <1>1
  <2> QED  BY <1>1, <2>1
<1>4. q = 1
    BY <1>1, <1>2, <1>3
<1> QED  BY <1>1, <1>4 DEF r

-----------------------------------------------------------------------------
(* Sequences of sequences *)

\* The function FlattenSeq recurs in: what the first sequences of s amount to.
Flat(s) == CHOOSE f : f = [i \in 1 .. Len(s) |-> IF i = 1 THEN s[i] ELSE f[i - 1] \o s[i]]

LEMMA FlatDef ==
    ASSUME NEW S, NEW s \in Seq(Seq(S))
    PROVE  \A i \in 1 .. Len(s) :
              /\ Flat(s)[i] \in Seq(S)
              /\ Flat(s)[i] = IF i = 1 THEN s[1] ELSE Flat(s)[i - 1] \o s[i]
<1> DEFINE D == 1 .. Len(s)
           Sat(w) == w = [i \in D |-> IF i = 1 THEN s[i] ELSE w[i - 1] \o s[i]]
           w0 == CHOOSE w : Sat(w)
           V  == Seq(S)
           b  == [i \in D |-> s[i]]
           nx == [i \in D |-> i - 1]
           F  == [i \in D |-> [x \in V |-> x \o s[i]]]
           m  == [i \in D |-> i]
<1>2. \A i \in D : s[i] \in V
    OBVIOUS
<1>3. \A i \in D : i # 1 => i - 1 \in D /\ i - 1 < i
    OBVIOUS
<1>0. Descends(D, V, {1}, b, nx, F, m)
  <2>1. b \in [D -> V] /\ m \in [D -> Nat]
      BY <1>2
  <2>2. ASSUME NEW i \in D, i \notin {1}
        PROVE  nx[i] \in D /\ m[nx[i]] < m[i] /\ F[i] \in [V -> V]
    <3>1. nx[i] \in D /\ m[nx[i]] < m[i]
        BY <1>3, <2>2
    <3>3. \A x \in V : x \o s[i] \in V
        BY <1>2, ConcatProperties
    <3> HIDE DEF D, V
    <3> QED  BY <2>2, <3>1, <3>3
  <2> HIDE DEF D, b, nx, F, m, V
  <2> QED  BY <2>1, <2>2 DEF Descends
<1>4. PICK w \in [D -> V] : Obeys(w, D, V, {1}, b, nx, F)
  <2> HIDE DEF D, b, nx, F, m, V
  <2> QED  BY <1>0, RecursionExists
<1>5. Sat(w)
  <2> HIDE DEF D, V
  <2> QED  BY <1>3, <1>4 DEF Obeys
<1>6. Sat(w0)
    BY <1>5, Zenon
<1>7. Obeys(w0, D, V, {1}, b, nx, F)
  <2> HIDE DEF w0, D, V
  <2> QED  BY <1>3, <1>6 DEF Obeys
<1>8. w0 \in [D -> V]
  <2> HIDE DEF D, b, nx, F, m, w0, V
  <2> QED  BY <1>0, <1>7, RecursionType
<1>9. Flat(s) = w0
    BY DEF Flat
<1> HIDE DEF w0
<1>10. \A i \in D : /\ w0[i] \in V
                    /\ w0[i] = IF i = 1 THEN s[i] ELSE w0[i - 1] \o s[i]
  <2> HIDE DEF D, V
  <2> QED  BY <1>3, <1>6, <1>8
<1> QED  BY <1>10, <1>9

LEMMA FlattenIs ==
    ASSUME NEW s
    PROVE  FlattenSeq(s) = IF Len(s) = 0 THEN s ELSE Flat(s)[Len(s)]
  BY DEF FlattenSeq, Flat

LEMMA ConcatAssoc ==
    ASSUME NEW S, NEW a \in Seq(S), NEW b \in Seq(S), NEW c \in Seq(S)
    PROVE  (a \o b) \o c = a \o (b \o c)
  BY ConcatAssociative

LEMMA ConcatAssocNat ==
    \A a, b, c \in Seq(Nat) : (a \o b) \o c = a \o (b \o c)
  BY ConcatAssoc

LEMMA FlattenEmpty == FlattenSeq(<<>>) = <<>>
<1>1. Len(<<>>) = 0
    OBVIOUS
<1> QED  BY <1>1, FlattenIs

LEMMA FlattenType ==
    ASSUME NEW S, NEW s \in Seq(Seq(S))
    PROVE  FlattenSeq(s) \in Seq(S)
<1>1. CASE Len(s) = 0
  <2>1. s = <<>>
      BY <1>1
  <2>2. <<>> \in Seq(S)
      OBVIOUS
  <2> QED  BY <2>1, <2>2, FlattenEmpty, Zenon
<1>2. CASE Len(s) # 0
  <2>1. Len(s) \in 1 .. Len(s)
      BY <1>2
  <2> QED  BY <1>2, <2>1, FlatDef, FlattenIs
<1> QED  BY <1>1, <1>2

LEMMA FlattenAppend ==
    ASSUME NEW S, NEW s \in Seq(Seq(S)), NEW x \in Seq(S)
    PROVE  FlattenSeq(Append(s, x)) = FlattenSeq(s) \o x
<1> DEFINE t == Append(s, x)
           n == Len(s)
<1>1. t \in Seq(Seq(S)) /\ Len(t) = n + 1 /\ t[n + 1] = x /\ \A i \in 1 .. n : t[i] = s[i]
    BY AppendProperties
<1>2. n \in Nat
    OBVIOUS
<1> HIDE DEF t, n
<1>3. \A i \in 1 .. n : Flat(t)[i] = Flat(s)[i]
  <2> DEFINE P == { j \in Nat : j \in 1 .. n => Flat(t)[j] = Flat(s)[j] }
  <2>1. ASSUME NEW j \in Nat, \A i \in 0 .. (j - 1) : i \in P
        PROVE  j \in P
    <3> SUFFICES ASSUME j \in 1 .. n PROVE Flat(t)[j] = Flat(s)[j]
        OBVIOUS
    <3>1. j \in 1 .. Len(t) /\ j \in 1 .. Len(s) /\ t[j] = s[j]
        BY <1>1, <1>2 DEF n
    <3>2. Flat(t)[j] = IF j = 1 THEN t[1] ELSE Flat(t)[j - 1] \o t[j]
        BY <1>1, <3>1, FlatDef
    <3>3. Flat(s)[j] = IF j = 1 THEN s[1] ELSE Flat(s)[j - 1] \o s[j]
        BY <3>1, FlatDef
    <3>4. CASE j = 1
        BY <3>1, <3>2, <3>3, <3>4
    <3>5. CASE j # 1
      <4>1. j - 1 \in 0 .. (j - 1) /\ j - 1 \in 1 .. n
          BY <3>5, <1>2
      <4>2. Flat(t)[j - 1] = Flat(s)[j - 1]
          BY <2>1, <4>1
      <4> QED  BY <3>1, <3>2, <3>3, <3>5, <4>2
    <3> QED  BY <3>4, <3>5
  <2>2. P = Nat
    <3>1. P \subseteq Nat
        OBVIOUS
    <3> HIDE DEF P
    <3> QED  BY <2>1, <3>1, Induction
  <2> QED  BY <1>2, <2>2
<1>4. FlattenSeq(t) = Flat(t)[n + 1]
    BY <1>1, <1>2, FlattenIs
<1>5. Flat(t)[n + 1] = IF n + 1 = 1 THEN t[1] ELSE Flat(t)[n + 1 - 1] \o t[n + 1]
  <2>1. n + 1 \in 1 .. Len(t)
      BY <1>1, <1>2
  <2>2. \A i \in 1 .. Len(t) : Flat(t)[i] = IF i = 1 THEN t[1] ELSE Flat(t)[i - 1] \o t[i]
      BY <1>1, FlatDef
  <2> QED  BY <1>2, <2>1, <2>2
<1>6. CASE n = 0
  <2>1. s = <<>>
      BY <1>6 DEF n
  <2>2. FlattenSeq(s) = <<>>
      BY <2>1, FlattenIs
  <2>3. <<>> \o x = x
      OBVIOUS
  <2> QED  BY <1>1, <1>4, <1>5, <1>6, <2>2, <2>3 DEF t
<1>7. CASE n # 0
  <2>1. FlattenSeq(s) = Flat(s)[n]
      BY <1>7, FlattenIs DEF n
  <2>2. Flat(t)[n] = Flat(s)[n]
      BY <1>2, <1>3, <1>7
  <2>3. n + 1 - 1 = n /\ n + 1 # 1
      BY <1>2, <1>7
  <2> QED  BY <1>1, <1>4, <1>5, <2>1, <2>2, <2>3 DEF t
<1> QED  BY <1>6, <1>7

LEMMA FlattenConcat ==
    ASSUME NEW S, NEW s \in Seq(Seq(S)), NEW t \in Seq(Seq(S))
    PROVE  FlattenSeq(s \o t) = FlattenSeq(s) \o FlattenSeq(t)
<1> DEFINE P == { j \in Nat : \A u \in Seq(Seq(S)) : Len(u) = j =>
                     FlattenSeq(s \o u) = FlattenSeq(s) \o FlattenSeq(u) }
<1>1. ASSUME NEW j \in Nat, \A i \in 0 .. (j - 1) : i \in P
      PROVE  j \in P
  <2> SUFFICES ASSUME NEW u \in Seq(Seq(S)), Len(u) = j
               PROVE  FlattenSeq(s \o u) = FlattenSeq(s) \o FlattenSeq(u)
      OBVIOUS
  <2>1. CASE u = <<>>
    <3>1. FlattenSeq(u) = <<>>
        BY <2>1, FlattenIs
    <3>2. s \o u = s
        BY <2>1
    <3>3. FlattenSeq(s) \o <<>> = FlattenSeq(s)
        BY FlattenType, ConcatEmptySeq
    <3> QED  BY <3>1, <3>2, <3>3
  <2>2. ASSUME NEW v \in Seq(Seq(S)), NEW x \in Seq(S), u = Append(v, x)
        PROVE  FlattenSeq(s \o u) = FlattenSeq(s) \o FlattenSeq(u)
    <3>1. Len(v) \in 0 .. (j - 1)
        BY <2>2
    <3>2. FlattenSeq(s \o v) = FlattenSeq(s) \o FlattenSeq(v)
        BY <1>1, <3>1
    <3>3. s \o u = Append(s \o v, x) /\ s \o v \in Seq(Seq(S))
        BY <2>2
    <3>4. FlattenSeq(Append(s \o v, x)) = FlattenSeq(s \o v) \o x
        BY <3>3, FlattenAppend
    <3>5. FlattenSeq(u) = FlattenSeq(v) \o x
        BY <2>2, FlattenAppend
    <3>6. (FlattenSeq(s) \o FlattenSeq(v)) \o x = FlattenSeq(s) \o (FlattenSeq(v) \o x)
      <4>1. FlattenSeq(s) \in Seq(S) /\ FlattenSeq(v) \in Seq(S)
          BY FlattenType
      <4> QED  BY <4>1, ConcatAssoc, SMTT(30)
    <3> QED  BY <3>2, <3>3, <3>4, <3>5, <3>6
  <2>3. u = <<>> \/ \E v \in Seq(Seq(S)), x \in Seq(S) : u = Append(v, x)
      BY SequenceEmptyOrAppend
  <2> QED  BY <2>1, <2>2, <2>3
<1>2. P = Nat
  <2>1. P \subseteq Nat
      OBVIOUS
  <2> HIDE DEF P
  <2> QED  BY <1>1, <2>1, Induction
<1>3. Len(t) \in P
    BY <1>2
<1> QED  BY <1>3

LEMMA FlattenOne ==
    ASSUME NEW S, NEW x \in Seq(S)
    PROVE  FlattenSeq(<<x>>) = x
<1>1. <<>> \in Seq(Seq(S)) /\ <<x>> = Append(<<>>, x) /\ FlattenSeq(<<>>) = <<>>
    BY FlattenIs
<1>2. <<>> \o x = x
    OBVIOUS
<1> QED  BY <1>1, <1>2, FlattenAppend

=============================================================================
