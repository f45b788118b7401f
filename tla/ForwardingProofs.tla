-------------------------- MODULE ForwardingProofs --------------------------
(***************************************************************************)
(* Proofs about Forwarding: its type invariant, and that it implements     *)
(* Tunnel, for any kinds of connections, any number of chunks and any      *)
(* capacity of the hops; and about Codec: whatever is written comes out.   *)
(***************************************************************************)
EXTENDS MCForwarding, Recursion, SequenceTheorems, TLAPS

-----------------------------------------------------------------------------
(* Sequences of chunks *)

\* The numbers after n, in order.
Consec(q, n) == \A i \in 1 .. Len(q) : q[i] = n + i

\* Chunks that have been sent.
Within(q, n) == \A i \in 1 .. Len(q) : q[i] \in 1 .. n

\* q without a handshake message at its head.
Strip(q, S) == IF q # <<>> /\ Head(q) \in S THEN Tail(q) ELSE q

Clear(q, S) == q = <<>> \/ Head(q) \notin S

LEMMA EmptyQueue ==
    \A n : Consec(<<>>, n) /\ Within(<<>>, n)
  BY DEF Consec, Within

LEMMA ConsecAppend ==
    ASSUME NEW q \in Seq(Int), NEW n \in Int, NEW x \in Int, Consec(q, n),
           x = n + Len(q) + 1
    PROVE  Consec(Append(q, x), n)
  <1>1. Len(Append(q, x)) = Len(q) + 1 /\ Len(q) \in Nat
    OBVIOUS
  <1>2. ASSUME NEW i \in 1 .. Len(q) + 1 PROVE Append(q, x)[i] = n + i
    <2>1. CASE i = Len(q) + 1
      BY <2>1
    <2>2. CASE i \in 1 .. Len(q)
      BY <2>2 DEF Consec
    <2> QED BY <1>1, <2>1, <2>2
  <1> QED BY <1>1, <1>2 DEF Consec

LEMMA ConsecTail ==
    ASSUME NEW q \in Seq(Int), NEW n \in Int, Consec(q, n), q # <<>>
    PROVE  /\ Head(q) = n + 1 /\ Consec(Tail(q), n + 1)
           /\ Len(Tail(q)) = Len(q) - 1
  BY DEF Consec

LEMMA WithinMore ==
    ASSUME NEW q \in Seq(Int), NEW n \in Nat, NEW k \in Nat, n <= k, Within(q, n)
    PROVE  Within(q, k)
  BY DEF Within

LEMMA WithinAppend ==
    ASSUME NEW q \in Seq(Int), NEW n \in Nat, NEW x \in 1 .. n, Within(q, n)
    PROVE  Within(Append(q, x), n)
  BY DEF Within

LEMMA WithinTail ==
    ASSUME NEW q \in Seq(Int), NEW n \in Nat, q # <<>>, Within(q, n)
    PROVE  Head(q) \in 1 .. n /\ Within(Tail(q), n)
  BY DEF Within

LEMMA StripSeq ==
    ASSUME NEW q \in Seq(Int), NEW S
    PROVE  Strip(q, S) \in Seq(Int)
  BY DEF Strip

LEMMA StripAppend ==
    ASSUME NEW q \in Seq(Int), NEW n \in Nat, NEW x \in 1 .. n,
           NEW S \in SUBSET {Req, Ok, No}
    PROVE  Strip(Append(q, x), S) = Append(Strip(q, S), x)
  <1>0. x \notin S
    BY DEF Req, Ok, No
  <1>1. CASE q = <<>>
    BY <1>0, <1>1 DEF Strip
  <1>2. CASE q # <<>>
    <2>1. Head(Append(q, x)) = Head(q) /\ Tail(Append(q, x)) = Append(Tail(q), x)
      BY <1>2
    <2> QED BY <1>2, <2>1 DEF Strip
  <1> QED BY <1>1, <1>2

LEMMA ClearStrip ==
    ASSUME NEW q, NEW S, Clear(q, S)
    PROVE  Strip(q, S) = q
  BY DEF Strip, Clear

LEMMA ClearEmpty == \A S : Clear(<<>>, S)
  BY DEF Clear

LEMMA ClearTail ==
    ASSUME NEW q \in Seq(Int), NEW n \in Nat, NEW S \in SUBSET {Req, Ok, No},
           q # <<>>, Within(Strip(q, S), n)
    PROVE  Clear(Tail(q), S)
  <1>1. CASE Tail(q) = <<>>
    BY <1>1 DEF Clear
  <1>2. CASE Tail(q) # <<>>
    <2>1. Head(Tail(q)) = q[2] /\ 2 \in 1 .. Len(q)
      BY <1>2
    <2>2. CASE Head(q) \in S
      <3>1. Strip(q, S) = Tail(q)
        BY <2>2 DEF Strip
      <3>2. Tail(q) \in Seq(Int) /\ Within(Tail(q), n)
        BY <3>1
      <3>3. Head(Tail(q)) \in 1 .. n
        BY <3>2, <1>2, WithinTail
      <3> QED BY <3>3 DEF Clear, Req, Ok, No
    <2>3. CASE Head(q) \notin S
      <3>1. Strip(q, S) = q
        BY <2>3 DEF Strip
      <3>2. q[2] \in 1 .. n
        BY <2>1, <3>1 DEF Within
      <3> QED BY <2>1, <3>2 DEF Clear, Req, Ok, No
    <2> QED BY <2>2, <2>3
  <1> QED BY <1>1, <1>2

LEMMA ClearAppend ==
    ASSUME NEW q \in Seq(Int), NEW n \in Nat, NEW x \in 1 .. n,
           NEW S \in SUBSET {Req, Ok, No}, Clear(q, S)
    PROVE  Clear(Append(q, x), S)
  <1>0. x \notin S
    BY DEF Req, Ok, No
  <1>1. CASE q = <<>>
    BY <1>0, <1>1 DEF Clear
  <1>2. CASE q # <<>>
    <2>1. Head(Append(q, x)) = Head(q)
      BY <1>2
    <2> QED BY <1>2, <2>1 DEF Clear
  <1> QED BY <1>1, <1>2

-----------------------------------------------------------------------------
(* One direction of the tunnel *)

W(l) == IF l = "write" THEN 1 ELSE 0

\* A direction, from its receiver back to its sender: the receiver has got
\* chunk n and its end a takes more; the hop q1 to it; the loop l1 with b1 in
\* hand; the stream q2 and its end m; the loop l2 with b2; the hop q3 and its
\* end s; the sender has sent last.  As far back as chunks can still get
\* through, they are consecutive.
Chain(n, a, q1, l1, b1, m, q2, l2, b2, s, q3, last) ==
    a = "open" =>
        /\ Consec(q1, n)
        /\ l1 = "write" => b1 = n + Len(q1) + 1
        /\ l1 # "ended" =>
              /\ Consec(q2, n + Len(q1) + W(l1))
              /\ m = "open" =>
                    /\ l2 = "write" => b2 = n + Len(q1) + W(l1) + Len(q2) + 1
                    /\ l2 # "ended" /\ s = "open" =>
                          /\ Consec(q3, n + Len(q1) + W(l1) + Len(q2) + W(l2))
                          /\ n + Len(q1) + W(l1) + Len(q2) + W(l2) + Len(q3) = last

LEMMA ChainSend ==
    ASSUME NEW n \in Nat, NEW a, NEW q1 \in Seq(Int), NEW l1, NEW b1,
           NEW m, NEW q2 \in Seq(Int), NEW l2, NEW b2,
           NEW s, NEW q3 \in Seq(Int), NEW last \in Nat,
           Chain(n, a, q1, l1, b1, m, q2, l2, b2, s, q3, last)
    PROVE  Chain(n, a, q1, l1, b1, m, q2, l2, b2, s, Append(q3, last + 1), last + 1)
  <1> DEFINE n3 == n + Len(q1) + W(l1) + Len(q2) + W(l2)
  <1>1. n3 \in Nat /\ Len(Append(q3, last + 1)) = Len(q3) + 1 /\ Len(q3) \in Nat
    BY DEF W
  <1>2. ASSUME Consec(q3, n3), n3 + Len(q3) = last
        PROVE  Consec(Append(q3, last + 1), n3) /\ n3 + Len(Append(q3, last + 1)) = last + 1
    <2> HIDE DEF n3
    <2>1. last + 1 = n3 + Len(q3) + 1 /\ last + 1 \in Int /\ n3 \in Int
      BY <1>1, <1>2
    <2>2. Consec(Append(q3, last + 1), n3)
      BY <1>2, <2>1, ConsecAppend
    <2>3. n3 + (Len(q3) + 1) = last + 1
      BY <1>1, <2>1
    <2> QED BY <1>1, <2>2, <2>3
  <1>3. CASE a = "open" /\ l1 # "ended" /\ m = "open" /\ l2 # "ended" /\ s = "open"
    <2>1. Consec(q3, n3) /\ n3 + Len(q3) = last
      BY <1>3 DEF Chain
    <2>2. Consec(Append(q3, last + 1), n3) /\ n3 + Len(Append(q3, last + 1)) = last + 1
      BY <2>1, <1>2
    <2> QED BY <1>3, <2>2 DEF Chain
  <1>4. CASE ~(a = "open" /\ l1 # "ended" /\ m = "open" /\ l2 # "ended" /\ s = "open")
    BY <1>4 DEF Chain
  <1> QED BY <1>3, <1>4

LEMMA ChainRead2 ==
    ASSUME NEW n \in Nat, NEW a, NEW q1 \in Seq(Int), NEW l1, NEW b1,
           NEW m, NEW q2 \in Seq(Int), NEW b2,
           NEW q3 \in Seq(Int), NEW last \in Nat, q3 # <<>>,
           Chain(n, a, q1, l1, b1, m, q2, "read", b2, "open", q3, last)
    PROVE  Chain(n, a, q1, l1, b1, m, q2, "write", Head(q3), "open", Tail(q3), last)
  <1> DEFINE n2 == n + Len(q1) + W(l1) + Len(q2)
  <1>1. n2 \in Nat /\ n2 + W("read") = n2 /\ n2 + W("write") = n2 + 1
        /\ Len(q3) \in Nat
    BY DEF W
  <1>2. ASSUME Consec(q3, n2), n2 + Len(q3) = last
        PROVE  /\ Head(q3) = n2 + 1 /\ Consec(Tail(q3), n2 + 1)
               /\ n2 + 1 + Len(Tail(q3)) = last
    BY <1>1, <1>2, ConsecTail
  <1> HIDE DEF n2
  <1>3. CASE a = "open" /\ l1 # "ended" /\ m = "open"
    <2>1. Consec(q3, n2) /\ n2 + Len(q3) = last
      BY <1>1, <1>3 DEF Chain, n2
    <2> QED BY <1>1, <1>2, <1>3, <2>1 DEF Chain, n2
  <1>4. CASE ~(a = "open" /\ l1 # "ended" /\ m = "open")
    BY <1>4 DEF Chain
  <1> QED BY <1>3, <1>4

LEMMA ChainWrite2 ==
    ASSUME NEW n \in Nat, NEW a, NEW q1 \in Seq(Int), NEW l1, NEW b1,
           NEW q2 \in Seq(Int), NEW b2 \in Int, NEW x,
           NEW s, NEW q3 \in Seq(Int), NEW last \in Nat,
           Chain(n, a, q1, l1, b1, "open", q2, "write", b2, s, q3, last)
    PROVE  Chain(n, a, q1, l1, b1, "open", Append(q2, b2), "read", x, s, q3, last)
  BY ConsecAppend DEF Chain, W

LEMMA ChainLose2 ==
    ASSUME NEW n \in Nat, NEW a, NEW q1 \in Seq(Int), NEW l1, NEW b1,
           NEW m, NEW q2 \in Seq(Int), NEW l2, NEW b2, NEW x, NEW k,
           NEW s, NEW q3 \in Seq(Int), NEW last \in Nat,
           Chain(n, a, q1, l1, b1, m, q2, l2, b2, s, q3, last),
           k = "ended" \/ m # "open"
    PROVE  Chain(n, a, q1, l1, b1, m, q2, k, x, s, q3, last)
  BY DEF Chain

LEMMA ChainRead1 ==
    ASSUME NEW n \in Nat, NEW a, NEW q1 \in Seq(Int), NEW b1,
           NEW m, NEW q2 \in Seq(Int), NEW l2, NEW b2,
           NEW s, NEW q3 \in Seq(Int), NEW last \in Nat, q2 # <<>>,
           Chain(n, a, q1, "read", b1, m, q2, l2, b2, s, q3, last)
    PROVE  Chain(n, a, q1, "write", Head(q2), m, Tail(q2), l2, b2, s, q3, last)
  <1> DEFINE n1 == n + Len(q1)
  <1>1. /\ n1 \in Nat /\ n1 + W("read") = n1 /\ n1 + W("write") = n1 + 1
        /\ Len(q2) \in Nat
    BY DEF W
  <1>2. ASSUME Consec(q2, n1)
        PROVE  /\ Head(q2) = n1 + 1 /\ Consec(Tail(q2), n1 + 1)
               /\ n1 + 1 + Len(Tail(q2)) = n1 + Len(q2)
    BY <1>1, <1>2, ConsecTail
  <1> HIDE DEF n1
  <1>3. CASE a = "open"
    <2>1. Consec(q2, n1)
      BY <1>1, <1>3 DEF Chain, n1
    <2> QED BY <1>1, <1>2, <1>3, <2>1 DEF Chain, n1
  <1>4. CASE a # "open"
    BY <1>4 DEF Chain
  <1> QED BY <1>3, <1>4

LEMMA ChainWrite1 ==
    ASSUME NEW n \in Nat, NEW a, NEW q1 \in Seq(Int), NEW b1 \in Int, NEW x,
           NEW m, NEW q2 \in Seq(Int), NEW l2, NEW b2,
           NEW s, NEW q3 \in Seq(Int), NEW last \in Nat,
           Chain(n, a, q1, "write", b1, m, q2, l2, b2, s, q3, last)
    PROVE  Chain(n, a, Append(q1, b1), "read", x, m, q2, l2, b2, s, q3, last)
  BY ConsecAppend DEF Chain, W

LEMMA ChainLose1 ==
    ASSUME NEW n \in Nat, NEW a, NEW q1 \in Seq(Int), NEW l1, NEW b1, NEW x, NEW k,
           NEW m, NEW q2 \in Seq(Int), NEW l2, NEW b2,
           NEW s, NEW q3 \in Seq(Int), NEW last \in Nat,
           Chain(n, a, q1, l1, b1, m, q2, l2, b2, s, q3, last),
           k = "ended" \/ a # "open"
    PROVE  Chain(n, a, q1, k, x, m, q2, l2, b2, s, q3, last)
  BY DEF Chain

LEMMA ChainDeliver ==
    ASSUME NEW n \in Nat, NEW q1 \in Seq(Int), NEW l1, NEW b1,
           NEW m, NEW q2 \in Seq(Int), NEW l2, NEW b2,
           NEW s, NEW q3 \in Seq(Int), NEW last \in Nat, q1 # <<>>,
           Chain(n, "open", q1, l1, b1, m, q2, l2, b2, s, q3, last)
    PROVE  /\ Head(q1) = n + 1
           /\ Chain(n + 1, "open", Tail(q1), l1, b1, m, q2, l2, b2, s, q3, last)
  <1>1. Consec(q1, n)
    BY DEF Chain
  <1>2. /\ Head(q1) = n + 1 /\ Consec(Tail(q1), n + 1)
        /\ n + 1 + Len(Tail(q1)) = n + Len(q1)
    BY <1>1, ConsecTail
  <1> QED BY <1>2 DEF Chain

LEMMA ChainStart ==
    ASSUME NEW n \in Nat, NEW a, NEW q1 \in Seq(Int), NEW l1, NEW k1, NEW b1,
           NEW m, NEW q2 \in Seq(Int), NEW l2, NEW k2, NEW b2,
           NEW s, NEW q3 \in Seq(Int), NEW last \in Nat,
           Chain(n, a, q1, l1, b1, m, q2, l2, b2, s, q3, last),
           k1 = l1 \/ (l1 = "off" /\ k1 = "read"),
           k2 = l2 \/ (l2 = "off" /\ k2 = "read")
    PROVE  Chain(n, a, q1, k1, b1, m, q2, k2, b2, s, q3, last)
  BY DEF Chain, W

\* An end that closes stays closed; what is lost is behind a closed end.
LEMMA ChainClose ==
    ASSUME NEW n \in Nat, NEW a, NEW c, NEW q1 \in Seq(Int), NEW r1, NEW l1, NEW b1,
           NEW m, NEW d, NEW q2 \in Seq(Int), NEW r2, NEW l2, NEW b2,
           NEW s, NEW e, NEW q3 \in Seq(Int), NEW r3, NEW last \in Nat,
           Chain(n, a, q1, l1, b1, m, q2, l2, b2, s, q3, last),
           (c = a /\ r1 = q1) \/ c = "shut",
           (d = m /\ r2 = q2) \/ (d = "shut" /\ r2 \in {q2, <<>>}),
           (e = s /\ r3 = q3) \/ e = "shut"
    PROVE  Chain(n, c, r1, l1, b1, d, r2, l2, b2, e, r3, last)
  BY EmptyQueue DEF Chain, W

-----------------------------------------------------------------------------
(* The two directions *)

PeerEnd   == IF open["peer"] \/ loop["sUp"] = "off" THEN "open" ELSE "shut"
ServerEnd == IF open["streamS"] \/ sv = "none" THEN "open" ELSE "shut"
LocalEnd  == IF open["local"] THEN "open" ELSE "shut"

AppEnd    == IF open["app"] THEN "open" ELSE "shut"
ClientEnd == IF open["streamC"] \/ cl = "open" THEN "open" ELSE "shut"
TargetEnd == IF open["target"] \/ loop["sDown"] = "off" THEN "open" ELSE "shut"

UpStream   == Strip(hop["CS"], {Req})
DownStream == Strip(hop["SC"], {Ok, No})

Up == Chain(gotUp, PeerEnd, hop["ST"], loop["sUp"], buf["sUp"],
            ServerEnd, UpStream, loop["cUp"], buf["cUp"],
            LocalEnd, hop["LC"], sentUp)

Down == Chain(gotDown, AppEnd, hop["CL"], loop["cDown"], buf["cDown"],
              ClientEnd, DownStream, loop["sDown"], buf["sDown"],
              TargetEnd, hop["TS"], sentDown)

\* Only what was sent is on its way, and a loop that writes holds a chunk.
Chunks ==
    /\ Within(hop["LC"], sentUp) /\ Within(UpStream, sentUp)
    /\ Within(hop["ST"], sentUp)
    /\ Within(hop["TS"], sentDown) /\ Within(DownStream, sentDown)
    /\ Within(hop["CL"], sentDown)
    /\ \A l \in {"cUp", "sUp"} : loop[l] = "write" => buf[l] \in 1 .. sentUp
    /\ \A l \in {"cDown", "sDown"} : loop[l] = "write" => buf[l] \in 1 .. sentDown

\* How far the handshake is: which messages the stream can hold, and which
\* loops can run, before the two handlers have come to copying.
Handshake ==
    /\ cl \in {"open", "request"} => sv = "none" /\ hop["CS"] = <<>>
    /\ cl \in {"open", "request", "await"} =>
          loop["cUp"] = "off" /\ loop["cDown"] = "off"
    /\ sv \in {"none", "await"} =>
          /\ hop["SC"] = <<>> /\ hop["CS"] \in {<<>>, <<Req>>}
          /\ loop["cUp"] = "off" /\ loop["cDown"] = "off"
    /\ sv \in {"none", "await", "dial"} =>
          loop["sUp"] = "off" /\ loop["sDown"] = "off"
    /\ loop["sUp"] = "off" <=> loop["sDown"] = "off"
    /\ sv = "dial" \/ loop["sUp"] # "off" =>
          Clear(hop["CS"], {Req})
    /\ loop["cDown"] # "off" => Clear(hop["SC"], {Ok, No})
    /\ sv = "dial" => Allowed
    /\ sv = "pipe" \/ watch["server"] \/ open["peer"] => loop["sUp"] # "off"
    /\ watch["client"] => loop["cUp"] # "off"

TunnelInv == TypeOK /\ Handshake /\ Chunks /\ Up /\ Down
-----------------------------------------------------------------------------
(* Types *)

LEMMA Geometry ==
    /\ \A l \in Loops : /\ Src[l] \in Hops /\ Dst[l] \in Hops
                        /\ SrcEnd[l] \in Ends /\ SrcPeer[l] \in Ends
                        /\ DstEnd[l] \in Ends /\ DstPeer[l] \in Ends
                        /\ ProcOf(l) \in Procs
    /\ Hops = {"LC", "CS", "ST", "TS", "SC", "CL"}
    /\ Req \in Items /\ Ok \in Items /\ No \in Items
  BY DEF Loops, Hops, Ends, Procs, Src, Dst, SrcEnd, SrcPeer, DstEnd, DstPeer,
         ProcOf, Items

LEMMA ItemFacts ==
    ASSUME TypeOK
    PROVE  /\ MaxUp(case) \in Nat /\ MaxDown \in Nat
           /\ Items \subseteq Int
           /\ 1 .. sentUp \subseteq Items /\ 1 .. sentDown \subseteq Items
           /\ \A h \in Hops : hop[h] \in Seq(Items) /\ hop[h] \in Seq(Int)
           /\ sentUp \in Nat /\ sentDown \in Nat /\ gotUp \in Nat /\ gotDown \in Nat
           /\ UpStream \in Seq(Int) /\ DownStream \in Seq(Int)
  <1>1. MaxUp(case) \in Nat /\ MaxDown \in Nat
    BY BoundAssumption DEF TypeOK
  <1>2. Items \subseteq Int
    BY <1>1 DEF Items, Req, Ok, No
  <1>3. sentUp \in Nat /\ sentDown \in Nat /\ gotUp \in Nat /\ gotDown \in Nat
    BY <1>1 DEF TypeOK
  <1>4. 1 .. sentUp \subseteq Items /\ 1 .. sentDown \subseteq Items
    BY <1>1 DEF TypeOK, Items
  <1>5. \A h \in Hops : hop[h] \in Seq(Items) /\ hop[h] \in Seq(Int)
    BY <1>2, SeqMonotonic DEF TypeOK
  <1>6. UpStream \in Seq(Int) /\ DownStream \in Seq(Int)
    BY <1>5, StripSeq, Geometry DEF UpStream, DownStream
  <1> QED BY <1>1, <1>2, <1>3, <1>4, <1>5, <1>6

LEMMA CloseTypes ==
    ASSUME TypeOK, NEW es, Close(es)
    PROVE  open' \in [Ends -> BOOLEAN] /\ hop' \in [Hops -> Seq(Items)]
  <1>1. open' \in [Ends -> BOOLEAN]
    BY Zenon DEF Close
  <1>2. \A h \in Hops : hop[h] \in Seq(Items) /\ <<>> \in Seq(Items)
    BY DEF TypeOK
  <1>3. hop' = [h \in Hops |->
                 IF ReadAt[h] \in es /\ ~(case.quic /\ ReadAt[h] \in Streams)
                 THEN <<>> ELSE hop[h]]
    BY Zenon DEF Close
  <1> QED BY <1>1, <1>2, <1>3

LEMMA PutTypes ==
    ASSUME TypeOK, NEW h \in Hops, NEW m \in Items, Put(h, m)
    PROVE  hop' \in [Hops -> Seq(Items)]
  BY DEF TypeOK, Put

LEMMA TypeInit == Init => TypeOK
  <1> SUFFICES ASSUME Init PROVE TypeOK
    OBVIOUS
  <1>1. open \in [Ends -> BOOLEAN]
    BY DEF Init
  <1>2. case \in Cases /\ MaxUp(case) \in Nat /\ MaxDown \in Nat
    BY BoundAssumption DEF Init
  <1>3. hop \in [Hops -> Seq(Items)]
    BY DEF Init
  <1>4. /\ loop \in [Loops -> {"off", "read", "write", "ended"}]
        /\ buf \in [Loops -> Items \cup {0}]
        /\ done \in [Procs -> 0 .. 2]
    BY DEF Init
  <1>5. watch \in [Procs -> BOOLEAN] /\ broken \in BOOLEAN
    BY Zenon DEF Init
  <1> QED BY <1>1, <1>2, <1>3, <1>4, <1>5 DEF Init, TypeOK

LEMMA TypeStep == TypeOK /\ Chunks /\ [Next]_vars => TypeOK'
  <1> SUFFICES ASSUME TypeOK, Chunks, [Next]_vars PROVE TypeOK'
    OBVIOUS
  <1> USE Geometry
  <1>a. MaxUp(case) \in Nat /\ MaxDown \in Nat
    BY ItemFacts
  <1>b. ASSUME case' = case PROVE Items' = Items
    BY <1>b DEF Items
  <1>c. ASSUME NEW e \in Ends PROVE [open EXCEPT ![e] = TRUE] \in [Ends -> BOOLEAN]
    BY Zenon DEF TypeOK
  <1>1. CASE ClientOpens
    <2>1. CASE ClientReturns
      BY <1>1, <2>1, <1>b, CloseTypes
         DEF ClientOpens, ClientReturns, TypeOK, pipeVars, appVars
    <2>2. CASE cl' = "request" /\ open' = [open EXCEPT !["streamC"] = TRUE] /\ hop' = hop
      BY <1>1, <2>2, <1>b, <1>c DEF ClientOpens, TypeOK, pipeVars, appVars, Ends
    <2> QED BY <1>1, <2>1, <2>2 DEF ClientOpens
  <1>2. CASE ClientRequests
    <2>1. CASE ClientReturns
      BY <1>2, <2>1, <1>b, CloseTypes
         DEF ClientRequests, ClientReturns, TypeOK, pipeVars, appVars
    <2>2. CASE Put("CS", Req) /\ cl' = "await" /\ open' = open
      BY <1>2, <2>2, <1>b, PutTypes DEF ClientRequests, TypeOK, pipeVars, appVars
    <2> QED BY <1>2, <2>1, <2>2 DEF ClientRequests
  <1>3. CASE ClientAnswered
    <2>1. CASE ClientReturns /\ UNCHANGED pipeVars
      BY <1>3, <2>1, <1>b, CloseTypes
         DEF ClientAnswered, ClientReturns, TypeOK, pipeVars, appVars
    <2>2. CASE ~(ClientReturns /\ UNCHANGED pipeVars)
      <3>1. /\ cl' = "pipe" /\ StartLoops("client") /\ open' = open
            /\ hop' = [hop EXCEPT !["SC"] = Tail(@)] /\ hop["SC"] # <<>>
            /\ UNCHANGED <<case, sv, broken, appVars>>
        BY <1>3, <2>2 DEF ClientAnswered
      <3>2. Tail(hop["SC"]) \in Seq(Items)
        BY <3>1 DEF TypeOK
      <3> QED BY <3>1, <3>2, <1>b DEF StartLoops, TypeOK, appVars, Procs
    <2> QED BY <2>1, <2>2
  <1>4. CASE ClientGivesUp
    BY <1>4, <1>b, CloseTypes DEF ClientGivesUp, ClientReturns, TypeOK, pipeVars, appVars
  <1>5. CASE ServerAccepts
    <2>1. "streamS" \in Ends
      BY DEF Ends
    <2>2. open' = open \/ open' = [open EXCEPT !["streamS"] = TRUE]
      BY <1>5 DEF ServerAccepts
    <2>3. open' \in [Ends -> BOOLEAN]
      BY <2>1, <2>2, <1>c, Zenon DEF TypeOK
    <2>4. broken' \in BOOLEAN
      BY <1>5 DEF ServerAccepts, TypeOK
    <2> QED BY <1>5, <2>3, <2>4, <1>b DEF ServerAccepts, TypeOK, pipeVars, appVars
  <1>6. CASE ServerAnswers
    <2>1. PICK m \in {Ok, No} :
            hop' = [hop EXCEPT !["CS"] = Tail(@), !["SC"] = Append(@, m)]
      BY <1>6 DEF ServerAnswers, RequestRest
    <2>2. Tail(hop["CS"]) \in Seq(Items) /\ Append(hop["SC"], m) \in Seq(Items)
      BY <1>6 DEF TypeOK, ServerAnswers
    <2>3. hop' \in [Hops -> Seq(Items)]
      BY <2>1, <2>2 DEF TypeOK
    <2> QED BY <1>6, <2>3, <1>b DEF ServerAnswers, TypeOK, pipeVars, appVars
  <1>7. CASE ServerGivesUp \/ DialFails
    BY <1>7, <1>b DEF ServerGivesUp, DialFails, TypeOK, pipeVars, appVars
  <1>8. CASE ServerDials
    BY <1>8, <1>b DEF ServerDials, StartLoops, TypeOK, appVars, Procs, Ends
  <1>9. ASSUME NEW l \in Loops, LoopReads(l) PROVE TypeOK'
    <2>1. Head(hop[Src[l]]) \in Items /\ Tail(hop[Src[l]]) \in Seq(Items)
      BY <1>9 DEF LoopReads, TypeOK
    <2> QED BY <1>9, <2>1, <1>b DEF LoopReads, TypeOK, appVars
  <1>10. ASSUME NEW l \in Loops, LoopReadFails(l) \/ LoopWriteFails(l)
         PROVE TypeOK'
    <2>1. LoopEnds(l)
      BY <1>10 DEF LoopReadFails, LoopWriteFails
    <2>2. done[ProcOf(l)] + 1 \in 0 .. 2
      <3>1. done[ProcOf(l)] \in 0 .. 2 /\ done[ProcOf(l)] < 2
        BY <2>1 DEF LoopEnds, TypeOK
      <3> QED BY <3>1
    <2>3. done' \in [Procs -> 0 .. 2]
      BY <2>1, <2>2 DEF LoopEnds, TypeOK
    <2> QED BY <2>1, <2>3, <1>b DEF LoopEnds, TypeOK, appVars
  <1>11. ASSUME NEW l \in Loops, LoopWrites(l) PROVE TypeOK'
    <2>1. buf[l] \in Items
      BY <1>11, ItemFacts DEF Chunks, Loops, LoopWrites
    <2>2. hop' \in [Hops -> Seq(Items)]
      BY <1>11, <2>1, PutTypes DEF LoopWrites, TypeOK
    <2> QED BY <1>11, <2>2, <1>b DEF LoopWrites, TypeOK, appVars
  <1>12. ASSUME NEW p \in Procs, PipeReturns(p) PROVE TypeOK'
    <2>1. done[p] - 1 \in 0 .. 2
      BY <1>12 DEF PipeReturns, TypeOK
    <2>2. done' \in [Procs -> 0 .. 2] /\ watch' \in [Procs -> BOOLEAN]
      BY <1>12, <2>1 DEF PipeReturns, TypeOK
    <2>3. open' \in [Ends -> BOOLEAN] /\ hop' \in [Hops -> Seq(Items)]
      BY <1>12, CloseTypes DEF PipeReturns
    <2> QED BY <1>12, <2>2, <2>3, <1>b DEF PipeReturns, SetPC, TypeOK, appVars
  <1>13. ASSUME NEW p \in Procs, WatcherFires(p) PROVE TypeOK'
    BY <1>13, <1>b, CloseTypes DEF WatcherFires, TypeOK, appVars
  <1>14. CASE AppSends
    <2>1. sentUp + 1 \in Items /\ sentUp + 1 \in 0 .. MaxUp(case)
      BY <1>14, <1>a DEF AppSends, TypeOK, Items
    <2>2. hop' \in [Hops -> Seq(Items)]
      BY <1>14, <2>1, PutTypes DEF AppSends
    <2> QED BY <1>14, <2>1, <2>2, <1>b DEF AppSends, TypeOK, pipeVars
  <1>15. CASE PeerSends
    <2>1. sentDown + 1 \in Items /\ sentDown + 1 \in 0 .. MaxDown
      BY <1>15, <1>a DEF PeerSends, TypeOK, Items
    <2>2. hop' \in [Hops -> Seq(Items)]
      BY <1>15, <2>1, PutTypes DEF PeerSends
    <2> QED BY <1>15, <2>1, <2>2, <1>b DEF PeerSends, TypeOK, pipeVars
  <1>16. CASE AppReceives
    <2>1. Head(hop["CL"]) \in 1 .. sentDown /\ Tail(hop["CL"]) \in Seq(Items)
      <3>1. /\ hop["CL"] # <<>> /\ Within(hop["CL"], sentDown)
            /\ hop["CL"] \in Seq(Int) /\ hop["CL"] \in Seq(Items) /\ sentDown \in Nat
        BY <1>16, ItemFacts DEF AppReceives, Chunks
      <3>2. Head(hop["CL"]) \in 1 .. sentDown
        BY <3>1, WithinTail
      <3>3. Tail(hop["CL"]) \in Seq(Items)
        BY <3>1
      <3> QED BY <3>2, <3>3
    <2>2. Head(hop["CL"]) \in 0 .. MaxDown
      BY <2>1, <1>a DEF TypeOK
    <2> QED BY <1>16, <2>1, <2>2, <1>b DEF AppReceives, TypeOK, pipeVars
  <1>17. CASE PeerReceives
    <2>1. Head(hop["ST"]) \in 1 .. sentUp /\ Tail(hop["ST"]) \in Seq(Items)
      <3>1. /\ hop["ST"] # <<>> /\ Within(hop["ST"], sentUp)
            /\ hop["ST"] \in Seq(Int) /\ hop["ST"] \in Seq(Items) /\ sentUp \in Nat
        BY <1>17, ItemFacts DEF PeerReceives, Chunks
      <3>2. Head(hop["ST"]) \in 1 .. sentUp
        BY <3>1, WithinTail
      <3>3. Tail(hop["ST"]) \in Seq(Items)
        BY <3>1
      <3> QED BY <3>2, <3>3
    <2>2. Head(hop["ST"]) \in 0 .. MaxUp(case)
      BY <2>1, <1>a DEF TypeOK
    <2> QED BY <1>17, <2>1, <2>2, <1>b DEF PeerReceives, TypeOK, pipeVars
  <1>18. ASSUME NEW e \in Ends, AppCloses(e) PROVE TypeOK'
    BY <1>18, <1>b, CloseTypes DEF AppCloses, TypeOK, pipeVars, appVars
  <1>19. CASE StreamBreaks
    BY <1>19, <1>b DEF StreamBreaks, TypeOK, pipeVars, appVars
  <1>20. CASE UNCHANGED vars
    BY <1>20, <1>b DEF vars, TypeOK, pipeVars, appVars
  <1> QED BY <1>1, <1>2, <1>3, <1>4, <1>5, <1>6, <1>7, <1>8, <1>9, <1>10, <1>11,
             <1>12, <1>13, <1>14, <1>15, <1>16, <1>17, <1>18, <1>19, <1>20
          DEF Next, Run, Environment, ClientStep, ServerStep, LoopStep
-----------------------------------------------------------------------------
(* The handshake *)

LEMMA CloseEffect ==
    ASSUME TypeOK, NEW es, Close(es)
    PROVE  /\ \A e \in Ends : open'[e] => open[e] /\ e \notin es
           /\ \A e \in Ends : e \notin es => (open'[e] <=> open[e])
           /\ \A h \in Hops : hop'[h] = hop[h] \/ (hop'[h] = <<>> /\ ReadAt[h] \in es)
  <1>1. open' = [e \in Ends |-> open[e] /\ e \notin es]
    BY Zenon DEF Close
  <1>2. hop' = [h \in Hops |->
                 IF ReadAt[h] \in es /\ ~(case.quic /\ ReadAt[h] \in Streams)
                 THEN <<>> ELSE hop[h]]
    BY Zenon DEF Close
  <1>3. \A e \in Ends : open'[e] => open[e] /\ e \notin es
    BY <1>1
  <1>4. \A e \in Ends : e \notin es => (open'[e] <=> open[e])
    BY <1>1
  <1>5. \A h \in Hops : hop'[h] = hop[h] \/ (hop'[h] = <<>> /\ ReadAt[h] \in es)
    BY <1>2
  <1> QED BY <1>3, <1>4, <1>5

\* The handshake does not notice that connections close.
LEMMA HandshakeClose ==
    ASSUME TypeOK, Handshake, NEW es, Close(es), UNCHANGED <<case, loop>>,
           cl' = cl \/ cl' = "done", sv' = sv \/ (sv = "pipe" /\ sv' = "done"),
           watch'["server"] => watch["server"], watch'["client"] => watch["client"]
    PROVE  Handshake'
  <1>1. /\ hop'["CS"] \in {hop["CS"], <<>>} /\ hop'["SC"] \in {hop["SC"], <<>>}
        /\ open'["peer"] => open["peer"]
    BY CloseEffect DEF Hops, Ends
  <1>2. Allowed' = Allowed
    BY DEF Allowed
  <1>3. /\ hop["CS"] = <<>> => hop'["CS"] = <<>>
        /\ hop["SC"] = <<>> => hop'["SC"] = <<>>
        /\ hop["CS"] \in {<<>>, <<Req>>} => hop'["CS"] \in {<<>>, <<Req>>}
    BY <1>1
  <1>4. /\ Clear(hop["CS"], {Req}) => Clear(hop'["CS"], {Req})
        /\ Clear(hop["SC"], {Ok, No}) => Clear(hop'["SC"], {Ok, No})
    BY <1>1, ClearEmpty
  <1>5. open'["peer"] => open["peer"]
    BY <1>1
  <1> QED BY <1>2, <1>3, <1>4, <1>5 DEF Handshake

LEMMA HandshakeInit == Init => Handshake
  BY ClearEmpty DEF Init, Handshake, Loops, Hops, Ends, Procs

LEMMA HandshakeStep == TypeOK /\ Chunks /\ Handshake /\ [Next]_vars => Handshake'
  <1> SUFFICES ASSUME TypeOK, Chunks, Handshake, [Next]_vars PROVE Handshake'
    OBVIOUS
  <1> USE Geometry
  <1>a. ASSUME case' = case PROVE Allowed' = Allowed
    BY <1>a DEF Allowed
  <1>b. ASSUME UNCHANGED <<case, cl, sv, loop, watch>>,
               hop'["CS"] = hop["CS"], hop'["SC"] = hop["SC"],
               open'["peer"] => open["peer"]
        PROVE  Handshake'
    BY <1>a, <1>b DEF Handshake
  <1>c. ASSUME UNCHANGED <<case, cl, sv, open, watch>>,
               \A k \in Loops : loop'[k] = "off" <=> loop[k] = "off",
               \/ hop'["CS"] = hop["CS"]
               \/ /\ sv \notin {"none", "await"}
                  /\ Clear(hop["CS"], {Req}) => Clear(hop'["CS"], {Req}),
               \/ hop'["SC"] = hop["SC"]
               \/ /\ sv \notin {"none", "await"}
                  /\ Clear(hop["SC"], {Ok, No}) => Clear(hop'["SC"], {Ok, No})
        PROVE  Handshake'
    <2>1. \A k \in {"cUp", "cDown", "sUp", "sDown"} : loop'[k] = "off" <=> loop[k] = "off"
      BY <1>c DEF Loops
    <2> QED BY <1>a, <1>c, <2>1 DEF Handshake
  <1>1. CASE ClientOpens
    <2>1. CASE ClientReturns
      BY <1>1, <2>1, HandshakeClose DEF ClientOpens, ClientReturns, pipeVars
    <2>2. CASE cl' = "request" /\ open' = [open EXCEPT !["streamC"] = TRUE] /\ hop' = hop
      <3>1. open'["peer"] = open["peer"]
        BY <2>2 DEF TypeOK, Ends
      <3> QED BY <1>1, <2>2, <3>1, <1>a DEF ClientOpens, Handshake, pipeVars
    <2> QED BY <1>1, <2>1, <2>2 DEF ClientOpens
  <1>2. CASE ClientRequests
    <2>1. CASE ClientReturns
      BY <1>2, <2>1, HandshakeClose DEF ClientRequests, ClientReturns, pipeVars
    <2>2. CASE Put("CS", Req) /\ cl' = "await" /\ open' = open
      <3>1. hop'["CS"] = <<Req>> /\ hop'["SC"] = hop["SC"]
        <4>1. hop' = [hop EXCEPT !["CS"] = Append(@, Req)] /\ hop["CS"] = <<>>
          BY <1>2, <2>2 DEF ClientRequests, Handshake, Put
        <4> QED BY <4>1 DEF TypeOK
      <3> QED BY <1>2, <2>2, <3>1, <1>a DEF ClientRequests, Handshake, pipeVars
    <2> QED BY <1>2, <2>1, <2>2 DEF ClientRequests
  <1>3. CASE ClientAnswered
    <2>1. CASE ClientReturns /\ UNCHANGED pipeVars
      BY <1>3, <2>1, HandshakeClose DEF ClientAnswered, ClientReturns, pipeVars
    <2>2. CASE ~(ClientReturns /\ UNCHANGED pipeVars)
      <3>1. /\ cl = "await" /\ cl' = "pipe" /\ StartLoops("client") /\ open' = open
            /\ hop' = [hop EXCEPT !["SC"] = Tail(@)] /\ hop["SC"] # <<>>
            /\ UNCHANGED <<case, sv, broken, appVars>>
        BY <1>3, <2>2 DEF ClientAnswered
      <3>2. /\ loop'["cUp"] = "read" /\ loop'["cDown"] = "read"
            /\ loop'["sUp"] = loop["sUp"] /\ loop'["sDown"] = loop["sDown"]
            /\ watch'["server"] = watch["server"]
        BY <3>1 DEF StartLoops, ProcOf, Loops, TypeOK, Procs
      <3>3. hop'["SC"] = Tail(hop["SC"]) /\ hop'["CS"] = hop["CS"]
        BY <3>1 DEF TypeOK
      <3>6. Clear(Tail(hop["SC"]), {Ok, No})
        <4>1. /\ hop["SC"] \in Seq(Int) /\ sentDown \in Nat
              /\ Within(Strip(hop["SC"], {Ok, No}), sentDown)
          BY ItemFacts DEF Chunks, DownStream
        <4> QED BY <3>1, <4>1, ClearTail
      <3> QED BY <3>1, <3>2, <3>3, <3>6, <1>a DEF Handshake
    <2> QED BY <2>1, <2>2
  <1>4. CASE ClientGivesUp
    BY <1>4, HandshakeClose DEF ClientGivesUp, ClientReturns, pipeVars
  <1>5. CASE ServerAccepts
    <2>1. open'["peer"] = open["peer"]
      BY <1>5 DEF ServerAccepts, TypeOK, Ends
    <2> QED BY <1>5, <2>1, <1>a DEF ServerAccepts, Handshake, pipeVars
  <1>6. CASE ServerAnswers
    <2>1. PICK m \in {Ok, No} :
            hop' = [hop EXCEPT !["CS"] = Tail(@), !["SC"] = Append(@, m)]
      BY <1>6 DEF ServerAnswers, RequestRest
    <2>2. hop["CS"] = <<Req>> /\ hop'["CS"] = Tail(hop["CS"])
      BY <1>6, <2>1 DEF ServerAnswers, Handshake, TypeOK
    <2>3. hop'["CS"] = <<>>
      BY <2>2
    <2>4. sv' = "dial" => Allowed
      <3>1. case.password \in {"none", "missing", "wrong", "right"}
        BY BoundAssumption DEF TypeOK, Case
      <3> QED BY <1>6, <3>1 DEF ServerAnswers, ServiceAllowed, Allowed
    <2> QED BY <1>6, <2>3, <2>4, <1>a, ClearEmpty DEF ServerAnswers, Handshake, pipeVars
  <1>7. CASE ServerGivesUp \/ DialFails
    BY <1>7, <1>a DEF ServerGivesUp, DialFails, Handshake, pipeVars
  <1>8. CASE ServerDials
    <2>1. /\ loop'["sUp"] = "read" /\ loop'["sDown"] = "read"
          /\ loop'["cUp"] = loop["cUp"] /\ loop'["cDown"] = loop["cDown"]
          /\ watch'["client"] = watch["client"]
      BY <1>8 DEF ServerDials, StartLoops, ProcOf, Loops, TypeOK, Procs
    <2> QED BY <1>8, <2>1, <1>a DEF ServerDials, Handshake
  <1>9. ASSUME NEW l \in Loops, LoopReads(l) PROVE Handshake'
    <2>1. /\ loop[l] = "read" /\ hop[Src[l]] # <<>>
          /\ hop' = [hop EXCEPT ![Src[l]] = Tail(@)]
          /\ loop' = [loop EXCEPT ![l] = "write"]
          /\ UNCHANGED <<case, cl, sv, open, watch>>
      BY <1>9 DEF LoopReads
    <2>2. \A k \in Loops : loop'[k] = "off" <=> loop[k] = "off"
      BY <2>1 DEF TypeOK
    <2>3. CASE l = "sUp"
      <3>1. hop'["CS"] = Tail(hop["CS"]) /\ hop'["SC"] = hop["SC"] /\ hop["CS"] # <<>>
        BY <2>1, <2>3 DEF Src, TypeOK
      <3>2. sv \notin {"none", "await"}
        BY <2>1, <2>3 DEF Handshake
      <3>3. /\ hop["CS"] \in Seq(Int) /\ sentUp \in Nat
            /\ Within(Strip(hop["CS"], {Req}), sentUp)
        BY ItemFacts DEF Chunks, UpStream
      <3>4. Clear(Tail(hop["CS"]), {Req})
        BY <3>1, <3>3, ClearTail
      <3> QED BY <2>1, <2>2, <3>1, <3>2, <3>4, <1>c
    <2>4. CASE l = "cDown"
      <3>1. hop'["SC"] = Tail(hop["SC"]) /\ hop'["CS"] = hop["CS"] /\ hop["SC"] # <<>>
        BY <2>1, <2>4 DEF Src, TypeOK
      <3>2. sv \notin {"none", "await"}
        BY <2>1, <2>4 DEF Handshake
      <3>3. /\ hop["SC"] \in Seq(Int) /\ sentDown \in Nat
            /\ Within(Strip(hop["SC"], {Ok, No}), sentDown)
        BY ItemFacts DEF Chunks, DownStream
      <3>4. Clear(Tail(hop["SC"]), {Ok, No})
        BY <3>1, <3>3, ClearTail
      <3> QED BY <2>1, <2>2, <3>1, <3>2, <3>4, <1>c
    <2>5. CASE l \in {"cUp", "sDown"}
      <3>1. hop'["SC"] = hop["SC"] /\ hop'["CS"] = hop["CS"]
        <4>1. Src[l] \notin {"CS", "SC"}
          BY <2>5 DEF Src
        <4> QED BY <2>1, <4>1 DEF TypeOK
      <3> QED BY <2>1, <2>2, <3>1, <1>c
    <2> QED BY <2>3, <2>4, <2>5 DEF Loops
  <1>10. ASSUME NEW l \in Loops, LoopReadFails(l) \/ LoopWriteFails(l)
         PROVE Handshake'
    <2>1. LoopEnds(l) /\ loop[l] # "off"
      BY <1>10 DEF LoopReadFails, LoopWriteFails
    <2>2. \A k \in Loops : loop'[k] = "off" <=> loop[k] = "off"
      BY <2>1 DEF LoopEnds, TypeOK
    <2> QED BY <2>1, <2>2, <1>c DEF LoopEnds
  <1>11. ASSUME NEW l \in Loops, LoopWrites(l) PROVE Handshake'
    <2>1. /\ loop[l] = "write" /\ loop' = [loop EXCEPT ![l] = "read"]
          /\ hop' = hop \/ hop' = [hop EXCEPT ![Dst[l]] = Append(@, buf[l])]
          /\ UNCHANGED <<case, cl, sv, open, watch>>
      BY <1>11 DEF LoopWrites, Put
    <2>2. \A k \in Loops : loop'[k] = "off" <=> loop[k] = "off"
      BY <2>1 DEF TypeOK
    <2>3. CASE l = "cUp" /\ hop' # hop
      <3>1. hop'["CS"] = Append(hop["CS"], buf["cUp"]) /\ hop'["SC"] = hop["SC"]
        BY <2>1, <2>3 DEF Dst, TypeOK
      <3>2. sv \notin {"none", "await"}
        BY <2>1, <2>3 DEF Handshake
      <3>3. hop["CS"] \in Seq(Int) /\ sentUp \in Nat /\ buf["cUp"] \in 1 .. sentUp
        BY <2>1, <2>3, ItemFacts DEF Chunks
      <3>4. ASSUME Clear(hop["CS"], {Req}) PROVE Clear(hop'["CS"], {Req})
        BY <3>1, <3>3, <3>4, ClearAppend
      <3> QED BY <2>1, <2>2, <3>1, <3>2, <3>4, <1>c
    <2>4. CASE l = "sDown" /\ hop' # hop
      <3>1. hop'["SC"] = Append(hop["SC"], buf["sDown"]) /\ hop'["CS"] = hop["CS"]
        BY <2>1, <2>4 DEF Dst, TypeOK
      <3>2. sv \notin {"none", "await"}
        BY <2>1, <2>4 DEF Handshake
      <3>3. hop["SC"] \in Seq(Int) /\ sentDown \in Nat /\ buf["sDown"] \in 1 .. sentDown
        BY <2>1, <2>4, ItemFacts DEF Chunks
      <3>4. ASSUME Clear(hop["SC"], {Ok, No}) PROVE Clear(hop'["SC"], {Ok, No})
        BY <3>1, <3>3, <3>4, ClearAppend
      <3> QED BY <2>1, <2>2, <3>1, <3>2, <3>4, <1>c
    <2>5. CASE l \in {"sUp", "cDown"} \/ hop' = hop
      <3>1. hop'["SC"] = hop["SC"] /\ hop'["CS"] = hop["CS"]
        <4>1. hop' # hop => Dst[l] \notin {"CS", "SC"}
          BY <2>5 DEF Dst
        <4> QED BY <2>1, <4>1 DEF TypeOK
      <3> QED BY <2>1, <2>2, <3>1, <1>c
    <2> QED BY <2>3, <2>4, <2>5 DEF Loops
  <1>12. ASSUME NEW p \in Procs, PipeReturns(p) PROVE Handshake'
    <2>1. /\ watch'["server"] => watch["server"]
          /\ watch'["client"] => watch["client"]
      BY <1>12 DEF PipeReturns, TypeOK, Procs
    <2> QED BY <1>12, <2>1, HandshakeClose DEF PipeReturns, SetPC, PC
  <1>13. ASSUME NEW p \in Procs, WatcherFires(p) PROVE Handshake'
    <2>1. /\ watch'["server"] => watch["server"]
          /\ watch'["client"] => watch["client"]
      BY <1>13 DEF WatcherFires, TypeOK, Procs
    <2> QED BY <1>13, <2>1, HandshakeClose DEF WatcherFires
  <1>14. CASE AppSends \/ PeerSends \/ AppReceives \/ PeerReceives
    <2>1. hop'["CS"] = hop["CS"] /\ hop'["SC"] = hop["SC"]
      BY <1>14 DEF AppSends, PeerSends, AppReceives, PeerReceives, Put, TypeOK
    <2> QED BY <1>14, <2>1, <1>b
            DEF AppSends, PeerSends, AppReceives, PeerReceives, pipeVars
  <1>18. ASSUME NEW e \in Ends, AppCloses(e) PROVE Handshake'
    BY <1>18, HandshakeClose DEF AppCloses, pipeVars
  <1>19. CASE StreamBreaks
    BY <1>19, <1>b DEF StreamBreaks, pipeVars
  <1>20. CASE UNCHANGED vars
    BY <1>20, <1>b DEF vars, pipeVars
  <1> QED BY <1>1, <1>2, <1>3, <1>4, <1>5, <1>6, <1>7, <1>8, <1>9, <1>10, <1>11,
             <1>12, <1>13, <1>14, <1>18, <1>19, <1>20
          DEF Next, Run, Environment, ClientStep, ServerStep, LoopStep
-----------------------------------------------------------------------------
(* What the steps do to the two streams and the four other hops *)

LEMMA SendEffect ==
    ASSUME TypeOK, NEW h \in {"LC", "TS"}, NEW x, Put(h, x)
    PROVE  /\ hop'[h] = Append(hop[h], x)
           /\ \A g \in Hops \ {h} : hop'[g] = hop[g]
           /\ UpStream' = UpStream /\ DownStream' = DownStream
  <1>1. hop'[h] = Append(hop[h], x) /\ \A g \in Hops \ {h} : hop'[g] = hop[g]
    BY DEF Put, TypeOK, Hops
  <1>2. hop'["CS"] = hop["CS"] /\ hop'["SC"] = hop["SC"]
    BY <1>1 DEF Hops
  <1> QED BY <1>1, <1>2 DEF UpStream, DownStream

LEMMA ReceiveEffect ==
    ASSUME TypeOK, NEW h \in {"ST", "CL"}, hop' = [hop EXCEPT ![h] = Tail(@)]
    PROVE  /\ hop'[h] = Tail(hop[h])
           /\ \A g \in Hops \ {h} : hop'[g] = hop[g]
           /\ UpStream' = UpStream /\ DownStream' = DownStream
  <1>1. hop'[h] = Tail(hop[h]) /\ \A g \in Hops \ {h} : hop'[g] = hop[g]
    BY DEF TypeOK, Hops
  <1>2. hop'["CS"] = hop["CS"] /\ hop'["SC"] = hop["SC"]
    BY <1>1 DEF Hops
  <1> QED BY <1>1, <1>2 DEF UpStream, DownStream

LEMMA CloseStreams ==
    ASSUME TypeOK, NEW es, Close(es)
    PROVE  /\ UpStream' = UpStream \/ (UpStream' = <<>> /\ "streamS" \in es)
           /\ DownStream' = DownStream \/ (DownStream' = <<>> /\ "streamC" \in es)
           /\ hop'["LC"] = hop["LC"] \/ (hop'["LC"] = <<>> /\ "local" \in es)
           /\ hop'["ST"] = hop["ST"] \/ (hop'["ST"] = <<>> /\ "peer" \in es)
           /\ hop'["TS"] = hop["TS"] \/ (hop'["TS"] = <<>> /\ "target" \in es)
           /\ hop'["CL"] = hop["CL"] \/ (hop'["CL"] = <<>> /\ "app" \in es)
  <1>1. \A h \in Hops : hop'[h] = hop[h] \/ (hop'[h] = <<>> /\ ReadAt[h] \in es)
    BY CloseEffect
  <1>2. Strip(<<>>, {Req}) = <<>> /\ Strip(<<>>, {Ok, No}) = <<>>
    BY DEF Strip
  <1>3. hop'["CS"] = hop["CS"] \/ (hop'["CS"] = <<>> /\ "streamS" \in es)
    BY <1>1 DEF Hops, ReadAt
  <1>4. hop'["SC"] = hop["SC"] \/ (hop'["SC"] = <<>> /\ "streamC" \in es)
    BY <1>1 DEF Hops, ReadAt
  <1>5. UpStream' = UpStream \/ (UpStream' = <<>> /\ "streamS" \in es)
    BY <1>2, <1>3 DEF UpStream
  <1>6. DownStream' = DownStream \/ (DownStream' = <<>> /\ "streamC" \in es)
    BY <1>2, <1>4 DEF DownStream
  <1>7. /\ hop'["LC"] = hop["LC"] \/ (hop'["LC"] = <<>> /\ "local" \in es)
        /\ hop'["ST"] = hop["ST"] \/ (hop'["ST"] = <<>> /\ "peer" \in es)
        /\ hop'["TS"] = hop["TS"] \/ (hop'["TS"] = <<>> /\ "target" \in es)
        /\ hop'["CL"] = hop["CL"] \/ (hop'["CL"] = <<>> /\ "app" \in es)
    BY <1>1 DEF Hops, ReadAt
  <1> QED BY <1>5, <1>6, <1>7

\* The request and the response come and go without a trace in the streams.
LEMMA MessageEffect ==
    ASSUME TypeOK, Handshake, Chunks,
           \/ ClientRequests /\ Put("CS", Req)
           \/ ClientAnswered /\ Head(hop["SC"]) = Ok
           \/ ServerAnswers
    PROVE  /\ UpStream' = UpStream /\ DownStream' = DownStream
           /\ \A h \in {"LC", "ST", "TS", "CL"} : hop'[h] = hop[h]
  <1> USE DEF Hops
  <1>1. Strip(<<>>, {Req}) = <<>> /\ Strip(<<>>, {Ok, No}) = <<>>
    BY DEF Strip
  <1>2. Strip(<<Req>>, {Req}) = <<>>
    BY DEF Strip
  <1>3. CASE ClientRequests /\ Put("CS", Req)
    <2>1. /\ hop["CS"] = <<>> /\ hop'["CS"] = <<Req>> /\ hop'["SC"] = hop["SC"]
          /\ \A h \in {"LC", "ST", "TS", "CL"} : hop'[h] = hop[h]
      <3>1. hop' = [hop EXCEPT !["CS"] = Append(@, Req)] /\ hop["CS"] = <<>>
        BY <1>3 DEF ClientRequests, Handshake, Put
      <3>2. Append(<<>>, Req) = <<Req>>
        OBVIOUS
      <3> QED BY <3>1, <3>2 DEF TypeOK
    <2> QED BY <2>1, <1>1, <1>2 DEF UpStream, DownStream
  <1>4. CASE ClientAnswered /\ Head(hop["SC"]) = Ok
    <2>1. hop' = [hop EXCEPT !["SC"] = Tail(@)] /\ hop["SC"] # <<>>
      BY <1>4 DEF ClientAnswered
    <2>2. /\ hop'["CS"] = hop["CS"] /\ hop'["SC"] = Tail(hop["SC"])
          /\ \A h \in {"LC", "ST", "TS", "CL"} : hop'[h] = hop[h]
      BY <2>1 DEF TypeOK
    <2>3. Strip(hop["SC"], {Ok, No}) = Tail(hop["SC"])
      BY <1>4, <2>1 DEF Strip
    <2>4. Clear(Tail(hop["SC"]), {Ok, No})
      <3>1. /\ hop["SC"] \in Seq(Int) /\ sentDown \in Nat
            /\ Within(Strip(hop["SC"], {Ok, No}), sentDown)
        BY ItemFacts DEF Chunks, DownStream
      <3> QED BY <2>1, <3>1, ClearTail
    <2>5. Strip(Tail(hop["SC"]), {Ok, No}) = Tail(hop["SC"])
      BY <2>4, ClearStrip
    <2> QED BY <2>2, <2>3, <2>5 DEF UpStream, DownStream
  <1>5. CASE ServerAnswers
    <2>1. PICK m \in {Ok, No} :
            hop' = [hop EXCEPT !["CS"] = Tail(@), !["SC"] = Append(@, m)]
      BY <1>5 DEF ServerAnswers, RequestRest
    <2>2. hop["CS"] = <<Req>> /\ hop["SC"] = <<>>
      BY <1>5 DEF ServerAnswers, Handshake
    <2>3. Tail(<<Req>>) = <<>> /\ Append(<<>>, m) = <<m>>
      OBVIOUS
    <2>4. /\ hop'["CS"] = <<>> /\ hop'["SC"] = <<m>>
          /\ \A h \in {"LC", "ST", "TS", "CL"} : hop'[h] = hop[h]
      BY <2>1, <2>2, <2>3 DEF TypeOK
    <2>5. Strip(<<m>>, {Ok, No}) = <<>>
      BY DEF Strip
    <2> QED BY <2>2, <2>4, <2>5, <1>1, <1>2 DEF UpStream, DownStream
  <1> QED BY <1>3, <1>4, <1>5

LEMMA ReadEffect ==
    ASSUME TypeOK, Handshake, Chunks, NEW l \in Loops, LoopReads(l)
    PROVE  /\ loop[l] = "read" /\ loop'[l] = "write"
           /\ \A k \in Loops \ {l} : loop'[k] = loop[k] /\ buf'[k] = buf[k]
           /\ l = "cUp" => /\ hop["LC"] # <<>> /\ buf'[l] = Head(hop["LC"])
                           /\ hop'["LC"] = Tail(hop["LC"])
           /\ l # "cUp" => hop'["LC"] = hop["LC"]
           /\ l = "sDown" => /\ hop["TS"] # <<>> /\ buf'[l] = Head(hop["TS"])
                             /\ hop'["TS"] = Tail(hop["TS"])
           /\ l # "sDown" => hop'["TS"] = hop["TS"]
           /\ l = "sUp" => /\ UpStream # <<>> /\ buf'[l] = Head(UpStream)
                           /\ UpStream' = Tail(UpStream)
           /\ l # "sUp" => UpStream' = UpStream
           /\ l = "cDown" => /\ DownStream # <<>> /\ buf'[l] = Head(DownStream)
                             /\ DownStream' = Tail(DownStream)
           /\ l # "cDown" => DownStream' = DownStream
           /\ hop'["ST"] = hop["ST"] /\ hop'["CL"] = hop["CL"]
  <1> USE Geometry
  <1>1. /\ loop[l] = "read" /\ hop[Src[l]] # <<>>
        /\ buf' = [buf EXCEPT ![l] = Head(hop[Src[l]])]
        /\ hop' = [hop EXCEPT ![Src[l]] = Tail(@)]
        /\ loop' = [loop EXCEPT ![l] = "write"]
    BY DEF LoopReads
  <1>2. /\ buf'[l] = Head(hop[Src[l]]) /\ loop'[l] = "write"
        /\ \A k \in Loops \ {l} : loop'[k] = loop[k] /\ buf'[k] = buf[k]
    BY <1>1 DEF TypeOK
  <1>3. CASE l = "cUp"
    <2>1. /\ hop'["LC"] = Tail(hop["LC"]) /\ Src[l] = "LC"
          /\ \A h \in {"CS", "ST", "TS", "SC", "CL"} : hop'[h] = hop[h]
      BY <1>1, <1>3 DEF TypeOK, Src
    <2> QED BY <1>1, <1>2, <1>3, <2>1 DEF UpStream, DownStream
  <1>4. CASE l = "sDown"
    <2>1. /\ hop'["TS"] = Tail(hop["TS"]) /\ Src[l] = "TS"
          /\ \A h \in {"CS", "ST", "LC", "SC", "CL"} : hop'[h] = hop[h]
      BY <1>1, <1>4 DEF TypeOK, Src
    <2> QED BY <1>1, <1>2, <1>4, <2>1 DEF UpStream, DownStream
  <1>5. CASE l = "sUp"
    <2>1. /\ hop'["CS"] = Tail(hop["CS"]) /\ Src[l] = "CS"
          /\ \A h \in {"LC", "ST", "TS", "SC", "CL"} : hop'[h] = hop[h]
      BY <1>1, <1>5 DEF TypeOK, Src
    <2>2. Clear(hop["CS"], {Req})
      BY <1>1, <1>5 DEF Handshake
    <2>3. /\ hop["CS"] \in Seq(Int) /\ sentUp \in Nat
          /\ Within(Strip(hop["CS"], {Req}), sentUp)
      BY ItemFacts DEF Chunks, UpStream
    <2>4. Clear(Tail(hop["CS"]), {Req})
      BY <1>1, <2>1, <2>3, ClearTail
    <2>5. UpStream = hop["CS"] /\ UpStream' = Tail(hop["CS"])
      BY <2>1, <2>2, <2>4, ClearStrip DEF UpStream
    <2>6. DownStream' = DownStream
      BY <2>1 DEF DownStream
    <2> QED BY <1>1, <1>2, <1>5, <2>1, <2>5, <2>6
  <1>6. CASE l = "cDown"
    <2>1. /\ hop'["SC"] = Tail(hop["SC"]) /\ Src[l] = "SC"
          /\ \A h \in {"LC", "ST", "TS", "CS", "CL"} : hop'[h] = hop[h]
      BY <1>1, <1>6 DEF TypeOK, Src
    <2>2. Clear(hop["SC"], {Ok, No})
      BY <1>1, <1>6 DEF Handshake
    <2>3. /\ hop["SC"] \in Seq(Int) /\ sentDown \in Nat
          /\ Within(Strip(hop["SC"], {Ok, No}), sentDown)
      BY ItemFacts DEF Chunks, DownStream
    <2>4. Clear(Tail(hop["SC"]), {Ok, No})
      BY <1>1, <2>1, <2>3, ClearTail
    <2>5. DownStream = hop["SC"] /\ DownStream' = Tail(hop["SC"])
      BY <2>1, <2>2, <2>4, ClearStrip DEF DownStream
    <2>6. UpStream' = UpStream
      BY <2>1 DEF UpStream
    <2> QED BY <1>1, <1>2, <1>6, <2>1, <2>5, <2>6
  <1> QED BY <1>3, <1>4, <1>5, <1>6 DEF Loops

LEMMA WriteEffect ==
    ASSUME TypeOK, Handshake, Chunks, NEW l \in Loops, loop[l] = "write",
           Put(Dst[l], buf[l])
    PROVE  /\ l = "cUp" => UpStream' = Append(UpStream, buf["cUp"])
           /\ l # "cUp" => UpStream' = UpStream
           /\ l = "sDown" => DownStream' = Append(DownStream, buf["sDown"])
           /\ l # "sDown" => DownStream' = DownStream
           /\ l = "sUp" => hop'["ST"] = Append(hop["ST"], buf["sUp"])
           /\ l # "sUp" => hop'["ST"] = hop["ST"]
           /\ l = "cDown" => hop'["CL"] = Append(hop["CL"], buf["cDown"])
           /\ l # "cDown" => hop'["CL"] = hop["CL"]
           /\ hop'["LC"] = hop["LC"] /\ hop'["TS"] = hop["TS"]
  <1> USE Geometry
  <1>1. hop' = [hop EXCEPT ![Dst[l]] = Append(@, buf[l])]
    BY DEF Put
  <1>2. CASE l = "cUp"
    <2>1. /\ hop'["CS"] = Append(hop["CS"], buf["cUp"])
          /\ \A h \in {"LC", "ST", "TS", "SC", "CL"} : hop'[h] = hop[h]
      BY <1>1, <1>2 DEF TypeOK, Dst
    <2>2. hop["CS"] \in Seq(Int) /\ sentUp \in Nat /\ buf["cUp"] \in 1 .. sentUp
      BY <1>2, ItemFacts DEF Chunks
    <2>3. Strip(Append(hop["CS"], buf["cUp"]), {Req})
            = Append(Strip(hop["CS"], {Req}), buf["cUp"])
      BY <2>2, StripAppend
    <2> QED BY <1>2, <2>1, <2>3 DEF UpStream, DownStream
  <1>3. CASE l = "sDown"
    <2>1. /\ hop'["SC"] = Append(hop["SC"], buf["sDown"])
          /\ \A h \in {"LC", "ST", "TS", "CS", "CL"} : hop'[h] = hop[h]
      BY <1>1, <1>3 DEF TypeOK, Dst
    <2>2. hop["SC"] \in Seq(Int) /\ sentDown \in Nat /\ buf["sDown"] \in 1 .. sentDown
      BY <1>3, ItemFacts DEF Chunks
    <2>3. Strip(Append(hop["SC"], buf["sDown"]), {Ok, No})
            = Append(Strip(hop["SC"], {Ok, No}), buf["sDown"])
      BY <2>2, StripAppend
    <2> QED BY <1>3, <2>1, <2>3 DEF UpStream, DownStream
  <1>4. CASE l = "sUp"
    <2>1. /\ hop'["ST"] = Append(hop["ST"], buf["sUp"])
          /\ \A h \in {"LC", "CS", "TS", "SC", "CL"} : hop'[h] = hop[h]
      BY <1>1, <1>4 DEF TypeOK, Dst
    <2> QED BY <1>4, <2>1 DEF UpStream, DownStream
  <1>5. CASE l = "cDown"
    <2>1. /\ hop'["CL"] = Append(hop["CL"], buf["cDown"])
          /\ \A h \in {"LC", "CS", "TS", "SC", "ST"} : hop'[h] = hop[h]
      BY <1>1, <1>5 DEF TypeOK, Dst
    <2> QED BY <1>5, <2>1 DEF UpStream, DownStream
  <1> QED BY <1>2, <1>3, <1>4, <1>5 DEF Loops
-----------------------------------------------------------------------------
(* Only what was sent is on its way *)

LEMMA ChunksInit == Init => Chunks
  <1> SUFFICES ASSUME Init PROVE Chunks
    OBVIOUS
  <1>1. \A h \in Hops : hop[h] = <<>>
    BY DEF Init
  <1>2. Strip(<<>>, {Req}) = <<>> /\ Strip(<<>>, {Ok, No}) = <<>>
    BY DEF Strip
  <1>3. \A l \in Loops : loop[l] = "off"
    BY DEF Init
  <1> QED BY <1>1, <1>2, <1>3, EmptyQueue DEF Chunks, UpStream, DownStream, Hops, Loops

LEMMA ChunksStep == TypeOK /\ Handshake /\ Chunks /\ [Next]_vars => Chunks'
  <1> SUFFICES ASSUME TypeOK, Handshake, Chunks, [Next]_vars PROVE Chunks'
    OBVIOUS
  <1> USE Geometry
  <1>a. /\ hop["LC"] \in Seq(Int) /\ hop["ST"] \in Seq(Int)
        /\ hop["TS"] \in Seq(Int) /\ hop["CL"] \in Seq(Int)
        /\ UpStream \in Seq(Int) /\ DownStream \in Seq(Int)
        /\ sentUp \in Nat /\ sentDown \in Nat
    BY ItemFacts
  <1>b. ASSUME UNCHANGED <<sentUp, sentDown>>,
               hop'["LC"] \in {hop["LC"], <<>>}, hop'["ST"] \in {hop["ST"], <<>>},
               hop'["TS"] \in {hop["TS"], <<>>}, hop'["CL"] \in {hop["CL"], <<>>},
               UpStream' \in {UpStream, <<>>}, DownStream' \in {DownStream, <<>>},
               \A l \in Loops : loop'[l] = "write" => loop[l] = "write" /\ buf'[l] = buf[l]
        PROVE  Chunks'
    <2>1. \A l \in {"cUp", "sUp", "cDown", "sDown"} :
             loop'[l] = "write" => loop[l] = "write" /\ buf'[l] = buf[l]
      BY <1>b DEF Loops
    <2>2. /\ Within(hop'["LC"], sentUp) /\ Within(hop'["ST"], sentUp)
          /\ Within(UpStream', sentUp) /\ Within(DownStream', sentDown)
          /\ Within(hop'["TS"], sentDown) /\ Within(hop'["CL"], sentDown)
      BY <1>b, EmptyQueue DEF Chunks
    <2> QED BY <1>b, <2>1, <2>2 DEF Chunks
  <1>c. ASSUME NEW es, Close(es), UNCHANGED <<loop, buf, appVars>> PROVE Chunks'
    BY <1>b, <1>c, CloseStreams DEF appVars
  <1>d. ASSUME UNCHANGED <<hop, appVars>>,
               \A l \in Loops : loop'[l] = "write" => loop[l] = "write" /\ buf'[l] = buf[l]
        PROVE  Chunks'
    BY <1>b, <1>d DEF appVars, UpStream, DownStream
  <1>e. ASSUME NEW p \in Procs, StartLoops(p)
        PROVE  \A l \in Loops : loop'[l] = "write" => loop[l] = "write" /\ buf'[l] = buf[l]
    BY <1>e DEF StartLoops
  <1>1. CASE ClientOpens
    <2>1. CASE ClientReturns
      BY <1>1, <2>1, <1>c DEF ClientOpens, ClientReturns, pipeVars
    <2>2. CASE hop' = hop
      BY <1>1, <2>2, <1>d DEF ClientOpens, pipeVars
    <2> QED BY <1>1, <2>1, <2>2 DEF ClientOpens
  <1>2. CASE ClientRequests
    <2>1. CASE ClientReturns
      BY <1>2, <2>1, <1>c DEF ClientRequests, ClientReturns, pipeVars
    <2>2. CASE Put("CS", Req)
      BY <1>2, <2>2, <1>b, MessageEffect DEF ClientRequests, pipeVars, appVars
    <2> QED BY <1>2, <2>1, <2>2 DEF ClientRequests
  <1>3. CASE ClientAnswered
    <2>1. CASE Head(hop["SC"]) # Ok
      BY <1>3, <2>1, <1>c DEF ClientAnswered, ClientReturns, pipeVars
    <2>2. CASE Head(hop["SC"]) = Ok
      <3>1. StartLoops("client") /\ UNCHANGED appVars
        BY <1>3, <2>2 DEF ClientAnswered
      <3>2. \A l \in Loops : loop'[l] = "write" => loop[l] = "write" /\ buf'[l] = buf[l]
        BY <3>1, <1>e DEF Procs
      <3> QED BY <1>3, <2>2, <3>1, <3>2, <1>b, MessageEffect DEF appVars
    <2> QED BY <2>1, <2>2
  <1>4. CASE ClientGivesUp
    BY <1>4, <1>c DEF ClientGivesUp, ClientReturns, pipeVars
  <1>5. CASE ServerAccepts \/ ServerGivesUp \/ DialFails \/ StreamBreaks
    BY <1>5, <1>d DEF ServerAccepts, ServerGivesUp, DialFails, StreamBreaks, pipeVars
  <1>6. CASE ServerAnswers
    BY <1>6, <1>b, MessageEffect DEF ServerAnswers, pipeVars, appVars
  <1>7. CASE ServerDials
    <2>1. \A l \in Loops : loop'[l] = "write" => loop[l] = "write" /\ buf'[l] = buf[l]
      BY <1>7, <1>e DEF ServerDials, Procs
    <2> QED BY <1>7, <2>1, <1>d DEF ServerDials
  <1>8. ASSUME NEW l \in Loops, LoopReads(l) PROVE Chunks'
    <2>1. UNCHANGED <<sentUp, sentDown>>
      BY <1>8 DEF LoopReads, appVars
    <2>2. CASE l = "cUp"
      <3>1. Head(hop["LC"]) \in 1 .. sentUp /\ Within(Tail(hop["LC"]), sentUp)
        BY <1>8, <2>2, <1>a, ReadEffect, WithinTail DEF Chunks
      <3>2. /\ hop'["LC"] = Tail(hop["LC"]) /\ buf'["cUp"] = Head(hop["LC"])
            /\ \A k \in {"sUp", "cDown", "sDown"} : loop'[k] = loop[k] /\ buf'[k] = buf[k]
            /\ UNCHANGED <<hop["ST"], hop["TS"], hop["CL"], UpStream, DownStream>>
        BY <1>8, <2>2, ReadEffect DEF Loops
      <3> QED BY <2>1, <3>1, <3>2 DEF Chunks
    <2>3. CASE l = "sUp"
      <3>1. Head(UpStream) \in 1 .. sentUp /\ Within(Tail(UpStream), sentUp)
        BY <1>8, <2>3, <1>a, ReadEffect, WithinTail DEF Chunks
      <3>2. /\ UpStream' = Tail(UpStream) /\ buf'["sUp"] = Head(UpStream)
            /\ \A k \in {"cUp", "cDown", "sDown"} : loop'[k] = loop[k] /\ buf'[k] = buf[k]
            /\ UNCHANGED <<hop["ST"], hop["TS"], hop["CL"], hop["LC"], DownStream>>
        BY <1>8, <2>3, ReadEffect DEF Loops
      <3> QED BY <2>1, <3>1, <3>2 DEF Chunks
    <2>4. CASE l = "sDown"
      <3>1. Head(hop["TS"]) \in 1 .. sentDown /\ Within(Tail(hop["TS"]), sentDown)
        BY <1>8, <2>4, <1>a, ReadEffect, WithinTail DEF Chunks
      <3>2. /\ hop'["TS"] = Tail(hop["TS"]) /\ buf'["sDown"] = Head(hop["TS"])
            /\ \A k \in {"cUp", "sUp", "cDown"} : loop'[k] = loop[k] /\ buf'[k] = buf[k]
            /\ UNCHANGED <<hop["ST"], hop["LC"], hop["CL"], UpStream, DownStream>>
        BY <1>8, <2>4, ReadEffect DEF Loops
      <3> QED BY <2>1, <3>1, <3>2 DEF Chunks
    <2>5. CASE l = "cDown"
      <3>1. Head(DownStream) \in 1 .. sentDown /\ Within(Tail(DownStream), sentDown)
        BY <1>8, <2>5, <1>a, ReadEffect, WithinTail DEF Chunks
      <3>2. /\ DownStream' = Tail(DownStream) /\ buf'["cDown"] = Head(DownStream)
            /\ \A k \in {"cUp", "sUp", "sDown"} : loop'[k] = loop[k] /\ buf'[k] = buf[k]
            /\ UNCHANGED <<hop["ST"], hop["TS"], hop["CL"], hop["LC"], UpStream>>
        BY <1>8, <2>5, ReadEffect DEF Loops
      <3> QED BY <2>1, <3>1, <3>2 DEF Chunks
    <2> QED BY <2>2, <2>3, <2>4, <2>5 DEF Loops
  <1>9. ASSUME NEW l \in Loops, LoopReadFails(l) \/ LoopWriteFails(l) PROVE Chunks'
    <2>1. LoopEnds(l)
      BY <1>9 DEF LoopReadFails, LoopWriteFails
    <2>2. \A k \in Loops : loop'[k] = "write" => loop[k] = "write" /\ buf'[k] = buf[k]
      BY <2>1 DEF LoopEnds, TypeOK
    <2> QED BY <2>1, <2>2, <1>d DEF LoopEnds
  <1>10. ASSUME NEW l \in Loops, LoopWrites(l) PROVE Chunks'
    <2>1. /\ loop[l] = "write" /\ UNCHANGED <<sentUp, sentDown, appVars>>
          /\ hop' = hop \/ Put(Dst[l], buf[l])
      BY <1>10 DEF LoopWrites, appVars
    <2>2. \A k \in Loops : loop'[k] = "write" => loop[k] = "write" /\ buf'[k] = buf[k]
      BY <1>10 DEF LoopWrites, TypeOK
    <2>3. \A k \in {"cUp", "sUp", "cDown", "sDown"} :
             loop'[k] = "write" => loop[k] = "write" /\ buf'[k] = buf[k]
      BY <2>2 DEF Loops
    <2>4. CASE hop' = hop
      BY <2>1, <2>2, <2>4, <1>d
    <2>5. CASE Put(Dst[l], buf[l]) /\ l = "cUp"
      <3>1. Within(Append(UpStream, buf["cUp"]), sentUp)
        <4>1. buf["cUp"] \in 1 .. sentUp /\ Within(UpStream, sentUp)
          BY <2>1, <2>5 DEF Chunks
        <4> QED BY <4>1, <1>a, WithinAppend
      <3>2. /\ UpStream' = Append(UpStream, buf["cUp"])
            /\ UNCHANGED <<hop["LC"], hop["ST"], hop["TS"], hop["CL"], DownStream>>
        BY <2>1, <2>5, WriteEffect
      <3> QED BY <2>1, <2>3, <3>1, <3>2 DEF Chunks
    <2>6. CASE Put(Dst[l], buf[l]) /\ l = "sUp"
      <3>1. Within(Append(hop["ST"], buf["sUp"]), sentUp)
        <4>1. buf["sUp"] \in 1 .. sentUp /\ Within(hop["ST"], sentUp)
          BY <2>1, <2>6 DEF Chunks
        <4> QED BY <4>1, <1>a, WithinAppend
      <3>2. /\ hop'["ST"] = Append(hop["ST"], buf["sUp"])
            /\ UNCHANGED <<hop["LC"], hop["TS"], hop["CL"], UpStream, DownStream>>
        BY <2>1, <2>6, WriteEffect
      <3> QED BY <2>1, <2>3, <3>1, <3>2 DEF Chunks
    <2>7. CASE Put(Dst[l], buf[l]) /\ l = "sDown"
      <3>1. Within(Append(DownStream, buf["sDown"]), sentDown)
        <4>1. buf["sDown"] \in 1 .. sentDown /\ Within(DownStream, sentDown)
          BY <2>1, <2>7 DEF Chunks
        <4> QED BY <4>1, <1>a, WithinAppend
      <3>2. /\ DownStream' = Append(DownStream, buf["sDown"])
            /\ UNCHANGED <<hop["LC"], hop["ST"], hop["TS"], hop["CL"], UpStream>>
        BY <2>1, <2>7, WriteEffect
      <3> QED BY <2>1, <2>3, <3>1, <3>2 DEF Chunks
    <2>8. CASE Put(Dst[l], buf[l]) /\ l = "cDown"
      <3>1. Within(Append(hop["CL"], buf["cDown"]), sentDown)
        <4>1. buf["cDown"] \in 1 .. sentDown /\ Within(hop["CL"], sentDown)
          BY <2>1, <2>8 DEF Chunks
        <4> QED BY <4>1, <1>a, WithinAppend
      <3>2. /\ hop'["CL"] = Append(hop["CL"], buf["cDown"])
            /\ UNCHANGED <<hop["LC"], hop["TS"], hop["ST"], UpStream, DownStream>>
        BY <2>1, <2>8, WriteEffect
      <3> QED BY <2>1, <2>3, <3>1, <3>2 DEF Chunks
    <2> QED BY <2>1, <2>4, <2>5, <2>6, <2>7, <2>8 DEF Loops
  <1>11. ASSUME NEW p \in Procs, PipeReturns(p) \/ WatcherFires(p) PROVE Chunks'
    BY <1>11, <1>c DEF PipeReturns, WatcherFires
  <1>12. CASE AppSends
    <2>1. sentUp' = sentUp + 1 /\ Put("LC", sentUp + 1) /\ UNCHANGED <<sentDown, loop, buf>>
      BY <1>12 DEF AppSends, pipeVars
    <2>2. /\ Within(hop["LC"], sentUp + 1) /\ Within(hop["ST"], sentUp + 1)
          /\ Within(UpStream, sentUp + 1)
      BY <1>a, WithinMore DEF Chunks
    <2>3. Within(Append(hop["LC"], sentUp + 1), sentUp + 1)
      BY <1>a, <2>2, WithinAppend
    <2>4. /\ hop'["LC"] = Append(hop["LC"], sentUp + 1)
          /\ UNCHANGED <<hop["ST"], hop["TS"], hop["CL"], UpStream, DownStream>>
      BY <2>1, SendEffect
    <2>5. 1 .. sentUp \subseteq 1 .. sentUp + 1
      BY <1>a
    <2> QED BY <2>1, <2>2, <2>3, <2>4, <2>5 DEF Chunks
  <1>13. CASE PeerSends
    <2>1. /\ sentDown' = sentDown + 1 /\ Put("TS", sentDown + 1)
          /\ UNCHANGED <<sentUp, loop, buf>>
      BY <1>13 DEF PeerSends, pipeVars
    <2>2. /\ Within(hop["TS"], sentDown + 1) /\ Within(hop["CL"], sentDown + 1)
          /\ Within(DownStream, sentDown + 1)
      BY <1>a, WithinMore DEF Chunks
    <2>3. Within(Append(hop["TS"], sentDown + 1), sentDown + 1)
      BY <1>a, <2>2, WithinAppend
    <2>4. /\ hop'["TS"] = Append(hop["TS"], sentDown + 1)
          /\ UNCHANGED <<hop["LC"], hop["ST"], hop["CL"], UpStream, DownStream>>
      BY <2>1, SendEffect
    <2>5. 1 .. sentDown \subseteq 1 .. sentDown + 1
      BY <1>a
    <2> QED BY <2>1, <2>2, <2>3, <2>4, <2>5 DEF Chunks
  <1>14. CASE AppReceives
    <2>1. Within(Tail(hop["CL"]), sentDown)
      BY <1>14, <1>a, WithinTail DEF AppReceives, Chunks
    <2>2. /\ hop'["CL"] = Tail(hop["CL"])
          /\ UNCHANGED <<hop["LC"], hop["ST"], hop["TS"], UpStream, DownStream>>
      BY <1>14, ReceiveEffect DEF AppReceives
    <2> QED BY <1>14, <2>1, <2>2 DEF AppReceives, Chunks, pipeVars
  <1>15. CASE PeerReceives
    <2>1. Within(Tail(hop["ST"]), sentUp)
      BY <1>15, <1>a, WithinTail DEF PeerReceives, Chunks
    <2>2. /\ hop'["ST"] = Tail(hop["ST"])
          /\ UNCHANGED <<hop["LC"], hop["CL"], hop["TS"], UpStream, DownStream>>
      BY <1>15, ReceiveEffect DEF PeerReceives
    <2> QED BY <1>15, <2>1, <2>2 DEF PeerReceives, Chunks, pipeVars
  <1>16. ASSUME NEW e \in Ends, AppCloses(e) PROVE Chunks'
    BY <1>16, <1>c DEF AppCloses, pipeVars
  <1>17. CASE UNCHANGED vars
    BY <1>17, <1>d DEF vars, pipeVars
  <1> QED BY <1>1, <1>2, <1>3, <1>4, <1>5, <1>6, <1>7, <1>8, <1>9, <1>10, <1>11,
             <1>12, <1>13, <1>14, <1>15, <1>16, <1>17
          DEF Next, Run, Environment, ClientStep, ServerStep, LoopStep
-----------------------------------------------------------------------------
(* The way up *)

UpArgs == <<gotUp, PeerEnd, hop["ST"], loop["sUp"], buf["sUp"], ServerEnd, UpStream,
            loop["cUp"], buf["cUp"], LocalEnd, hop["LC"], sentUp>>

LEMMA UpInit == Init => Up
  <1> SUFFICES ASSUME Init PROVE Up
    OBVIOUS
  <1>1. hop["LC"] = <<>> /\ hop["CS"] = <<>> /\ hop["ST"] = <<>>
    BY DEF Init, Hops
  <1>2. UpStream = <<>>
    BY <1>1 DEF UpStream, Strip
  <1>3. /\ loop["cUp"] = "off" /\ loop["sUp"] = "off"
        /\ gotUp = 0 /\ sentUp = 0
    BY DEF Init, Loops
  <1> QED BY <1>1, <1>2, <1>3, EmptyQueue DEF Up, Chain, W

LEMMA UpStep == TypeOK /\ Handshake /\ Chunks /\ Up /\ [Next]_vars => Up'
  <1> SUFFICES ASSUME TypeOK, Handshake, Chunks, Up, [Next]_vars PROVE Up'
    OBVIOUS
  <1>a. /\ gotUp \in Nat /\ sentUp \in Nat /\ hop["ST"] \in Seq(Int)
        /\ hop["LC"] \in Seq(Int) /\ UpStream \in Seq(Int)
    BY ItemFacts DEF Hops
  <1>b. ASSUME UNCHANGED UpArgs PROVE Up'
    BY <1>b DEF UpArgs, Up
  <1>c. ASSUME NEW es, Close(es), UNCHANGED <<loop, buf, appVars>>,
               sv = "none" <=> sv' = "none",
               "streamS" \in es => sv # "none",
               "peer" \in es => loop["sUp"] # "off"
        PROVE  Up'
    <2>1. /\ \A e \in Ends : open'[e] => open[e] /\ e \notin es
          /\ \A e \in Ends : e \notin es => (open'[e] <=> open[e])
      BY <1>c, CloseEffect
    <2>2. /\ open'["peer"] => "peer" \notin es
          /\ "peer" \notin es => (open'["peer"] <=> open["peer"])
          /\ open'["streamS"] => "streamS" \notin es
          /\ "streamS" \notin es => (open'["streamS"] <=> open["streamS"])
          /\ open'["local"] => "local" \notin es
          /\ "local" \notin es => (open'["local"] <=> open["local"])
      BY <2>1 DEF Ends
    <2>3. (PeerEnd' = PeerEnd /\ hop'["ST"] = hop["ST"]) \/ PeerEnd' = "shut"
      BY <1>c, <2>2, CloseStreams DEF PeerEnd
    <2>4. \/ ServerEnd' = ServerEnd /\ UpStream' = UpStream
          \/ ServerEnd' = "shut" /\ UpStream' \in {UpStream, <<>>}
      BY <1>c, <2>2, CloseStreams DEF ServerEnd
    <2>5. (LocalEnd' = LocalEnd /\ hop'["LC"] = hop["LC"]) \/ LocalEnd' = "shut"
      BY <1>c, <2>2, CloseStreams DEF LocalEnd
    <2>6. Chain(gotUp, PeerEnd', hop'["ST"], loop["sUp"], buf["sUp"],
                ServerEnd', UpStream', loop["cUp"], buf["cUp"],
                LocalEnd', hop'["LC"], sentUp)
      BY <1>a, <2>3, <2>4, <2>5, ChainClose DEF Up
    <2> QED BY <1>c, <2>6 DEF Up, appVars
  <1>d. ASSUME UNCHANGED <<hop, open, loop, buf, appVars>>, sv = "none" <=> sv' = "none"
        PROVE  Up'
    BY <1>d, <1>b DEF UpArgs, UpStream, PeerEnd, ServerEnd, LocalEnd, appVars
  <1>1. CASE ClientOpens
    <2>1. CASE ClientReturns
      BY <1>1, <2>1, <1>c DEF ClientOpens, ClientReturns, pipeVars
    <2>2. CASE hop' = hop /\ open' = [open EXCEPT !["streamC"] = TRUE]
      <3>1. UNCHANGED <<open["peer"], open["streamS"], open["local"]>>
        BY <2>2 DEF TypeOK, Ends
      <3> QED BY <1>1, <2>2, <3>1, <1>b
              DEF ClientOpens, UpArgs, UpStream, PeerEnd, ServerEnd, LocalEnd,
                  pipeVars, appVars
    <2> QED BY <1>1, <2>1, <2>2 DEF ClientOpens
  <1>2. CASE ClientRequests
    <2>1. CASE ClientReturns
      BY <1>2, <2>1, <1>c DEF ClientRequests, ClientReturns, pipeVars
    <2>2. CASE Put("CS", Req) /\ open' = open
      BY <1>2, <2>2, <1>b, MessageEffect
         DEF ClientRequests, UpArgs, PeerEnd, ServerEnd, LocalEnd, pipeVars, appVars
    <2> QED BY <1>2, <2>1, <2>2 DEF ClientRequests
  <1>3. CASE ClientAnswered
    <2>1. CASE Head(hop["SC"]) # Ok
      BY <1>3, <2>1, <1>c DEF ClientAnswered, ClientReturns, pipeVars
    <2>2. CASE Head(hop["SC"]) = Ok
      <3>1. cl = "await" /\ StartLoops("client") /\ UNCHANGED <<open, sv, appVars>>
        BY <1>3, <2>2 DEF ClientAnswered
      <3>2. /\ loop["cUp"] = "off" /\ loop'["cUp"] = "read"
            /\ loop'["sUp"] = loop["sUp"] /\ buf' = buf
        BY <3>1 DEF StartLoops, Handshake, Loops, ProcOf
      <3>3. UNCHANGED <<UpStream, hop["ST"], hop["LC"]>>
        BY <1>3, <2>2, MessageEffect
      <3>4. Chain(gotUp, PeerEnd, hop["ST"], loop["sUp"], buf["sUp"],
                  ServerEnd, UpStream, loop'["cUp"], buf["cUp"],
                  LocalEnd, hop["LC"], sentUp)
        BY <1>a, <3>2, ChainStart DEF Up
      <3> QED BY <3>1, <3>2, <3>3, <3>4 DEF Up, PeerEnd, ServerEnd, LocalEnd, appVars
    <2> QED BY <2>1, <2>2
  <1>4. CASE ClientGivesUp
    BY <1>4, <1>c DEF ClientGivesUp, ClientReturns, pipeVars
  <1>5. CASE ServerAccepts
    <2>1. UNCHANGED <<open["peer"], open["local"], hop, loop, buf, appVars>>
      BY <1>5 DEF ServerAccepts, TypeOK, Ends, pipeVars
    <2>2. ServerEnd' = ServerEnd \/ ServerEnd' = "shut"
      BY <1>5 DEF ServerAccepts, ServerEnd, TypeOK, Ends
    <2>3. Chain(gotUp, PeerEnd, hop["ST"], loop["sUp"], buf["sUp"],
                ServerEnd', UpStream, loop["cUp"], buf["cUp"],
                LocalEnd, hop["LC"], sentUp)
      BY <1>a, <2>2, ChainClose DEF Up
    <2> QED BY <2>1, <2>3 DEF Up, UpStream, PeerEnd, LocalEnd, appVars
  <1>6. CASE ServerAnswers
    <2>1. ServerEnd' = ServerEnd
      BY <1>6 DEF ServerAnswers, ServerEnd
    <2> QED BY <1>6, <2>1, <1>b, MessageEffect
            DEF ServerAnswers, UpArgs, PeerEnd, LocalEnd, pipeVars, appVars
  <1>7. CASE ServerGivesUp \/ DialFails
    BY <1>7, <1>d DEF ServerGivesUp, DialFails, pipeVars
  <1>8. CASE ServerDials
    <2>1. /\ loop["sUp"] = "off" /\ loop'["sUp"] = "read"
          /\ loop'["cUp"] = loop["cUp"] /\ UNCHANGED <<buf, hop, appVars>>
      BY <1>8 DEF ServerDials, StartLoops, Handshake, Loops, ProcOf
    <2>2. open'["peer"] /\ UNCHANGED <<open["streamS"], open["local"]>>
      BY <1>8 DEF ServerDials, TypeOK, Ends
    <2>3. PeerEnd' = PeerEnd /\ ServerEnd' = ServerEnd /\ LocalEnd' = LocalEnd
      BY <1>8, <2>1, <2>2 DEF ServerDials, PeerEnd, ServerEnd, LocalEnd
    <2>4. Chain(gotUp, PeerEnd, hop["ST"], loop'["sUp"], buf["sUp"],
                ServerEnd, UpStream, loop["cUp"], buf["cUp"],
                LocalEnd, hop["LC"], sentUp)
      BY <1>a, <2>1, ChainStart DEF Up
    <2> QED BY <2>1, <2>3, <2>4 DEF Up, UpStream, appVars
  <1>9. ASSUME NEW l \in Loops, LoopReads(l) PROVE Up'
    <2>1. UNCHANGED <<open, sv, appVars>>
      BY <1>9 DEF LoopReads
    <2>2. CASE l = "cUp"
      <3>1. LocalEnd = "open"
        BY <1>9, <2>2 DEF LoopReads, Readable, SrcEnd, Streams, LocalEnd
      <3>2. /\ loop["cUp"] = "read" /\ loop'["cUp"] = "write" /\ hop["LC"] # <<>>
            /\ buf'["cUp"] = Head(hop["LC"]) /\ hop'["LC"] = Tail(hop["LC"])
            /\ UNCHANGED <<loop["sUp"], buf["sUp"], UpStream, hop["ST"]>>
        BY <1>9, <2>2, ReadEffect DEF Loops
      <3>3. Chain(gotUp, PeerEnd, hop["ST"], loop["sUp"], buf["sUp"],
                  ServerEnd, UpStream, "write", Head(hop["LC"]),
                  "open", Tail(hop["LC"]), sentUp)
        BY <1>a, <3>1, <3>2, ChainRead2 DEF Up
      <3> QED BY <2>1, <3>1, <3>2, <3>3 DEF Up, PeerEnd, ServerEnd, LocalEnd, appVars
    <2>3. CASE l = "sUp"
      <3>1. /\ loop["sUp"] = "read" /\ loop'["sUp"] = "write" /\ UpStream # <<>>
            /\ buf'["sUp"] = Head(UpStream) /\ UpStream' = Tail(UpStream)
            /\ UNCHANGED <<loop["cUp"], buf["cUp"], hop["LC"], hop["ST"]>>
        BY <1>9, <2>3, ReadEffect DEF Loops
      <3>2. Chain(gotUp, PeerEnd, hop["ST"], "write", Head(UpStream),
                  ServerEnd, Tail(UpStream), loop["cUp"], buf["cUp"],
                  LocalEnd, hop["LC"], sentUp)
        BY <1>a, <3>1, ChainRead1 DEF Up
      <3> QED BY <2>1, <3>1, <3>2 DEF Up, PeerEnd, ServerEnd, LocalEnd, appVars
    <2>4. CASE l \in {"cDown", "sDown"}
      <3>1. UNCHANGED <<loop["cUp"], buf["cUp"], loop["sUp"], buf["sUp"],
                        hop["LC"], hop["ST"], UpStream>>
        BY <1>9, <2>4, ReadEffect DEF Loops
      <3> QED BY <2>1, <3>1, <1>b DEF UpArgs, PeerEnd, ServerEnd, LocalEnd, appVars
    <2> QED BY <2>2, <2>3, <2>4 DEF Loops
  <1>10. ASSUME NEW l \in Loops, LoopReadFails(l) \/ LoopWriteFails(l) PROVE Up'
    <2>1. LoopEnds(l) /\ loop[l] # "off"
      BY <1>10 DEF LoopReadFails, LoopWriteFails
    <2>2. /\ UNCHANGED <<open, sv, hop, appVars>> /\ loop'[l] = "ended" /\ buf'[l] = 0
          /\ \A k \in Loops \ {l} : loop'[k] = loop[k] /\ buf'[k] = buf[k]
      BY <2>1 DEF LoopEnds, TypeOK
    <2>3. CASE l = "cUp"
      <3>1. UNCHANGED <<loop["sUp"], buf["sUp"]>> /\ loop'["cUp"] = "ended"
        BY <2>2, <2>3 DEF Loops
      <3>2. Chain(gotUp, PeerEnd, hop["ST"], loop["sUp"], buf["sUp"],
                  ServerEnd, UpStream, "ended", buf'["cUp"],
                  LocalEnd, hop["LC"], sentUp)
        BY <1>a, ChainLose2 DEF Up
      <3> QED BY <2>2, <3>1, <3>2 DEF Up, UpStream, PeerEnd, ServerEnd, LocalEnd, appVars
    <2>4. CASE l = "sUp"
      <3>1. UNCHANGED <<loop["cUp"], buf["cUp"]>> /\ loop'["sUp"] = "ended"
        BY <2>2, <2>4 DEF Loops
      <3>2. Chain(gotUp, PeerEnd, hop["ST"], "ended", buf'["sUp"],
                  ServerEnd, UpStream, loop["cUp"], buf["cUp"],
                  LocalEnd, hop["LC"], sentUp)
        BY <1>a, ChainLose1 DEF Up
      <3> QED BY <2>1, <2>2, <2>4, <3>1, <3>2
              DEF Up, UpStream, PeerEnd, ServerEnd, LocalEnd, appVars
    <2>5. CASE l \in {"cDown", "sDown"}
      <3>1. UNCHANGED <<loop["cUp"], buf["cUp"], loop["sUp"], buf["sUp"]>>
        BY <2>2, <2>5 DEF Loops
      <3> QED BY <2>2, <3>1, <1>b
              DEF UpArgs, UpStream, PeerEnd, ServerEnd, LocalEnd, appVars
    <2> QED BY <2>3, <2>4, <2>5 DEF Loops
  <1>11. ASSUME NEW l \in Loops, LoopWrites(l) PROVE Up'
    <2>1. /\ loop[l] = "write" /\ loop'[l] = "read"
          /\ \A k \in Loops \ {l} : loop'[k] = loop[k] /\ buf'[k] = buf[k]
          /\ UNCHANGED <<open, sv, appVars>>
      BY <1>11 DEF LoopWrites, TypeOK
    <2>2. \/ open[DstPeer[l]] /\ Put(Dst[l], buf[l])
          \/ ~open[DstPeer[l]] /\ hop' = hop
      BY <1>11 DEF LoopWrites
    <2>3. CASE l = "cUp" /\ open["streamS"] /\ Put(Dst[l], buf[l])
      <3>1. /\ loop["cUp"] = "write" /\ loop'["cUp"] = "read"
            /\ UNCHANGED <<loop["sUp"], buf["sUp"]>>
        BY <2>1, <2>3 DEF Loops
      <3>2. /\ UpStream' = Append(UpStream, buf["cUp"])
            /\ UNCHANGED <<hop["ST"], hop["LC"]>>
        BY <2>1, <2>3, WriteEffect
      <3>3. ServerEnd = "open" /\ buf["cUp"] \in Int
        BY <2>3, <3>1, <1>a DEF ServerEnd, Chunks
      <3>4. Chain(gotUp, PeerEnd, hop["ST"], loop["sUp"], buf["sUp"],
                  "open", Append(UpStream, buf["cUp"]), "read", buf'["cUp"],
                  LocalEnd, hop["LC"], sentUp)
        BY <1>a, <3>1, <3>3, ChainWrite2 DEF Up
      <3> QED BY <2>1, <3>1, <3>2, <3>3, <3>4
              DEF Up, PeerEnd, ServerEnd, LocalEnd, appVars
    <2>4. CASE l = "cUp" /\ ~open["streamS"] /\ hop' = hop
      <3>1. /\ loop["cUp"] = "write" /\ UNCHANGED <<loop["sUp"], buf["sUp"]>>
        BY <2>1, <2>4 DEF Loops
      <3>2. ServerEnd = "shut"
        BY <2>4, <3>1 DEF ServerEnd, Handshake
      <3>3. Chain(gotUp, PeerEnd, hop["ST"], loop["sUp"], buf["sUp"],
                  ServerEnd, UpStream, loop'["cUp"], buf'["cUp"],
                  LocalEnd, hop["LC"], sentUp)
        BY <1>a, <3>2, ChainLose2 DEF Up
      <3> QED BY <2>1, <2>4, <3>1, <3>3
              DEF Up, UpStream, PeerEnd, ServerEnd, LocalEnd, appVars
    <2>5. CASE l = "sUp" /\ open["peer"] /\ Put(Dst[l], buf[l])
      <3>1. /\ loop["sUp"] = "write" /\ loop'["sUp"] = "read"
            /\ UNCHANGED <<loop["cUp"], buf["cUp"]>>
        BY <2>1, <2>5 DEF Loops
      <3>2. /\ hop'["ST"] = Append(hop["ST"], buf["sUp"])
            /\ UNCHANGED <<UpStream, hop["LC"]>>
        BY <2>1, <2>5, WriteEffect
      <3>3. PeerEnd' = PeerEnd /\ buf["sUp"] \in Int
        BY <2>1, <2>5, <3>1, <1>a DEF PeerEnd, Chunks
      <3>4. Chain(gotUp, PeerEnd, Append(hop["ST"], buf["sUp"]), "read", buf'["sUp"],
                  ServerEnd, UpStream, loop["cUp"], buf["cUp"],
                  LocalEnd, hop["LC"], sentUp)
        BY <1>a, <3>1, <3>3, ChainWrite1 DEF Up
      <3> QED BY <2>1, <3>1, <3>2, <3>3, <3>4 DEF Up, ServerEnd, LocalEnd, appVars
    <2>6. CASE l = "sUp" /\ ~open["peer"] /\ hop' = hop
      <3>1. /\ loop["sUp"] = "write" /\ loop'["sUp"] = "read"
            /\ UNCHANGED <<loop["cUp"], buf["cUp"]>>
        BY <2>1, <2>6 DEF Loops
      <3>2. PeerEnd = "shut" /\ PeerEnd' = "shut"
        BY <2>1, <2>6, <3>1 DEF PeerEnd
      <3>3. Chain(gotUp, PeerEnd, hop["ST"], loop'["sUp"], buf'["sUp"],
                  ServerEnd, UpStream, loop["cUp"], buf["cUp"],
                  LocalEnd, hop["LC"], sentUp)
        BY <1>a, <3>2, ChainLose1 DEF Up
      <3> QED BY <2>1, <2>6, <3>1, <3>2, <3>3
              DEF Up, UpStream, ServerEnd, LocalEnd, appVars
    <2>7. CASE l \in {"cDown", "sDown"}
      <3>1. UNCHANGED <<loop["cUp"], buf["cUp"], loop["sUp"], buf["sUp"]>>
        BY <2>1, <2>7 DEF Loops
      <3>2. UNCHANGED <<hop["ST"], hop["LC"], UpStream>>
        BY <2>1, <2>2, <2>7, WriteEffect DEF UpStream
      <3> QED BY <2>1, <3>1, <3>2, <1>b DEF UpArgs, PeerEnd, ServerEnd, LocalEnd, appVars
    <2> QED BY <2>2, <2>3, <2>4, <2>5, <2>6, <2>7 DEF Loops, DstPeer
  <1>12. ASSUME NEW p \in Procs, PipeReturns(p) \/ WatcherFires(p) PROVE Up'
    <2>1. CASE p = "client"
      <3>1. /\ Close({"local", "streamC"}) /\ UNCHANGED <<loop, buf, appVars, sv>>
        BY <1>12, <2>1 DEF PipeReturns, WatcherFires, ClosedBy, EndsOf, SetPC
      <3> QED BY <3>1, <1>c
    <2>2. CASE p = "server"
      <3>1. /\ Close({"streamS", "target"}) /\ UNCHANGED <<loop, buf, appVars>>
        BY <1>12, <2>2 DEF PipeReturns, WatcherFires, ClosedBy, EndsOf
      <3>2. sv # "none"
        BY <1>12, <2>2 DEF PipeReturns, WatcherFires, PC, Handshake
      <3>3. sv' # "none"
        BY <1>12, <2>2, <3>2 DEF PipeReturns, WatcherFires, SetPC
      <3> QED BY <3>1, <3>2, <3>3, <1>c
    <2> QED BY <2>1, <2>2 DEF Procs
  <1>13. CASE AppSends
    <2>1. /\ hop'["LC"] = Append(hop["LC"], sentUp + 1)
          /\ UNCHANGED <<hop["ST"], UpStream>>
      BY <1>13, SendEffect DEF AppSends, Hops
    <2>2. Chain(gotUp, PeerEnd, hop["ST"], loop["sUp"], buf["sUp"],
                ServerEnd, UpStream, loop["cUp"], buf["cUp"],
                LocalEnd, Append(hop["LC"], sentUp + 1), sentUp + 1)
      BY <1>a, ChainSend DEF Up
    <2> QED BY <1>13, <2>1, <2>2 DEF AppSends, Up, PeerEnd, ServerEnd, LocalEnd, pipeVars
  <1>14. CASE PeerReceives
    <2>1. /\ hop'["ST"] = Tail(hop["ST"]) /\ hop["ST"] # <<>>
          /\ UNCHANGED <<hop["LC"], UpStream>>
      BY <1>14, ReceiveEffect DEF PeerReceives, Hops
    <2>2. PeerEnd = "open" /\ PeerEnd' = "open"
      BY <1>14 DEF PeerReceives, PeerEnd
    <2>3. /\ Head(hop["ST"]) = gotUp + 1
          /\ Chain(gotUp + 1, "open", Tail(hop["ST"]), loop["sUp"], buf["sUp"],
                   ServerEnd, UpStream, loop["cUp"], buf["cUp"],
                   LocalEnd, hop["LC"], sentUp)
      BY <1>a, <2>1, <2>2, ChainDeliver DEF Up
    <2> QED BY <1>14, <2>1, <2>2, <2>3 DEF PeerReceives, Up, ServerEnd, LocalEnd, pipeVars
  <1>15. CASE PeerSends
    <2>1. UNCHANGED <<hop["ST"], hop["LC"], UpStream>>
      BY <1>15, SendEffect DEF PeerSends, Hops
    <2> QED BY <1>15, <2>1, <1>b
            DEF PeerSends, UpArgs, PeerEnd, ServerEnd, LocalEnd, pipeVars
  <1>16. CASE AppReceives
    <2>1. UNCHANGED <<hop["ST"], hop["LC"], UpStream>>
      BY <1>16, ReceiveEffect DEF AppReceives, Hops
    <2> QED BY <1>16, <2>1, <1>b
            DEF AppReceives, UpArgs, PeerEnd, ServerEnd, LocalEnd, pipeVars
  <1>17. ASSUME NEW e \in Ends, AppCloses(e) PROVE Up'
    BY <1>17, <1>c DEF AppCloses, Handshake, pipeVars
  <1>18. CASE StreamBreaks
    BY <1>18, <1>d DEF StreamBreaks, pipeVars
  <1>19. CASE UNCHANGED vars
    BY <1>19, <1>d DEF vars, pipeVars
  <1> QED BY <1>1, <1>2, <1>3, <1>4, <1>5, <1>6, <1>7, <1>8, <1>9, <1>10, <1>11,
             <1>12, <1>13, <1>14, <1>15, <1>16, <1>17, <1>18, <1>19
          DEF Next, Run, Environment, ClientStep, ServerStep, LoopStep
-----------------------------------------------------------------------------
(* The way down *)

DownArgs == <<gotDown, AppEnd, hop["CL"], loop["cDown"], buf["cDown"], ClientEnd,
              DownStream, loop["sDown"], buf["sDown"], TargetEnd, hop["TS"], sentDown>>

LEMMA DownInit == Init => Down
  <1> SUFFICES ASSUME Init PROVE Down
    OBVIOUS
  <1>1. hop["TS"] = <<>> /\ hop["SC"] = <<>> /\ hop["CL"] = <<>>
    BY DEF Init, Hops
  <1>2. DownStream = <<>>
    BY <1>1 DEF DownStream, Strip
  <1>3. /\ loop["sDown"] = "off" /\ loop["cDown"] = "off"
        /\ gotDown = 0 /\ sentDown = 0
    BY DEF Init, Loops
  <1> QED BY <1>1, <1>2, <1>3, EmptyQueue DEF Down, Chain, W

LEMMA DownStep == TypeOK /\ Handshake /\ Chunks /\ Down /\ [Next]_vars => Down'
  <1> SUFFICES ASSUME TypeOK, Handshake, Chunks, Down, [Next]_vars PROVE Down'
    OBVIOUS
  <1>a. /\ gotDown \in Nat /\ sentDown \in Nat /\ hop["CL"] \in Seq(Int)
        /\ hop["TS"] \in Seq(Int) /\ DownStream \in Seq(Int)
    BY ItemFacts DEF Hops
  <1>b. ASSUME UNCHANGED DownArgs PROVE Down'
    BY <1>b DEF DownArgs, Down
  <1>c. ASSUME NEW es, Close(es), UNCHANGED <<loop, buf, appVars>>,
               cl' = cl \/ "streamC" \in es, "streamC" \in es => cl' # "open",
               "target" \in es => loop["sDown"] # "off"
        PROVE  Down'
    <2>1. /\ \A e \in Ends : open'[e] => open[e] /\ e \notin es
          /\ \A e \in Ends : e \notin es => (open'[e] <=> open[e])
      BY <1>c, CloseEffect
    <2>2. /\ open'["app"] => "app" \notin es
          /\ "app" \notin es => (open'["app"] <=> open["app"])
          /\ open'["streamC"] => "streamC" \notin es
          /\ "streamC" \notin es => (open'["streamC"] <=> open["streamC"])
          /\ open'["target"] => "target" \notin es
          /\ "target" \notin es => (open'["target"] <=> open["target"])
      BY <2>1 DEF Ends
    <2>3. (AppEnd' = AppEnd /\ hop'["CL"] = hop["CL"]) \/ AppEnd' = "shut"
      BY <1>c, <2>2, CloseStreams DEF AppEnd
    <2>4. \/ ClientEnd' = ClientEnd /\ DownStream' = DownStream
          \/ ClientEnd' = "shut" /\ DownStream' \in {DownStream, <<>>}
      BY <1>c, <2>2, CloseStreams DEF ClientEnd
    <2>5. (TargetEnd' = TargetEnd /\ hop'["TS"] = hop["TS"]) \/ TargetEnd' = "shut"
      BY <1>c, <2>2, CloseStreams DEF TargetEnd
    <2>6. Chain(gotDown, AppEnd', hop'["CL"], loop["cDown"], buf["cDown"],
                ClientEnd', DownStream', loop["sDown"], buf["sDown"],
                TargetEnd', hop'["TS"], sentDown)
      BY <1>a, <2>3, <2>4, <2>5, ChainClose DEF Down
    <2> QED BY <1>c, <2>6 DEF Down, appVars
  <1>d. ASSUME UNCHANGED <<hop, open, loop, buf, appVars, cl>>
        PROVE  Down'
    BY <1>d, <1>b DEF DownArgs, DownStream, AppEnd, ClientEnd, TargetEnd, appVars
  <1>e. ASSUME ClientReturns, UNCHANGED <<loop, buf, appVars>> PROVE Down'
    BY <1>c, <1>e DEF ClientReturns
  <1>1. CASE ClientOpens
    <2>1. CASE ClientReturns
      BY <1>1, <2>1, <1>e DEF ClientOpens, pipeVars
    <2>2. CASE hop' = hop /\ open' = [open EXCEPT !["streamC"] = TRUE]
      <3>1. UNCHANGED <<open["app"], open["target"]>> /\ open'["streamC"]
        BY <2>2 DEF TypeOK, Ends
      <3> QED BY <1>1, <2>2, <3>1, <1>b
              DEF ClientOpens, DownArgs, DownStream, AppEnd, ClientEnd, TargetEnd,
                  pipeVars, appVars
    <2> QED BY <1>1, <2>1, <2>2 DEF ClientOpens
  <1>2. CASE ClientRequests
    <2>1. CASE ClientReturns
      BY <1>2, <2>1, <1>e DEF ClientRequests, pipeVars
    <2>2. CASE Put("CS", Req) /\ open' = open /\ cl' = "await"
      <3>1. ClientEnd' = ClientEnd
        BY <1>2, <2>2 DEF ClientRequests, ClientEnd
      <3> QED BY <1>2, <2>2, <3>1, <1>b, MessageEffect
              DEF ClientRequests, DownArgs, AppEnd, TargetEnd, pipeVars, appVars
    <2> QED BY <1>2, <2>1, <2>2 DEF ClientRequests
  <1>3. CASE ClientAnswered
    <2>1. CASE Head(hop["SC"]) # Ok
      BY <1>3, <2>1, <1>e DEF ClientAnswered, pipeVars
    <2>2. CASE Head(hop["SC"]) = Ok
      <3>1. /\ cl = "await" /\ cl' = "pipe" /\ StartLoops("client")
            /\ UNCHANGED <<open, appVars>>
        BY <1>3, <2>2 DEF ClientAnswered
      <3>2. /\ loop["cDown"] = "off" /\ loop'["cDown"] = "read"
            /\ loop'["sDown"] = loop["sDown"] /\ buf' = buf
        BY <3>1 DEF StartLoops, Handshake, Loops, ProcOf
      <3>3. UNCHANGED <<DownStream, hop["CL"], hop["TS"]>>
        BY <1>3, <2>2, MessageEffect
      <3>4. Chain(gotDown, AppEnd, hop["CL"], loop'["cDown"], buf["cDown"],
                  ClientEnd, DownStream, loop["sDown"], buf["sDown"],
                  TargetEnd, hop["TS"], sentDown)
        BY <1>a, <3>2, ChainStart DEF Down
      <3> QED BY <3>1, <3>2, <3>3, <3>4 DEF Down, AppEnd, ClientEnd, TargetEnd, appVars
    <2> QED BY <2>1, <2>2
  <1>4. CASE ClientGivesUp
    BY <1>4, <1>e DEF ClientGivesUp, pipeVars
  <1>5. CASE ServerAccepts
    <2>1. UNCHANGED <<open["app"], open["streamC"], open["target"]>>
      BY <1>5 DEF ServerAccepts, TypeOK, Ends
    <2> QED BY <1>5, <2>1, <1>b
            DEF ServerAccepts, DownArgs, DownStream, AppEnd, ClientEnd, TargetEnd,
                pipeVars, appVars
  <1>6. CASE ServerAnswers
    BY <1>6, <1>b, MessageEffect
       DEF ServerAnswers, DownArgs, AppEnd, ClientEnd, TargetEnd, pipeVars, appVars
  <1>7. CASE ServerGivesUp \/ DialFails
    BY <1>7, <1>d DEF ServerGivesUp, DialFails, pipeVars
  <1>8. CASE ServerDials
    <2>1. /\ loop["sDown"] = "off" /\ loop'["sDown"] = "read"
          /\ loop'["cDown"] = loop["cDown"] /\ UNCHANGED <<buf, hop, appVars, cl>>
      BY <1>8 DEF ServerDials, StartLoops, Handshake, Loops, ProcOf
    <2>2. open'["target"] /\ UNCHANGED <<open["app"], open["streamC"]>>
      BY <1>8 DEF ServerDials, TypeOK, Ends
    <2>3. AppEnd' = AppEnd /\ ClientEnd' = ClientEnd /\ TargetEnd' = TargetEnd
      BY <2>1, <2>2 DEF AppEnd, ClientEnd, TargetEnd
    <2>4. Chain(gotDown, AppEnd, hop["CL"], loop["cDown"], buf["cDown"],
                ClientEnd, DownStream, loop'["sDown"], buf["sDown"],
                TargetEnd, hop["TS"], sentDown)
      BY <1>a, <2>1, ChainStart DEF Down
    <2> QED BY <2>1, <2>3, <2>4 DEF Down, DownStream, appVars
  <1>9. ASSUME NEW l \in Loops, LoopReads(l) PROVE Down'
    <2>1. UNCHANGED <<open, cl, appVars>>
      BY <1>9 DEF LoopReads
    <2>2. CASE l = "sDown"
      <3>1. /\ loop["sDown"] = "read" /\ loop'["sDown"] = "write" /\ hop["TS"] # <<>>
            /\ buf'["sDown"] = Head(hop["TS"]) /\ hop'["TS"] = Tail(hop["TS"])
            /\ UNCHANGED <<loop["cDown"], buf["cDown"], DownStream, hop["CL"]>>
        BY <1>9, <2>2, ReadEffect DEF Loops
      <3>2. TargetEnd = "open" /\ TargetEnd' = "open"
        BY <1>9, <2>1, <2>2 DEF LoopReads, Readable, SrcEnd, Streams, TargetEnd
      <3>3. Chain(gotDown, AppEnd, hop["CL"], loop["cDown"], buf["cDown"],
                  ClientEnd, DownStream, "write", Head(hop["TS"]),
                  "open", Tail(hop["TS"]), sentDown)
        BY <1>a, <3>1, <3>2, ChainRead2 DEF Down
      <3> QED BY <2>1, <3>1, <3>2, <3>3 DEF Down, AppEnd, ClientEnd, appVars
    <2>3. CASE l = "cDown"
      <3>1. /\ loop["cDown"] = "read" /\ loop'["cDown"] = "write" /\ DownStream # <<>>
            /\ buf'["cDown"] = Head(DownStream) /\ DownStream' = Tail(DownStream)
            /\ UNCHANGED <<loop["sDown"], buf["sDown"], hop["TS"], hop["CL"]>>
        BY <1>9, <2>3, ReadEffect DEF Loops
      <3>2. Chain(gotDown, AppEnd, hop["CL"], "write", Head(DownStream),
                  ClientEnd, Tail(DownStream), loop["sDown"], buf["sDown"],
                  TargetEnd, hop["TS"], sentDown)
        BY <1>a, <3>1, ChainRead1 DEF Down
      <3> QED BY <2>1, <3>1, <3>2 DEF Down, AppEnd, ClientEnd, TargetEnd, appVars
    <2>4. CASE l \in {"cUp", "sUp"}
      <3>1. UNCHANGED <<loop["sDown"], buf["sDown"], loop["cDown"], buf["cDown"],
                        hop["TS"], hop["CL"], DownStream>>
        BY <1>9, <2>4, ReadEffect DEF Loops
      <3> QED BY <2>1, <3>1, <1>b DEF DownArgs, AppEnd, ClientEnd, TargetEnd, appVars
    <2> QED BY <2>2, <2>3, <2>4 DEF Loops
  <1>10. ASSUME NEW l \in Loops, LoopReadFails(l) \/ LoopWriteFails(l) PROVE Down'
    <2>1. LoopEnds(l) /\ loop[l] # "off"
      BY <1>10 DEF LoopReadFails, LoopWriteFails
    <2>2. /\ UNCHANGED <<open, cl, hop, appVars>> /\ loop'[l] = "ended" /\ buf'[l] = 0
          /\ \A k \in Loops \ {l} : loop'[k] = loop[k] /\ buf'[k] = buf[k]
      BY <2>1 DEF LoopEnds, TypeOK
    <2>3. CASE l = "sDown"
      <3>1. UNCHANGED <<loop["cDown"], buf["cDown"]>> /\ loop'["sDown"] = "ended"
        BY <2>2, <2>3 DEF Loops
      <3>2. Chain(gotDown, AppEnd, hop["CL"], loop["cDown"], buf["cDown"],
                  ClientEnd, DownStream, "ended", buf'["sDown"],
                  TargetEnd, hop["TS"], sentDown)
        BY <1>a, ChainLose2 DEF Down
      <3> QED BY <2>1, <2>2, <2>3, <3>1, <3>2
              DEF Down, DownStream, AppEnd, ClientEnd, TargetEnd, appVars
    <2>4. CASE l = "cDown"
      <3>1. UNCHANGED <<loop["sDown"], buf["sDown"]>> /\ loop'["cDown"] = "ended"
        BY <2>2, <2>4 DEF Loops
      <3>2. Chain(gotDown, AppEnd, hop["CL"], "ended", buf'["cDown"],
                  ClientEnd, DownStream, loop["sDown"], buf["sDown"],
                  TargetEnd, hop["TS"], sentDown)
        BY <1>a, ChainLose1 DEF Down
      <3> QED BY <2>2, <3>1, <3>2
              DEF Down, DownStream, AppEnd, ClientEnd, TargetEnd, appVars
    <2>5. CASE l \in {"cUp", "sUp"}
      <3>1. UNCHANGED <<loop["sDown"], buf["sDown"], loop["cDown"], buf["cDown"]>>
        BY <2>2, <2>5 DEF Loops
      <3> QED BY <2>2, <3>1, <1>b
              DEF DownArgs, DownStream, AppEnd, ClientEnd, TargetEnd, appVars
    <2> QED BY <2>3, <2>4, <2>5 DEF Loops
  <1>11. ASSUME NEW l \in Loops, LoopWrites(l) PROVE Down'
    <2>1. /\ loop[l] = "write" /\ loop'[l] = "read"
          /\ \A k \in Loops \ {l} : loop'[k] = loop[k] /\ buf'[k] = buf[k]
          /\ UNCHANGED <<open, cl, appVars>>
      BY <1>11 DEF LoopWrites, TypeOK
    <2>2. \/ open[DstPeer[l]] /\ Put(Dst[l], buf[l])
          \/ ~open[DstPeer[l]] /\ hop' = hop
      BY <1>11 DEF LoopWrites
    <2>3. CASE l = "sDown" /\ open["streamC"] /\ Put(Dst[l], buf[l])
      <3>1. /\ loop["sDown"] = "write" /\ loop'["sDown"] = "read"
            /\ UNCHANGED <<loop["cDown"], buf["cDown"]>>
        BY <2>1, <2>3 DEF Loops
      <3>2. /\ DownStream' = Append(DownStream, buf["sDown"])
            /\ UNCHANGED <<hop["CL"], hop["TS"]>>
        BY <2>1, <2>3, WriteEffect
      <3>3. ClientEnd = "open" /\ buf["sDown"] \in Int
        BY <2>3, <3>1, <1>a DEF ClientEnd, Chunks
      <3>4. Chain(gotDown, AppEnd, hop["CL"], loop["cDown"], buf["cDown"],
                  "open", Append(DownStream, buf["sDown"]), "read", buf'["sDown"],
                  TargetEnd, hop["TS"], sentDown)
        BY <1>a, <3>1, <3>3, ChainWrite2 DEF Down
      <3> QED BY <2>1, <3>1, <3>2, <3>3, <3>4
              DEF Down, AppEnd, ClientEnd, TargetEnd, appVars
    <2>4. CASE l = "sDown" /\ ~open["streamC"] /\ hop' = hop
      <3>1. /\ loop["sDown"] = "write" /\ loop'["sDown"] = "read"
            /\ UNCHANGED <<loop["cDown"], buf["cDown"]>>
        BY <2>1, <2>4 DEF Loops
      <3>2. ClientEnd = "shut"
        BY <2>4, <3>1 DEF ClientEnd, Handshake
      <3>3. Chain(gotDown, AppEnd, hop["CL"], loop["cDown"], buf["cDown"],
                  ClientEnd, DownStream, loop'["sDown"], buf'["sDown"],
                  TargetEnd, hop["TS"], sentDown)
        BY <1>a, <3>2, ChainLose2 DEF Down
      <3> QED BY <2>1, <2>4, <3>1, <3>3
              DEF Down, DownStream, AppEnd, ClientEnd, TargetEnd, appVars
    <2>5. CASE l = "cDown" /\ open["app"] /\ Put(Dst[l], buf[l])
      <3>1. /\ loop["cDown"] = "write" /\ loop'["cDown"] = "read"
            /\ UNCHANGED <<loop["sDown"], buf["sDown"]>>
        BY <2>1, <2>5 DEF Loops
      <3>2. /\ hop'["CL"] = Append(hop["CL"], buf["cDown"])
            /\ UNCHANGED <<DownStream, hop["TS"]>>
        BY <2>1, <2>5, WriteEffect
      <3>3. buf["cDown"] \in Int
        BY <3>1, <1>a DEF Chunks
      <3>4. Chain(gotDown, AppEnd, Append(hop["CL"], buf["cDown"]), "read", buf'["cDown"],
                  ClientEnd, DownStream, loop["sDown"], buf["sDown"],
                  TargetEnd, hop["TS"], sentDown)
        BY <1>a, <3>1, <3>3, ChainWrite1 DEF Down
      <3> QED BY <2>1, <3>1, <3>2, <3>4 DEF Down, AppEnd, ClientEnd, TargetEnd, appVars
    <2>6. CASE l = "cDown" /\ ~open["app"] /\ hop' = hop
      <3>1. UNCHANGED <<loop["sDown"], buf["sDown"]>>
        BY <2>1, <2>6 DEF Loops
      <3>2. AppEnd = "shut"
        BY <2>6 DEF AppEnd
      <3>3. Chain(gotDown, AppEnd, hop["CL"], loop'["cDown"], buf'["cDown"],
                  ClientEnd, DownStream, loop["sDown"], buf["sDown"],
                  TargetEnd, hop["TS"], sentDown)
        BY <1>a, <3>2, ChainLose1 DEF Down
      <3> QED BY <2>1, <2>6, <3>1, <3>3
              DEF Down, DownStream, AppEnd, ClientEnd, TargetEnd, appVars
    <2>7. CASE l \in {"cUp", "sUp"}
      <3>1. UNCHANGED <<loop["sDown"], buf["sDown"], loop["cDown"], buf["cDown"]>>
        BY <2>1, <2>7 DEF Loops
      <3>2. UNCHANGED <<hop["CL"], hop["TS"], DownStream>>
        BY <2>1, <2>2, <2>7, WriteEffect DEF DownStream
      <3> QED BY <2>1, <3>1, <3>2, <1>b
              DEF DownArgs, AppEnd, ClientEnd, TargetEnd, appVars
    <2> QED BY <2>2, <2>3, <2>4, <2>5, <2>6, <2>7 DEF Loops, DstPeer
  <1>12. ASSUME NEW p \in Procs, PipeReturns(p) \/ WatcherFires(p) PROVE Down'
    <2>1. CASE p = "client"
      <3>1. /\ Close({"local", "streamC"}) /\ UNCHANGED <<loop, buf, appVars>>
        BY <1>12, <2>1 DEF PipeReturns, WatcherFires, ClosedBy, EndsOf
      <3>2. cl # "open"
        BY <1>12, <2>1 DEF PipeReturns, WatcherFires, PC, Handshake
      <3>3. cl' # "open"
        BY <1>12, <2>1, <3>2 DEF PipeReturns, WatcherFires, SetPC
      <3> QED BY <3>1, <3>2, <3>3, <1>c
    <2>2. CASE p = "server"
      <3>1. /\ Close({"streamS", "target"}) /\ UNCHANGED <<loop, buf, appVars, cl>>
        BY <1>12, <2>2 DEF PipeReturns, WatcherFires, ClosedBy, EndsOf, SetPC
      <3>2. loop["sDown"] # "off"
        BY <1>12, <2>2 DEF PipeReturns, WatcherFires, PC, Handshake
      <3> QED BY <3>1, <3>2, <1>c
    <2> QED BY <2>1, <2>2 DEF Procs
  <1>13. CASE PeerSends
    <2>1. /\ hop'["TS"] = Append(hop["TS"], sentDown + 1)
          /\ UNCHANGED <<hop["CL"], DownStream>>
      BY <1>13, SendEffect DEF PeerSends, Hops
    <2>2. Chain(gotDown, AppEnd, hop["CL"], loop["cDown"], buf["cDown"],
                ClientEnd, DownStream, loop["sDown"], buf["sDown"],
                TargetEnd, Append(hop["TS"], sentDown + 1), sentDown + 1)
      BY <1>a, ChainSend DEF Down
    <2> QED BY <1>13, <2>1, <2>2 DEF PeerSends, Down, AppEnd, ClientEnd, TargetEnd, pipeVars
  <1>14. CASE AppReceives
    <2>1. /\ hop'["CL"] = Tail(hop["CL"]) /\ hop["CL"] # <<>>
          /\ UNCHANGED <<hop["TS"], DownStream>>
      BY <1>14, ReceiveEffect DEF AppReceives, Hops
    <2>2. AppEnd = "open" /\ AppEnd' = "open"
      BY <1>14 DEF AppReceives, AppEnd
    <2>3. /\ Head(hop["CL"]) = gotDown + 1
          /\ Chain(gotDown + 1, "open", Tail(hop["CL"]), loop["cDown"], buf["cDown"],
                   ClientEnd, DownStream, loop["sDown"], buf["sDown"],
                   TargetEnd, hop["TS"], sentDown)
      BY <1>a, <2>1, <2>2, ChainDeliver DEF Down
    <2> QED BY <1>14, <2>1, <2>2, <2>3 DEF AppReceives, Down, ClientEnd, TargetEnd, pipeVars
  <1>15. CASE AppSends
    <2>1. UNCHANGED <<hop["CL"], hop["TS"], DownStream>>
      BY <1>15, SendEffect DEF AppSends, Hops
    <2> QED BY <1>15, <2>1, <1>b
            DEF AppSends, DownArgs, AppEnd, ClientEnd, TargetEnd, pipeVars
  <1>16. CASE PeerReceives
    <2>1. UNCHANGED <<hop["CL"], hop["TS"], DownStream>>
      BY <1>16, ReceiveEffect DEF PeerReceives, Hops
    <2> QED BY <1>16, <2>1, <1>b
            DEF PeerReceives, DownArgs, AppEnd, ClientEnd, TargetEnd, pipeVars
  <1>17. ASSUME NEW e \in Ends, AppCloses(e) PROVE Down'
    BY <1>17, <1>c DEF AppCloses, pipeVars
  <1>18. CASE StreamBreaks
    BY <1>18, <1>d DEF StreamBreaks, pipeVars
  <1>19. CASE UNCHANGED vars
    BY <1>19, <1>d DEF vars, pipeVars
  <1> QED BY <1>1, <1>2, <1>3, <1>4, <1>5, <1>6, <1>7, <1>8, <1>9, <1>10, <1>11,
             <1>12, <1>13, <1>14, <1>15, <1>16, <1>17, <1>18, <1>19
          DEF Next, Run, Environment, ClientStep, ServerStep, LoopStep
-----------------------------------------------------------------------------
(* Theorems *)

\* The invariant the proofs rest on: in every reachable state each direction
\* is a chain of consecutive chunks as far back as a chunk can still get
\* through the two BothWithIdle pipes.
THEOREM TunnelInvariant == Spec => []TunnelInv
  <1>1. Init => TunnelInv
    BY TypeInit, HandshakeInit, ChunksInit, UpInit, DownInit DEF TunnelInv
  <1>2. TunnelInv /\ [Next]_vars => TunnelInv'
    BY TypeStep, HandshakeStep, ChunksStep, UpStep, DownStep DEF TunnelInv
  <1> QED BY <1>1, <1>2, PTL DEF Spec

\* The types of the state of both handlers and both pipes are kept: the done
\* channel never holds more than its two tokens, and every loop only ever has
\* a chunk or a message of the connection in hand.
THEOREM ForwardingTypeCorrect == Spec => []TypeOK
  <1>1. TunnelInv => TypeOK
    BY DEF TunnelInv
  <1> QED BY <1>1, TunnelInvariant, PTL

LEMMA TunnelInit == Init => TunnelOf!Init
  <1> SUFFICES ASSUME Init PROVE TunnelOf!Init
    OBVIOUS
  <1>1. case \in Case
    BY BoundAssumption DEF Init
  <1>2. Allowed \in BOOLEAN
    BY <1>1 DEF Allowed, Case
  <1>3. loop["sUp"] = "off"
    BY DEF Init, Loops
  <1> QED BY <1>2, <1>3 DEF Init, TunnelOf!Init

LEMMA TunnelStep ==
    TunnelInv /\ [Next]_vars => [TunnelOf!Next]_(TunnelOf!tunnelVars)
  <1> SUFFICES ASSUME TunnelInv, [Next]_vars
               PROVE  TunnelOf!Next \/ UNCHANGED TunnelOf!tunnelVars
    OBVIOUS
  <1> USE DEF TunnelInv
  <1>a. ASSUME case' = case PROVE Allowed' = Allowed
    BY <1>a DEF Allowed
  <1>b. ASSUME UNCHANGED <<case, appVars>>, loop'["sUp"] = "off" <=> loop["sUp"] = "off"
        PROVE  UNCHANGED TunnelOf!tunnelVars
    BY <1>a, <1>b DEF TunnelOf!tunnelVars, appVars
  <1>1. CASE ClientOpens \/ ClientRequests \/ ClientGivesUp \/ ServerAccepts
             \/ ServerAnswers \/ ServerGivesUp \/ DialFails \/ StreamBreaks
    BY <1>1, <1>b DEF ClientOpens, ClientRequests, ClientGivesUp, ServerAccepts,
                      ServerAnswers, ServerGivesUp, DialFails, StreamBreaks, pipeVars
  <1>2. CASE ClientAnswered
    <2>1. loop'["sUp"] = loop["sUp"]
      BY <1>2 DEF ClientAnswered, StartLoops, Loops, ProcOf, pipeVars
    <2> QED BY <1>2, <2>1, <1>b DEF ClientAnswered
  <1>3. CASE ServerDials
    <2>1. Allowed /\ Allowed' = Allowed /\ loop'["sUp"] # "off"
      BY <1>3, <1>a DEF ServerDials, Handshake, StartLoops, Loops, ProcOf
    <2>2. TunnelOf!Grant
      BY <1>3, <2>1 DEF ServerDials, TunnelOf!Grant, appVars
    <2> QED BY <2>2 DEF TunnelOf!Next
  <1>4. ASSUME NEW l \in Loops, LoopStep(l) PROVE UNCHANGED TunnelOf!tunnelVars
    <2>1. /\ UNCHANGED <<case, appVars>> /\ loop[l] # "off"
          /\ \E k \in {"read", "write", "ended"} : loop' = [loop EXCEPT ![l] = k]
      BY <1>4 DEF LoopStep, LoopReads, LoopReadFails, LoopWrites, LoopWriteFails, LoopEnds
    <2>2. loop'["sUp"] = "off" <=> loop["sUp"] = "off"
      BY <2>1 DEF TypeOK, Loops
    <2> QED BY <2>1, <2>2, <1>b
  <1>5. ASSUME NEW p \in Procs, PipeReturns(p) \/ WatcherFires(p)
        PROVE  UNCHANGED TunnelOf!tunnelVars
    BY <1>5, <1>b DEF PipeReturns, WatcherFires
  <1>6. CASE AppSends
    <2>1. TunnelOf!SendUp
      BY <1>6, <1>a DEF AppSends, TunnelOf!SendUp, pipeVars
    <2> QED BY <2>1 DEF TunnelOf!Next
  <1>7. CASE PeerSends
    <2>1. loop["sUp"] # "off"
      BY <1>7 DEF PeerSends, Handshake
    <2>2. TunnelOf!SendDown
      BY <1>7, <2>1, <1>a DEF PeerSends, TunnelOf!SendDown, pipeVars
    <2> QED BY <2>2 DEF TunnelOf!Next
  <1>8. CASE AppReceives
    <2>1. /\ hop["CL"] # <<>> /\ hop["CL"] \in Seq(Int) /\ AppEnd = "open"
          /\ sentDown \in Nat /\ gotDown \in Nat
          /\ DownStream \in Seq(Int) /\ hop["TS"] \in Seq(Int)
      BY <1>8, ItemFacts DEF AppReceives, AppEnd, Hops
    <2>2. Head(hop["CL"]) = gotDown + 1
      BY <2>1, ChainDeliver DEF Down
    <2>3. Head(hop["CL"]) \in 1 .. sentDown
      BY <2>1, WithinTail DEF Chunks
    <2>4. gotDown < sentDown
      BY <2>1, <2>2, <2>3
    <2>5. TunnelOf!DeliverDown
      BY <1>8, <2>2, <2>4, <1>a DEF AppReceives, TunnelOf!DeliverDown, pipeVars
    <2> QED BY <2>5 DEF TunnelOf!Next
  <1>9. CASE PeerReceives
    <2>1. /\ hop["ST"] # <<>> /\ hop["ST"] \in Seq(Int) /\ PeerEnd = "open"
          /\ sentUp \in Nat /\ gotUp \in Nat
          /\ UpStream \in Seq(Int) /\ hop["LC"] \in Seq(Int)
      BY <1>9, ItemFacts DEF PeerReceives, PeerEnd, Hops
    <2>2. Head(hop["ST"]) = gotUp + 1
      BY <2>1, ChainDeliver DEF Up
    <2>3. Head(hop["ST"]) \in 1 .. sentUp
      BY <2>1, WithinTail DEF Chunks
    <2>4. gotUp < sentUp /\ loop["sUp"] # "off"
      BY <1>9, <2>1, <2>2, <2>3 DEF PeerReceives, Handshake
    <2>5. TunnelOf!DeliverUp
      BY <1>9, <2>2, <2>4, <1>a DEF PeerReceives, TunnelOf!DeliverUp, pipeVars
    <2> QED BY <2>5 DEF TunnelOf!Next
  <1>10. ASSUME NEW e \in Ends, AppCloses(e) PROVE UNCHANGED TunnelOf!tunnelVars
    BY <1>10, <1>b DEF AppCloses, pipeVars
  <1>11. CASE UNCHANGED vars
    BY <1>11, <1>b DEF vars, pipeVars
  <1> QED BY <1>1, <1>2, <1>3, <1>4, <1>5, <1>6, <1>7, <1>8, <1>9, <1>10, <1>11
          DEF Next, Run, Environment, ClientStep, ServerStep

\* Forwarding implements Tunnel: whatever the handshake, the closes, the idle
\* watchers and broken streams do, the target is dialled only for a request
\* validateServiceRequest must allow, and each application gets the chunks
\* the other one sent in order, without a gap or a repetition, and never a
\* message of the handshake.
THEOREM ForwardingImplementsTunnel == Spec => ImplementsTunnel
  <1>1. Init => TunnelOf!Init
    BY TunnelInit
  <1>2. TunnelInv /\ [Next]_vars => [TunnelOf!Next]_(TunnelOf!tunnelVars)
    BY TunnelStep
  <1> QED BY <1>1, <1>2, TunnelInvariant, PTL DEF Spec, ImplementsTunnel, TunnelOf!Spec

-----------------------------------------------------------------------------
(* The codec: what its recursive functions compute *)

LEMMA BaseFacts == Base \in Nat /\ Base > 1
  BY CodecAssumption

LEMMA DigitFacts ==
    \A v \in Nat : /\ v % Base \in 0 .. (Base - 1) /\ v % Base \in Nat
                   /\ v \div Base \in Nat
                   /\ v = (v % Base) + Base * (v \div Base)
                   /\ v >= Base => v \div Base < v
                   /\ v < Base => v % Base = v
<1>1. \A v \in Nat : /\ v % Base \in 0 .. (Base - 1) /\ v \div Base \in Nat
                     /\ v = (v % Base) + Base * (v \div Base)
                     /\ v >= Base => v \div Base < v
                     /\ v < Base => v % Base = v
    BY BaseFacts, DivMod, Zenon
<1>2. \A v \in Nat : v % Base \in Nat
    BY <1>1, BaseFacts
<1> QED  BY <1>1, <1>2, Zenon

LEMMA UvarintDef ==
    \A v \in Nat : /\ Uvarint(v) \in Seq(Nat)
                   /\ Uvarint(v) = IF v < Base THEN <<v>>
                                   ELSE <<(v % Base) + Base>> \o Uvarint(v \div Base)
<1> DEFINE Sat(u) == u = [n \in Nat |-> IF n < Base THEN <<n>>
                                      ELSE <<(n % Base) + Base>> \o u[n \div Base]]
           u0 == CHOOSE u : Sat(u)
           last == { n \in Nat : n < Base }
           b  == [n \in Nat |-> <<n>>]
           nx == [n \in Nat |-> n \div Base]
           F  == [n \in Nat |-> [s \in Seq(Nat) |-> <<(n % Base) + Base>> \o s]]
           m  == [n \in Nat |-> n]
<1>0. Descends(Nat, Seq(Nat), last, b, nx, F, m)
  <2>1. b \in [Nat -> Seq(Nat)] /\ m \in [Nat -> Nat]
      OBVIOUS
  <2>2. ASSUME NEW n \in Nat, n \notin last
        PROVE  nx[n] \in Nat /\ m[nx[n]] < m[n] /\ F[n] \in [Seq(Nat) -> Seq(Nat)]
    <3>1. nx[n] \in Nat /\ m[nx[n]] < m[n]
        BY <2>2, BaseFacts, DivMod
    <3>2. (n % Base) + Base \in Nat
        BY BaseFacts, DivMod
    <3>3. \A s \in Seq(Nat) : <<(n % Base) + Base>> \o s \in Seq(Nat)
        BY <3>2
    <3> QED  BY <3>1, <3>3
  <2> HIDE DEF last, b, nx, F, m
  <2> QED  BY <2>1, <2>2 DEF Descends
<1>3. \A n \in Nat : n \div Base \in Nat
    BY BaseFacts, DivMod
<1>4. PICK u \in [Nat -> Seq(Nat)] : Obeys(u, Nat, Seq(Nat), last, b, nx, F)
  <2> HIDE DEF last, b, nx, F, m
  <2> QED  BY <1>0, RecursionExists
<1>5. Sat(u)
    BY <1>3, <1>4 DEF Obeys
<1>6. Sat(u0)
    BY <1>5, Zenon
<1>7. Obeys(u0, Nat, Seq(Nat), last, b, nx, F)
  <2> HIDE DEF u0
  <2> QED  BY <1>3, <1>6 DEF Obeys
<1>8. u0 \in [Nat -> Seq(Nat)]
  <2> HIDE DEF last, b, nx, F, m, u0
  <2> QED  BY <1>0, <1>7, RecursionType
<1>9. \A v : Uvarint(v) = u0[v]
    BY DEF Uvarint
<1> HIDE DEF u0
<1> QED  BY <1>3, <1>6, <1>8, <1>9


LEMMA UvarintLenDef ==
    \A v \in Nat : /\ UvarintLen(v) \in Nat
                   /\ UvarintLen(v) = IF v < Base THEN 1
                                      ELSE 1 + UvarintLen(v \div Base)
<1> DEFINE Sat(l) == l = [n \in Nat |-> IF n < Base THEN 1 ELSE 1 + l[n \div Base]]
           l0 == CHOOSE l : Sat(l)
           last == { n \in Nat : n < Base }
           b  == [n \in Nat |-> 1]
           nx == [n \in Nat |-> n \div Base]
           F  == [n \in Nat |-> [x \in Nat |-> 1 + x]]
           m  == [n \in Nat |-> n]
<1>0. Descends(Nat, Nat, last, b, nx, F, m)
  <2>1. b \in [Nat -> Nat] /\ m \in [Nat -> Nat]
      OBVIOUS
  <2>2. ASSUME NEW n \in Nat, n \notin last
        PROVE  nx[n] \in Nat /\ m[nx[n]] < m[n] /\ F[n] \in [Nat -> Nat]
      BY <2>2, BaseFacts, DivMod
  <2> HIDE DEF last, b, nx, F, m
  <2> QED  BY <2>1, <2>2 DEF Descends
<1>3. \A n \in Nat : n \div Base \in Nat
    BY BaseFacts, DivMod
<1>4. PICK l \in [Nat -> Nat] : Obeys(l, Nat, Nat, last, b, nx, F)
  <2> HIDE DEF last, b, nx, F, m
  <2> QED  BY <1>0, RecursionExists
<1>5. Sat(l)
    BY <1>3, <1>4 DEF Obeys
<1>6. Sat(l0)
    BY <1>5, Zenon
<1>7. Obeys(l0, Nat, Nat, last, b, nx, F)
  <2> HIDE DEF l0
  <2> QED  BY <1>3, <1>6 DEF Obeys
<1>8. l0 \in [Nat -> Nat]
  <2> HIDE DEF last, b, nx, F, m, l0
  <2> QED  BY <1>0, <1>7, RecursionType
<1>9. \A v : UvarintLen(v) = l0[v]
    BY DEF UvarintLen
<1> HIDE DEF l0
<1> QED  BY <1>3, <1>6, <1>8, <1>9

LEMMA ValueDef ==
    ASSUME NEW s \in Seq(Nat), NEW i \in Nat, NEW n \in Nat, i >= 1, i + n - 1 <= Len(s)
    PROVE  \A k \in 0 .. n :
              /\ ValueFrom(s, i, n)[k] \in Nat
              /\ ValueFrom(s, i, n)[k] =
                    IF k = n THEN 0 ELSE (s[i + k] % Base) + Base * ValueFrom(s, i, n)[k + 1]
<1> DEFINE D == 0 .. n
           Sat(v) == v = [k \in D |-> IF k = n THEN 0 ELSE (s[i + k] % Base) + Base * v[k + 1]]
           v0 == CHOOSE v : Sat(v)
           b  == [k \in D |-> 0]
           nx == [k \in D |-> k + 1]
           F  == [k \in D |-> [x \in Nat |-> (s[i + k] % Base) + Base * x]]
           m  == [k \in D |-> n - k]
<1>0. Descends(D, Nat, {n}, b, nx, F, m)
  <2>1. b \in [D -> Nat] /\ m \in [D -> Nat]
      OBVIOUS
  <2>2. ASSUME NEW k \in D, k \notin {n}
        PROVE  nx[k] \in D /\ m[nx[k]] < m[k] /\ F[k] \in [Nat -> Nat]
    <3>1. nx[k] \in D /\ m[nx[k]] < m[k]
        BY <2>2
    <3>2. s[i + k] \in Nat
      <4>1. i + k \in 1 .. Len(s)
          BY <2>2
      <4> QED  BY <4>1
    <3>3. s[i + k] % Base \in Nat
        BY <3>2, DigitFacts, Zenon
    <3>4. \A x \in Nat : (s[i + k] % Base) + Base * x \in Nat
      <4>1. \A x \in Nat : Base * x \in Nat
          BY BaseFacts
      <4>2. \A c, e \in Nat : c + e \in Nat
          OBVIOUS
      <4> QED  BY <3>3, <4>1, <4>2, Zenon
    <3> QED  BY <3>1, <3>4
  <2> HIDE DEF D, b, nx, F, m
  <2> QED  BY <2>1, <2>2 DEF Descends
<1>3. \A k \in D : k # n => k + 1 \in D
    OBVIOUS
<1>4. PICK v \in [D -> Nat] : Obeys(v, D, Nat, {n}, b, nx, F)
  <2> HIDE DEF D, b, nx, F, m
  <2> QED  BY <1>0, RecursionExists
<1>5. Sat(v)
  <2> HIDE DEF D
  <2> QED  BY <1>3, <1>4 DEF Obeys
<1>6. Sat(v0)
    BY <1>5, Zenon
<1>7. Obeys(v0, D, Nat, {n}, b, nx, F)
  <2> HIDE DEF v0, D
  <2> QED  BY <1>3, <1>6 DEF Obeys
<1>8. v0 \in [D -> Nat]
  <2> HIDE DEF D, b, nx, F, m, v0
  <2> QED  BY <1>0, <1>7, RecursionType
<1>9. ValueFrom(s, i, n) = v0
    BY DEF ValueFrom
<1> HIDE DEF v0
<1> QED  BY <1>3, <1>6, <1>8, <1>9

LEMMA UptoFacts ==
    ASSUME NEW k \in Nat, NEW r \in Nat \ {0}, NEW n \in Nat, k < n
    PROVE  Upto(k, r, n) \in (k + 1) .. n /\ Upto(k, r, n) - k <= r
  BY DEF Upto

LEMMA PiecesDef ==
    ASSUME NEW S, NEW out \in Seq(S), NEW r \in Nat \ {0}
    PROVE  \A k \in 0 .. Len(out) :
              /\ PiecesFrom(out, r)[k] \in Seq(Seq(S))
              /\ PiecesFrom(out, r)[k] =
                    IF k = Len(out) THEN <<>>
                    ELSE <<SubSeq(out, k + 1, Upto(k, r, Len(out)))>>
                            \o PiecesFrom(out, r)[Upto(k, r, Len(out))]
<1> DEFINE n == Len(out)
           D == 0 .. n
           Piece(k) == <<SubSeq(out, k + 1, Upto(k, r, n))>>
           Sat(v) == v = [k \in D |-> IF k = n THEN <<>> ELSE Piece(k) \o v[Upto(k, r, n)]]
           v0 == CHOOSE v : Sat(v)
           V  == Seq(Seq(S))
           b  == [k \in D |-> <<>>]
           nx == [k \in D |-> Upto(k, r, n)]
           F  == [k \in D |-> [x \in V |-> Piece(k) \o x]]
           m  == [k \in D |-> n - k]
<1> n \in Nat
    OBVIOUS
<1>3. \A k \in D : k # n => Upto(k, r, n) \in D /\ Upto(k, r, n) > k
  <2> HIDE DEF n
  <2> QED  BY UptoFacts
<1>0. Descends(D, V, {n}, b, nx, F, m)
  <2>1. b \in [D -> V] /\ m \in [D -> Nat]
      OBVIOUS
  <2>2. ASSUME NEW k \in D, k \notin {n}
        PROVE  nx[k] \in D /\ m[nx[k]] < m[k] /\ F[k] \in [V -> V]
    <3>1. nx[k] \in D /\ m[nx[k]] < m[k]
      <4> HIDE DEF n
      <4> QED  BY <1>3, <2>2
    <3>2. SubSeq(out, k + 1, Upto(k, r, n)) \in Seq(S)
      <4>1. k + 1 \in 1 .. (n + 1) /\ Upto(k, r, n) \in 0 .. n
          BY <1>3, <2>2
      <4> QED  BY <4>1, SubSeqProperties
    <3>3. \A x \in V : Piece(k) \o x \in V
      <4> HIDE DEF n
      <4>1. Piece(k) \in V
          BY <3>2
      <4> HIDE DEF Piece
      <4> QED  BY <4>1, ConcatProperties
    <3> HIDE DEF Piece, D, n, V
    <3> QED  BY <2>2, <3>1, <3>3
  <2> HIDE DEF D, b, nx, F, m, V, n
  <2> QED  BY <2>1, <2>2 DEF Descends
<1>4. PICK v \in [D -> V] : Obeys(v, D, V, {n}, b, nx, F)
  <2> HIDE DEF D, b, nx, F, m, V, n
  <2> QED  BY <1>0, RecursionExists
<1> HIDE DEF Piece, n
<1>5. Sat(v)
  <2> HIDE DEF D, V
  <2> QED  BY <1>3, <1>4 DEF Obeys
<1>6. Sat(v0)
    BY <1>5, Zenon
<1>7. Obeys(v0, D, V, {n}, b, nx, F)
  <2> HIDE DEF v0, D, V
  <2> QED  BY <1>3, <1>6 DEF Obeys
<1>8. v0 \in [D -> V]
  <2> HIDE DEF D, b, nx, F, m, v0, V
  <2> QED  BY <1>0, <1>7, RecursionType
<1>9. PiecesFrom(out, r) = v0
    BY DEF PiecesFrom, Piece, n
<1> HIDE DEF v0
<1>10. \A k \in D : /\ v0[k] \in V
                    /\ v0[k] = IF k = n THEN <<>> ELSE Piece(k) \o v0[Upto(k, r, n)]
  <2> HIDE DEF D, V
  <2> QED  BY <1>3, <1>6, <1>8
<1> QED  BY <1>10, <1>9 DEF Piece, n

-----------------------------------------------------------------------------
(* Frames *)

\* A frame is a flag, a length no longer than the chunk, and a payload the
\* flag says how to restore the chunk from.
FrameParts(c, flag, payload) ==
    /\ flag \in {0, 1} /\ payload \in Seq(Nat) /\ Len(payload) <= Len(c)
    /\ Frame(c) = <<flag>> \o Uvarint(Len(payload)) \o payload
    /\ flag = 1 => payload \in DOMAIN Decompress
    /\ c = IF flag = 1 THEN Decompress[payload] ELSE payload

LEMMA FrameShape ==
    ASSUME NEW c \in Seq(Nat), Len(c) > 0
    PROVE  \E flag, payload : FrameParts(c, flag, payload)
<1> DEFINE comp == Compress[c]
           use == /\ Len(c) >= ZstdMinSize /\ c \in DOMAIN Compress
                  /\ Len(comp) + 1 + UvarintLen(Len(comp)) < Len(c)
<1>1. Frame(c) = <<IF use THEN 1 ELSE 0>> \o Uvarint(Len(IF use THEN comp ELSE c))
                    \o (IF use THEN comp ELSE c)
    BY DEF Frame
<1>2. CASE ~use
  <2>1. Frame(c) = <<0>> \o Uvarint(Len(c)) \o c
    <3> HIDE DEF use
    <3> QED  BY <1>1, <1>2
  <2>2. FrameParts(c, 0, c)
      BY <2>1 DEF FrameParts
  <2> QED  BY <2>2
<1>3. CASE use
  <2>1. comp \in DOMAIN Decompress /\ Decompress[comp] = c
      BY <1>3, CompressorAssumption
  <2>2. comp \in Seq(Nat) /\ Len(comp) \in Nat
    <3>1. comp \in Seq(Nat)
        BY <2>1, CompressorAssumption
    <3> HIDE DEF comp
    <3> QED  BY <3>1
  <2>3. Frame(c) = <<1>> \o Uvarint(Len(comp)) \o comp
    <3> HIDE DEF use, comp
    <3> QED  BY <1>1, <1>3
  <2> HIDE DEF comp
  <2>4. Len(comp) <= Len(c)
    <3>1. UvarintLen(Len(comp)) \in Nat
        BY <2>2, UvarintLenDef
    <3> QED  BY <1>3, <2>2, <3>1
  <2>5. FrameParts(c, 1, comp)
      BY <2>1, <2>2, <2>3, <2>4 DEF FrameParts
  <2> QED  BY <2>5
<1> HIDE DEF use
<1> QED  BY <1>2, <1>3

LEMMA FrameType ==
    ASSUME NEW c \in Seq(Nat), Len(c) > 0
    PROVE  Frame(c) \in Seq(Nat)
<1>1. PICK flag, payload : FrameParts(c, flag, payload)
    BY FrameShape
<1>2. payload \in Seq(Nat) /\ Len(payload) \in Nat /\ flag \in Nat
    BY <1>1 DEF FrameParts
<1>3. Uvarint(Len(payload)) \in Seq(Nat)
    BY <1>2, UvarintDef, Zenon
<1>5. <<flag>> \in Seq(Nat)
    BY <1>2
<1>4. \A x, y, z \in Seq(Nat) : x \o y \o z \in Seq(Nat)
    OBVIOUS
<1> QED  BY <1>1, <1>2, <1>3, <1>4, <1>5 DEF FrameParts

LEMMA DigitsAre ==
    ASSUME NEW s \in Seq(Nat), NEW i \in Nat, i >= 1, NEW j \in i .. Len(s),
           s[j] < Base, \A k \in i .. (j - 1) : s[k] >= Base
    PROVE  Digits(s, i) = j - i + 1
<1> DEFINE ends == { x \in i .. Len(s) : s[x] < Base }
           first == CHOOSE x \in ends : \A y \in ends : x <= y
<1>1. j \in ends
    OBVIOUS
<1>2. \A y \in ends : j <= y
  <2> SUFFICES ASSUME NEW y \in ends, ~(j <= y) PROVE FALSE
      OBVIOUS
  <2>1. y \in i .. (j - 1) /\ s[y] \in Nat
      OBVIOUS
  <2> QED  BY <2>1, BaseFacts
<1> HIDE DEF ends
<1>3. first \in ends /\ \A y \in ends : first <= y
    BY <1>1, <1>2, Zenon
<1>4. first = j
  <2> HIDE DEF first
  <2>1. first <= j /\ j <= first
      BY <1>1, <1>2, <1>3
  <2>2. first \in Int
      BY <1>3 DEF ends
  <2> QED  BY <2>1, <2>2
<1>5. Digits(s, i) = IF ends = {} THEN 0 ELSE first - i + 1
    BY DEF Digits, ends
<1> QED  BY <1>1, <1>4, <1>5

LEMMA NoDigits ==
    ASSUME NEW s \in Seq(Nat), NEW i \in Nat,
           \A k \in i .. Len(s) : ~(s[k] < Base)
    PROVE  Digits(s, i) = 0
  BY DEF Digits

LEMMA DigitsType ==
    ASSUME NEW s \in Seq(Nat), NEW i \in Nat, i >= 1
    PROVE  \/ Digits(s, i) = 0
           \/ Digits(s, i) \in Nat \ {0} /\ i + Digits(s, i) - 1 <= Len(s)
<1> DEFINE ends == { x \in i .. Len(s) : s[x] < Base }
<1>1. CASE ends = {}
    BY <1>1 DEF Digits
<1>2. CASE ends # {}
  <2>1. ends \subseteq Nat
      OBVIOUS
  <2>2. PICK j \in ends : \A y \in ends : j <= y
    <3> HIDE DEF ends
    <3> QED  BY <1>2, <2>1, LeastElement
  <2>3. \A k \in i .. (j - 1) : s[k] >= Base
    <3> SUFFICES ASSUME NEW k \in i .. (j - 1) PROVE s[k] >= Base
        OBVIOUS
    <3>1. k \notin ends
        BY <2>2
    <3>2. k \in i .. Len(s) /\ s[k] \in Nat
        OBVIOUS
    <3> QED  BY <3>1, <3>2, BaseFacts
  <2>4. Digits(s, i) = j - i + 1
      BY <2>3, DigitsAre
  <2> QED  BY <2>4
<1> QED  BY <1>1, <1>2

LEMMA FrameAtType ==
    ASSUME NEW s \in Seq(Nat), NEW i \in 1 .. Len(s) + 1
    PROVE  /\ FrameAt(s, i).out \in Seq(Nat)
           /\ FrameAt(s, i).to = 0 \/ FrameAt(s, i).to \in (i + 1) .. Len(s)
<1> DEFINE n == Digits(s, i + 1)
           v == Value(s, i + 1, n)
           to == i + n + v
           payload == SubSeq(s, i + n + 1, to)
           none == \/ i > Len(s) \/ n = 0 \/ v > MaxStored \/ to > Len(s)
                   \/ s[i] = 1 /\ payload \notin DOMAIN Decompress
<1>1. FrameAt(s, i) = IF none THEN [to |-> 0, out |-> <<>>]
                      ELSE [to |-> to, out |-> IF s[i] = 1 THEN Decompress[payload] ELSE payload]
    BY DEF FrameAt
<1>2. CASE none
  <2> HIDE DEF none
  <2>1. FrameAt(s, i) = [to |-> 0, out |-> <<>>]
      BY <1>1, <1>2
  <2> QED  BY <2>1
<1>3. CASE ~none
  <2>1. n \in Nat \ {0} /\ i + 1 + n - 1 <= Len(s)
    <3>1. i + 1 \in Nat /\ i + 1 >= 1
        OBVIOUS
    <3> QED  BY <1>3, <3>1, DigitsType
  <2> HIDE DEF n
  <2>2. v \in Nat
    <3>1. i + 1 \in Nat /\ i + 1 >= 1 /\ 0 \in 0 .. n
        BY <2>1
    <3> QED  BY <2>1, <3>1, ValueDef DEF Value
  <2> HIDE DEF v
  <2>3. to \in (i + 1) .. Len(s)
      BY <1>3, <2>1, <2>2
  <2>4. payload \in Seq(Nat)
    <3>1. i + n + 1 \in 1 .. (Len(s) + 1)
        BY <2>1
    <3> HIDE DEF to
    <3> QED  BY <2>3, <3>1
  <2> HIDE DEF payload
  <2>5. (IF s[i] = 1 THEN Decompress[payload] ELSE payload) \in Seq(Nat)
      BY <1>3, <2>4, CompressorAssumption
  <2>6. FrameAt(s, i) = [to |-> to, out |-> IF s[i] = 1 THEN Decompress[payload] ELSE payload]
    <3> HIDE DEF none
    <3> QED  BY <1>1, <1>3
  <2> HIDE DEF to
  <2> QED  BY <2>3, <2>5, <2>6
<1> HIDE DEF none
<1> QED  BY <1>2, <1>3

LEMMA FramesDef ==
    ASSUME NEW p \in Seq(Nat)
    PROVE  \A k \in 0 .. Len(p) :
              /\ FramesFrom(p)[k] \in Seq(Nat)
              /\ FramesFrom(p)[k] =
                    IF k >= Len(p) THEN <<>>
                    ELSE Frame(SubSeq(p, k + 1, Upto(k, ZstdChunkSize, Len(p))))
                            \o FramesFrom(p)[Upto(k, ZstdChunkSize, Len(p))]
<1> DEFINE n == Len(p)
           r == ZstdChunkSize
           D == 0 .. n
           B == { k \in D : k >= n }
           Piece(k) == Frame(SubSeq(p, k + 1, Upto(k, r, n)))
           Sat(w) == w = [k \in D |-> IF k >= n THEN <<>> ELSE Piece(k) \o w[Upto(k, r, n)]]
           w0 == CHOOSE w : Sat(w)
           V  == Seq(Nat)
           b  == [k \in D |-> <<>>]
           nx == [k \in D |-> Upto(k, r, n)]
           F  == [k \in D |-> [x \in V |-> Piece(k) \o x]]
           m  == [k \in D |-> n - k]
<1> n \in Nat /\ r \in Nat \ {0}
    BY CodecAssumption
<1>3. \A k \in D : k \notin B => Upto(k, r, n) \in D /\ Upto(k, r, n) > k
  <2> HIDE DEF n, r
  <2> QED  BY UptoFacts
<1>0. Descends(D, V, B, b, nx, F, m)
  <2>1. b \in [D -> V] /\ m \in [D -> Nat]
      OBVIOUS
  <2>2. ASSUME NEW k \in D, k \notin B
        PROVE  nx[k] \in D /\ m[nx[k]] < m[k] /\ F[k] \in [V -> V]
    <3>1. nx[k] \in D /\ m[nx[k]] < m[k]
      <4> HIDE DEF n, B
      <4> QED  BY <1>3, <2>2
    <3>2. SubSeq(p, k + 1, Upto(k, r, n)) \in Seq(Nat) /\ Len(SubSeq(p, k + 1, Upto(k, r, n))) > 0
      <4>1. k + 1 \in 1 .. (n + 1) /\ Upto(k, r, n) \in (k + 1) .. n
          BY <1>3, <2>2
      <4> QED  BY <4>1, SubSeqProperties
    <3>3. \A x \in V : Piece(k) \o x \in V
      <4> HIDE DEF n
      <4>1. Piece(k) \in V
          BY <3>2, FrameType
      <4> HIDE DEF Piece
      <4> QED  BY <4>1, ConcatProperties
    <3> HIDE DEF Piece, D, n, V, B
    <3> QED  BY <2>2, <3>1, <3>3
  <2> HIDE DEF D, b, nx, F, m, V, n, B
  <2> QED  BY <2>1, <2>2 DEF Descends
<1>4. PICK w \in [D -> V] : Obeys(w, D, V, B, b, nx, F)
  <2> HIDE DEF D, b, nx, F, m, V, n, B
  <2> QED  BY <1>0, RecursionExists
<1>b. \A k \in D : k >= n <=> k \in B
    OBVIOUS
<1> HIDE DEF Piece, n, r, B
<1>5. Sat(w)
  <2> HIDE DEF D, V
  <2> QED  BY <1>3, <1>4, <1>b DEF Obeys
<1>6. Sat(w0)
    BY <1>5, Zenon
<1>7. Obeys(w0, D, V, B, b, nx, F)
  <2> HIDE DEF w0, D, V
  <2> QED  BY <1>3, <1>6, <1>b DEF Obeys
<1>8. w0 \in [D -> V]
  <2> HIDE DEF D, b, nx, F, m, w0, V
  <2> QED  BY <1>0, <1>7, RecursionType
<1>9. FramesFrom(p) = w0
    BY DEF FramesFrom, Piece, n, r
<1> HIDE DEF w0
<1>10. \A k \in D : /\ w0[k] \in V
                    /\ w0[k] = IF k >= n THEN <<>> ELSE Piece(k) \o w0[Upto(k, r, n)]
  <2> HIDE DEF D, V
  <2> QED  BY <1>3, <1>6, <1>8, <1>b
<1> QED  BY <1>10, <1>9 DEF Piece, n, r

LEMMA ReadsDef ==
    ASSUME NEW s \in Seq(Nat), NEW r \in Nat \ {0}
    PROVE  \A i \in 1 .. Len(s) + 1 :
              /\ ReadsFrom(s, r)[i] \in Seq(Seq(Nat))
              /\ ReadsFrom(s, r)[i] =
                    IF FrameAt(s, i).to = 0 THEN <<>>
                    ELSE PiecesFrom(FrameAt(s, i).out, r)[0]
                            \o ReadsFrom(s, r)[FrameAt(s, i).to + 1]
<1> DEFINE D == 1 .. Len(s) + 1
           To(i) == FrameAt(s, i).to
           Piece(i) == PiecesFrom(FrameAt(s, i).out, r)[0]
           B == { i \in D : To(i) = 0 }
           Sat(w) == w = [i \in D |-> IF To(i) = 0 THEN <<>> ELSE Piece(i) \o w[To(i) + 1]]
           w0 == CHOOSE w : Sat(w)
           V  == Seq(Seq(Nat))
           b  == [i \in D |-> <<>>]
           nx == [i \in D |-> To(i) + 1]
           F  == [i \in D |-> [x \in V |-> Piece(i) \o x]]
           m  == [i \in D |-> Len(s) + 1 - i]
<1>1. \A i \in D : To(i) = 0 \/ To(i) \in (i + 1) .. Len(s)
    BY FrameAtType
<1>2. \A i \in D : Piece(i) \in V
  <2> SUFFICES ASSUME NEW i \in D PROVE Piece(i) \in V
      OBVIOUS
  <2>1. FrameAt(s, i).out \in Seq(Nat)
      BY FrameAtType
  <2>2. \A out \in Seq(Nat) : 0 \in 0 .. Len(out)
      OBVIOUS
  <2>3. \A out \in Seq(Nat) : PiecesFrom(out, r)[0] \in V
      BY <2>2, PiecesDef
  <2> QED  BY <2>1, <2>3
<1> HIDE DEF To, Piece
<1>b. \A i \in D : To(i) = 0 <=> i \in B
    OBVIOUS
<1>3. \A i \in D : i \notin B => To(i) + 1 \in D /\ To(i) + 1 > i
    BY <1>1
<1>0. Descends(D, V, B, b, nx, F, m)
  <2>1. b \in [D -> V] /\ m \in [D -> Nat]
      OBVIOUS
  <2>2. ASSUME NEW i \in D, i \notin B
        PROVE  nx[i] \in D /\ m[nx[i]] < m[i] /\ F[i] \in [V -> V]
    <3>1. nx[i] \in D /\ m[nx[i]] < m[i]
      <4> HIDE DEF B
      <4> QED  BY <1>3, <2>2
    <3>3. \A x \in V : Piece(i) \o x \in V
        BY <1>2, ConcatProperties
    <3> HIDE DEF D, V, B
    <3> QED  BY <2>2, <3>1, <3>3
  <2> HIDE DEF D, b, nx, F, m, V, B
  <2> QED  BY <2>1, <2>2 DEF Descends
<1>4. PICK w \in [D -> V] : Obeys(w, D, V, B, b, nx, F)
  <2> HIDE DEF D, b, nx, F, m, V, B
  <2> QED  BY <1>0, RecursionExists
<1> HIDE DEF B
<1>5. Sat(w)
  <2> HIDE DEF D, V
  <2> QED  BY <1>3, <1>4, <1>b DEF Obeys
<1>6. Sat(w0)
    BY <1>5, Zenon
<1>7. Obeys(w0, D, V, B, b, nx, F)
  <2> HIDE DEF w0, D, V
  <2> QED  BY <1>3, <1>6, <1>b DEF Obeys
<1>8. w0 \in [D -> V]
  <2> HIDE DEF D, b, nx, F, m, w0, V
  <2> QED  BY <1>0, <1>7, RecursionType
<1>9. ReadsFrom(s, r) = w0
    BY DEF ReadsFrom, Piece, To
<1> HIDE DEF w0
<1>10. \A i \in D : /\ w0[i] \in V
                    /\ w0[i] = IF To(i) = 0 THEN <<>> ELSE Piece(i) \o w0[To(i) + 1]
  <2> HIDE DEF D, V
  <2> QED  BY <1>3, <1>6, <1>8, <1>b
<1> QED  BY <1>10, <1>9 DEF Piece, To

\* A frame cut into pieces for the callers of Read is the frame.
LEMMA PiecesFlat ==
    ASSUME NEW out \in Seq(Nat), NEW r \in Nat \ {0}
    PROVE  FlattenSeq(PiecesFrom(out, r)[0]) = out
<1> DEFINE n == Len(out)
           P == { j \in Nat : j <= n =>
                    FlattenSeq(PiecesFrom(out, r)[n - j]) = SubSeq(out, n - j + 1, n) }
<1>0. n \in Nat
    OBVIOUS
<1>d. \A k \in 0 .. n : PiecesFrom(out, r)[k] =
                          IF k = n THEN <<>>
                          ELSE <<SubSeq(out, k + 1, Upto(k, r, n))>>
                                  \o PiecesFrom(out, r)[Upto(k, r, n)]
    BY PiecesDef
<1>1. ASSUME NEW j \in Nat, \A i \in 0 .. (j - 1) : i \in P
      PROVE  j \in P
  <2> SUFFICES ASSUME j <= n
               PROVE  FlattenSeq(PiecesFrom(out, r)[n - j]) = SubSeq(out, n - j + 1, n)
      OBVIOUS
  <2> DEFINE k == n - j
             e == Upto(k, r, n)
  <2>1. k \in 0 .. n
      OBVIOUS
  <2>2. CASE j = 0
    <3>1. PiecesFrom(out, r)[k] = <<>>
      <4>1. k = n
          BY <1>0, <2>2
      <4> HIDE DEF k, n
      <4> QED  BY <1>d, <2>1, <4>1
    <3>2. SubSeq(out, n - j + 1, n) = <<>>
        BY <2>2
    <3> QED  BY <3>1, <3>2, FlattenEmpty
  <2>3. CASE j # 0
    <3>1. e \in (k + 1) .. n
      <4>1. k \in Nat /\ k < n
          BY <2>3
      <4> HIDE DEF k, n
      <4> QED  BY <4>1, <1>0, UptoFacts
    <3>2. PiecesFrom(out, r)[k] = <<SubSeq(out, k + 1, e)>> \o PiecesFrom(out, r)[e]
      <4>1. k # n
          BY <1>0, <2>3
      <4> HIDE DEF k, n
      <4> QED  BY <1>d, <2>1, <4>1
    <3>3. PiecesFrom(out, r)[e] \in Seq(Seq(Nat))
      <4>1. e \in 0 .. Len(out)
          BY <3>1
      <4> QED  BY <4>1, PiecesDef
    <3> HIDE DEF e
    <3>4. SubSeq(out, k + 1, e) \in Seq(Nat)
        BY <3>1
    <3>5. FlattenSeq(PiecesFrom(out, r)[e]) = SubSeq(out, e + 1, n)
      <4>1. n - e \in 0 .. (j - 1) /\ n - e <= n /\ n - (n - e) = e
          BY <3>1
      <4>2. n - e \in P
          BY <1>1, <4>1
      <4> HIDE DEF n
      <4> QED  BY <4>1, <4>2
    <3>6. FlattenSeq(PiecesFrom(out, r)[k]) = SubSeq(out, k + 1, e) \o SubSeq(out, e + 1, n)
      <4>1. <<SubSeq(out, k + 1, e)>> \in Seq(Seq(Nat))
          BY <3>4
      <4>2. FlattenSeq(<<SubSeq(out, k + 1, e)>>) = SubSeq(out, k + 1, e)
          BY <3>4, FlattenOne
      <4>3. \A u, v \in Seq(Seq(Nat)) : FlattenSeq(u \o v) = FlattenSeq(u) \o FlattenSeq(v)
          BY FlattenConcat
      <4> HIDE DEF n, k
      <4> QED  BY <3>2, <3>3, <3>5, <4>1, <4>2, <4>3
    <3>7. SubSeq(out, k + 1, e) \o SubSeq(out, e + 1, n) = SubSeq(out, k + 1, n)
      <4>1. k + 1 \in 1 .. Len(out) + 1 /\ e \in (k + 1) - 1 .. Len(out) /\ n \in e .. Len(out)
          BY <1>0, <2>1, <3>1
      <4> HIDE DEF n, k
      <4> QED  BY <4>1, ConcatAdjacentSubSeq
    <3> QED  BY <3>6, <3>7
  <2> QED  BY <2>2, <2>3
<1>2. P = Nat
  <2>1. P \subseteq Nat
      OBVIOUS
  <2> HIDE DEF P
  <2> QED  BY <1>1, <2>1, Induction
<1>3. n \in P /\ n - n = 0
  <2> HIDE DEF P, n
  <2> QED  BY <1>0, <1>2
<1>4. FlattenSeq(PiecesFrom(out, r)[0]) = SubSeq(out, 0 + 1, n)
  <2> HIDE DEF n
  <2> QED  BY <1>0, <1>3
<1>5. SubSeq(out, 1, n) = out
    OBVIOUS
<1> QED  BY <1>4, <1>5

-----------------------------------------------------------------------------
(* Reading a frame *)

\* The stream s continues with t from position i on, or ends within t.
Continues(s, i, t) == \A k \in 1 .. Len(t) : i + k - 1 <= Len(s) => s[i + k - 1] = t[k]

\* t lies in s at position i.
Holds(s, i, t) == Continues(s, i, t) /\ i + Len(t) - 1 <= Len(s)

LEMMA ContinuesConcat ==
    ASSUME NEW s \in Seq(Nat), NEW i \in Nat, i >= 1, NEW t \in Seq(Nat), NEW u \in Seq(Nat),
           Continues(s, i, t \o u)
    PROVE  Continues(s, i, t) /\ Continues(s, i + Len(t), u)
<1>1. /\ Len(t \o u) = Len(t) + Len(u)
      /\ \A k \in 1 .. Len(t) + Len(u) :
            (t \o u)[k] = IF k <= Len(t) THEN t[k] ELSE u[k - Len(t)]
    BY ConcatProperties
<1>2. \A k \in 1 .. (Len(t) + Len(u)) : i + k - 1 <= Len(s) => s[i + k - 1] = (t \o u)[k]
    BY <1>1 DEF Continues
<1>3. ASSUME NEW k \in 1 .. Len(t), i + k - 1 <= Len(s)
      PROVE  s[i + k - 1] = t[k]
  <2>1. k \in 1 .. (Len(t) + Len(u)) /\ k <= Len(t)
      OBVIOUS
  <2> QED  BY <1>1, <1>2, <1>3, <2>1
<1>4. ASSUME NEW k \in 1 .. Len(u), i + Len(t) + k - 1 <= Len(s)
      PROVE  s[i + Len(t) + k - 1] = u[k]
  <2> DEFINE j == Len(t) + k
  <2>1. j \in 1 .. (Len(t) + Len(u)) /\ ~(j <= Len(t)) /\ j - Len(t) = k
        /\ i + j - 1 = i + Len(t) + k - 1
      OBVIOUS
  <2> HIDE DEF j
  <2>2. s[i + j - 1] = (t \o u)[j]
      BY <1>2, <1>4, <2>1
  <2>3. (t \o u)[j] = u[j - Len(t)]
      BY <1>1, <2>1
  <2> QED  BY <2>1, <2>2, <2>3
<1> QED  BY <1>3, <1>4 DEF Continues

LEMMA HoldsConcat ==
    ASSUME NEW s \in Seq(Nat), NEW i \in Nat, i >= 1, NEW t \in Seq(Nat), NEW u \in Seq(Nat),
           Holds(s, i, t \o u)
    PROVE  Holds(s, i, t) /\ Holds(s, i + Len(t), u)
<1>1. Len(t \o u) = Len(t) + Len(u)
    BY ConcatProperties
<1>2. Continues(s, i, t) /\ Continues(s, i + Len(t), u)
    BY ContinuesConcat DEF Holds
<1>3. i + Len(t) - 1 <= Len(s) /\ i + Len(t) + Len(u) - 1 <= Len(s)
  <2>1. i + Len(t \o u) - 1 <= Len(s)
      BY DEF Holds
  <2> QED  BY <1>1, <2>1
<1> QED  BY <1>2, <1>3 DEF Holds

\* A uvarint ends with its only digit below Base.
UvarintEnds(u) ==
    /\ u \in Seq(Nat) /\ Len(u) >= 1 /\ u[Len(u)] < Base
    /\ \A k \in 1 .. (Len(u) - 1) : u[k] >= Base

LEMMA UvarintShape ==
    \A v \in Nat : UvarintEnds(Uvarint(v))
<1> DEFINE P == { v \in Nat : UvarintEnds(Uvarint(v)) }
<1>1. ASSUME NEW v \in Nat, \A w \in 0 .. (v - 1) : w \in P
      PROVE  v \in P
  <2>1. CASE v < Base
    <3>1. Uvarint(v) = <<v>>
        BY <2>1, UvarintDef
    <3>2. UvarintEnds(<<v>>)
        BY <2>1 DEF UvarintEnds
    <3> QED  BY <3>1, <3>2
  <2>2. CASE ~(v < Base)
    <3> DEFINE d == (v % Base) + Base
               u == Uvarint(v \div Base)
    <3>1. Uvarint(v) = <<d>> \o u
        BY <2>2, UvarintDef
    <3>2. v \div Base \in 0 .. (v - 1)
        BY <2>2, DigitFacts, BaseFacts, SMTT(30)
    <3>3. UvarintEnds(u)
        BY <1>1, <3>2
    <3>4. d \in Nat /\ d >= Base
        BY DigitFacts, BaseFacts
    <3> HIDE DEF d, u
    <3>5. u \in Seq(Nat) /\ Len(u) >= 1 /\ u[Len(u)] < Base
          /\ \A k \in 1 .. (Len(u) - 1) : u[k] >= Base
        BY <3>3 DEF UvarintEnds
    <3>6. /\ <<d>> \o u \in Seq(Nat) /\ Len(<<d>> \o u) = Len(u) + 1
          /\ (<<d>> \o u)[1] = d
          /\ \A k \in 1 .. Len(u) : (<<d>> \o u)[k + 1] = u[k]
        BY <3>4, <3>5
    <3> DEFINE t == <<d>> \o u
    <3> HIDE DEF t
    <3>7. t \in Seq(Nat) /\ Len(t) = Len(u) + 1 /\ t[1] = d
          /\ \A k \in 1 .. Len(u) : t[k + 1] = u[k]
        BY <3>6 DEF t
    <3>8. t[Len(t)] < Base
        BY <3>5, <3>7, SMTT(30)
    <3>9. ASSUME NEW k \in 1 .. (Len(t) - 1) PROVE t[k] >= Base
      <4>1. CASE k = 1
          BY <4>1, <3>4, <3>7
      <4>2. CASE k # 1
        <5>1. k - 1 \in 1 .. (Len(u) - 1) /\ k - 1 + 1 = k /\ k - 1 \in 1 .. Len(u)
            BY <4>2, <3>5, <3>7
        <5>2. t[k - 1 + 1] = u[k - 1] /\ u[k - 1] >= Base
            BY <5>1, <3>5, <3>7
        <5> QED  BY <5>1, <5>2
      <4> QED  BY <4>1, <4>2
    <3>10. Len(t) >= 1
        BY <3>5, <3>7
    <3>11. UvarintEnds(t)
        BY <3>7, <3>8, <3>9, <3>10 DEF UvarintEnds
    <3> QED  BY <3>1, <3>11 DEF t
  <2> QED  BY <2>1, <2>2
<1>2. P = Nat
  <2>1. P \subseteq Nat
      OBVIOUS
  <2> HIDE DEF P
  <2> QED  BY <1>1, <2>1, Induction
<1> QED  BY <1>2

LEMMA UvarintDigits ==
    ASSUME NEW s \in Seq(Nat), NEW i \in Nat, i >= 1, NEW v \in Nat, Holds(s, i, Uvarint(v))
    PROVE  Digits(s, i) = Len(Uvarint(v))
<1> DEFINE u == Uvarint(v)
           j == i + Len(u) - 1
<1>1. u \in Seq(Nat) /\ Len(u) >= 1 /\ u[Len(u)] < Base
      /\ \A k \in 1 .. (Len(u) - 1) : u[k] >= Base
    BY UvarintShape DEF UvarintEnds
<1>2. j <= Len(s) /\ \A k \in 1 .. Len(u) : i + k - 1 <= Len(s) => s[i + k - 1] = u[k]
    BY DEF Holds, Continues
<1> HIDE DEF u
<1>3. j \in i .. Len(s)
    BY <1>1, <1>2
<1>4. s[j] < Base
    BY <1>1, <1>2, SMTT(30)
<1>5. ASSUME NEW k \in i .. (j - 1) PROVE s[k] >= Base
  <2> DEFINE x == k - i + 1
  <2>1. x \in 1 .. (Len(u) - 1) /\ x \in 1 .. Len(u) /\ i + x - 1 = k /\ i + x - 1 <= Len(s)
      BY <1>1, <1>2
  <2> HIDE DEF x
  <2>2. s[i + x - 1] = u[x] /\ u[x] >= Base
      BY <1>1, <1>2, <2>1
  <2> QED  BY <2>1, <2>2
<1> HIDE DEF j
<1>6. Digits(s, i) = j - i + 1
    BY <1>3, <1>4, <1>5, DigitsAre
<1> QED  BY <1>1, <1>6 DEF u, j

LEMMA UvarintValue ==
    ASSUME NEW s \in Seq(Nat), NEW i \in Nat, i >= 1, NEW n \in Nat, i + n - 1 <= Len(s)
    PROVE  \A v \in Nat, k \in 0 .. n :
              (Len(Uvarint(v)) = n - k /\ Holds(s, i + k, Uvarint(v)))
                  => ValueFrom(s, i, n)[k] = v
<1> DEFINE Val == ValueFrom(s, i, n)
           P == { v \in Nat : \A k \in 0 .. n :
                     (Len(Uvarint(v)) = n - k /\ Holds(s, i + k, Uvarint(v))) => Val[k] = v }
<1>0. \A k \in 0 .. n : /\ Val[k] \in Nat
                        /\ Val[k] = IF k = n THEN 0 ELSE (s[i + k] % Base) + Base * Val[k + 1]
    BY ValueDef
<1> HIDE DEF Val
<1>1. ASSUME NEW v \in Nat, \A w \in 0 .. (v - 1) : w \in P
      PROVE  v \in P
  <2> SUFFICES ASSUME NEW k \in 0 .. n, Len(Uvarint(v)) = n - k, Holds(s, i + k, Uvarint(v))
               PROVE  Val[k] = v
      OBVIOUS
  <2>1. CASE v < Base
    <3>1. Uvarint(v) = <<v>>
        BY <2>1, UvarintDef
    <3>2. Len(<<v>>) = 1 /\ <<v>>[1] = v
        OBVIOUS
    <3>3. k = n - 1
        BY <3>1, <3>2
    <3>4. s[i + k] = v
      <4>1. i + k + Len(<<v>>) - 1 <= Len(s)
          BY <3>1 DEF Holds
      <4>2. \A x \in 1 .. 1 : i + k + x - 1 <= Len(s) => s[i + k + x - 1] = <<v>>[x]
          BY <3>1, <3>2 DEF Holds, Continues
      <4>3. 1 \in 1 .. 1 /\ i + k + 1 - 1 <= Len(s) /\ i + k + 1 - 1 = i + k
          BY <4>1, <3>2
      <4> QED  BY <4>2, <4>3, <3>2
    <3>5. Val[k + 1] = 0
      <4>1. k + 1 = n /\ n \in 0 .. n
          BY <3>3
      <4> QED  BY <1>0, <4>1
    <3>6. Val[k] = (s[i + k] % Base) + Base * Val[k + 1]
      <4>1. k # n
          BY <3>3
      <4> QED  BY <1>0, <4>1
    <3>7. v % Base = v /\ Base * 0 = 0
        BY <2>1, DigitFacts, BaseFacts
    <3> QED  BY <3>4, <3>5, <3>6, <3>7
  <2>2. CASE ~(v < Base)
    <3> DEFINE d == (v % Base) + Base
               w == v \div Base
               u == Uvarint(w)
    <3>1. Uvarint(v) = <<d>> \o u
        BY <2>2, UvarintDef
    <3>2. w \in 0 .. (v - 1) /\ w \in Nat
        BY <2>2, DigitFacts, BaseFacts
    <3>3. d \in Nat /\ v % Base \in 0 .. (Base - 1)
        BY DigitFacts, BaseFacts
    <3>4. d % Base = v % Base
        BY <3>3, BaseFacts, MarkedDigit
    <3>5. v = (v % Base) + Base * w
        BY DigitFacts
    <3> HIDE DEF d, w
    <3>6. u \in Seq(Nat) /\ Len(u) >= 1
        BY <3>2, UvarintShape DEF UvarintEnds
    <3> HIDE DEF u
    <3>7. <<d>> \in Seq(Nat) /\ Len(<<d>>) = 1 /\ <<d>>[1] = d /\ Len(<<d>> \o u) = 1 + Len(u)
        BY <3>3, <3>6
    <3>8. Holds(s, i + k, <<d>>) /\ Holds(s, i + k + 1, u)
      <4>1. i + k \in Nat /\ i + k >= 1
          OBVIOUS
      <4>2. Holds(s, i + k, <<d>> \o u)
          BY <3>1
      <4> QED  BY <3>6, <3>7, <4>1, <4>2, HoldsConcat
    <3>9. s[i + k] = d
      <4>1. i + k + Len(<<d>>) - 1 <= Len(s)
          BY <3>8 DEF Holds
      <4>2. \A x \in 1 .. 1 : i + k + x - 1 <= Len(s) => s[i + k + x - 1] = <<d>>[x]
          BY <3>8, <3>7 DEF Holds, Continues
      <4>3. 1 \in 1 .. 1 /\ i + k + 1 - 1 <= Len(s) /\ i + k + 1 - 1 = i + k
          BY <4>1, <3>7
      <4> QED  BY <4>2, <4>3, <3>7
    <3>10. Len(u) = n - (k + 1) /\ k + 1 \in 0 .. n /\ i + (k + 1) = i + k + 1
        BY <3>1, <3>6, <3>7
    <3>11. Val[k + 1] = w
      <4>1. w \in P
          BY <1>1, <3>2
      <4>2. Holds(s, i + (k + 1), Uvarint(w)) /\ Len(Uvarint(w)) = n - (k + 1)
          BY <3>8, <3>10 DEF u
      <4> QED  BY <3>10, <4>1, <4>2
    <3>12. Val[k] = (s[i + k] % Base) + Base * Val[k + 1]
      <4>1. k # n
          BY <3>10
      <4> QED  BY <1>0, <4>1
    <3> QED  BY <3>4, <3>5, <3>9, <3>11, <3>12
  <2> QED  BY <2>1, <2>2
<1>2. P = Nat
  <2>1. P \subseteq Nat
      OBVIOUS
  <2> HIDE DEF P
  <2> QED  BY <1>1, <2>1, Induction
<1> QED  BY <1>2 DEF Val

\* What Write puts in front of a payload, Read takes for its length.
LEMMA UvarintRead ==
    ASSUME NEW s \in Seq(Nat), NEW i \in Nat, i >= 1, NEW v \in Nat, Holds(s, i, Uvarint(v))
    PROVE  Digits(s, i) = Len(Uvarint(v)) /\ Value(s, i, Digits(s, i)) = v
<1>1. Digits(s, i) = Len(Uvarint(v))
    BY UvarintDigits
<1> DEFINE n == Len(Uvarint(v))
<1>2. n \in Nat /\ i + n - 1 <= Len(s)
    BY UvarintDef DEF Holds
<1>3. i + 0 = i /\ n - 0 = n /\ 0 \in 0 .. n
    BY <1>2
<1>4. ValueFrom(s, i, n)[0] = v
  <2>1. Holds(s, i + 0, Uvarint(v)) /\ Len(Uvarint(v)) = n - 0
      BY <1>3
  <2> HIDE DEF n
  <2> QED  BY <1>2, <1>3, <2>1, UvarintValue
<1> QED  BY <1>1, <1>4 DEF Value

LEMMA HoldsSubSeq ==
    ASSUME NEW s \in Seq(Nat), NEW i \in Nat, i >= 1, NEW t \in Seq(Nat), Holds(s, i, t)
    PROVE  SubSeq(s, i, i + Len(t) - 1) = t
<1> DEFINE j == i + Len(t) - 1
           u == SubSeq(s, i, j)
<1>1. j \in Int /\ j <= Len(s) /\ Len(t) \in Nat /\ j - i + 1 = Len(t)
    BY DEF Holds
<1>2. \A k \in 1 .. Len(t) : i + k - 1 <= Len(s) => s[i + k - 1] = t[k]
    BY DEF Holds, Continues
<1> HIDE DEF j
<1>3. /\ u \in Seq(Nat) /\ Len(u) = IF i <= j THEN j - i + 1 ELSE 0
      /\ \A k \in 1 .. j - i + 1 : u[k] = s[i + k - 1]
  <2>1. \A k \in i .. j : s[k] \in Nat
      BY <1>1
  <2> QED  BY <1>1, <2>1, SubSeqProperties
<1> HIDE DEF u
<1>4. Len(u) = Len(t)
    BY <1>1, <1>3
<1>5. ASSUME NEW k \in 1 .. Len(u) PROVE u[k] = t[k]
  <2>1. k \in 1 .. Len(t) /\ i + k - 1 <= Len(s) /\ k \in 1 .. j - i + 1
      BY <1>1, <1>4
  <2> QED  BY <1>2, <1>3, <2>1
<1>6. u = t
    BY <1>3, <1>4, <1>5, SeqEqual
<1> QED  BY <1>6 DEF u, j

LEMMA FramePosition ==
    ASSUME NEW flag \in {0, 1}, NEW u \in Seq(Nat), NEW payload \in Seq(Nat)
    PROVE  /\ <<flag>> \in Seq(Nat) /\ Len(<<flag>>) = 1 /\ <<flag>>[1] = flag
           /\ <<flag>> \o u \in Seq(Nat) /\ Len(<<flag>> \o u) = 1 + Len(u)
           /\ Len(<<flag>> \o u \o payload) = 1 + Len(u) + Len(payload)
<1>1. flag \in Nat
    OBVIOUS
<1>2. <<flag>> \in Seq(Nat) /\ Len(<<flag>>) = 1 /\ <<flag>>[1] = flag
    BY <1>1
<1> DEFINE f == <<flag>>
<1> HIDE DEF f
<1>3. f \in Seq(Nat) /\ Len(f) = 1
    BY <1>2 DEF f
<1>4. f \o u \in Seq(Nat) /\ Len(f \o u) = 1 + Len(u)
    BY <1>3, ConcatProperties, ZenonT(30)
<1>5. Len(f \o u \o payload) = 1 + Len(u) + Len(payload)
    BY <1>4
<1> QED  BY <1>2, <1>4, <1>5 DEF f

\* A whole frame is read back.
LEMMA FrameRead ==
    ASSUME NEW s \in Seq(Nat), NEW i \in Nat, i >= 1,
           NEW c \in Seq(Nat), Len(c) > 0, Len(c) <= ZstdChunkSize, Holds(s, i, Frame(c))
    PROVE  FrameAt(s, i).to = i + Len(Frame(c)) - 1 /\ FrameAt(s, i).out = c
<1>1. PICK flag, payload : FrameParts(c, flag, payload)
    BY FrameShape
<1> DEFINE v == Len(payload)
           u == Uvarint(v)
           n == Len(u)
<1>2. /\ flag \in {0, 1} /\ payload \in Seq(Nat) /\ v <= Len(c)
      /\ Frame(c) = <<flag>> \o u \o payload
      /\ flag = 1 => payload \in DOMAIN Decompress
      /\ c = IF flag = 1 THEN Decompress[payload] ELSE payload
    BY <1>1 DEF FrameParts
<1>3. v \in Nat /\ u \in Seq(Nat) /\ n >= 1 /\ n \in Nat
  <2>1. v \in Nat
      BY <1>2
  <2> HIDE DEF v
  <2>2. u \in Seq(Nat) /\ n >= 1
      BY <2>1, UvarintShape DEF UvarintEnds
  <2> HIDE DEF u
  <2> QED  BY <2>1, <2>2
<1> HIDE DEF u, v
<1>4. /\ <<flag>> \in Seq(Nat) /\ Len(<<flag>>) = 1 /\ <<flag>>[1] = flag
      /\ <<flag>> \o u \in Seq(Nat) /\ Len(<<flag>> \o u) = 1 + n
      /\ Len(Frame(c)) = 1 + n + v
    BY <1>2, <1>3, FramePosition DEF v
<1>5. Holds(s, i, <<flag>> \o u) /\ Holds(s, i + (1 + n), payload)
  <2> DEFINE t == <<flag>> \o u
  <2> HIDE DEF t
  <2>1. t \in Seq(Nat) /\ Len(t) = 1 + n /\ Holds(s, i, t \o payload)
      BY <1>2, <1>4 DEF t
  <2>2. Holds(s, i, t) /\ Holds(s, i + Len(t), payload)
      BY <1>2, <2>1, HoldsConcat
  <2> QED  BY <2>1, <2>2 DEF t
<1>6. Holds(s, i, <<flag>>) /\ Holds(s, i + 1, u)
    BY <1>3, <1>4, <1>5, HoldsConcat
<1> HIDE DEF n
<1>7. i + (1 + n) + v - 1 <= Len(s)
    BY <1>5 DEF Holds, v
<1>8. s[i] = flag
  <2>1. \A k \in 1 .. 1 : i + k - 1 <= Len(s) => s[i + k - 1] = <<flag>>[k]
      BY <1>4, <1>6 DEF Holds, Continues
  <2>2. 1 \in 1 .. 1 /\ i + 1 - 1 <= Len(s) /\ i + 1 - 1 = i
      BY <1>3, <1>7
  <2> QED  BY <1>4, <2>1, <2>2
<1>9. Digits(s, i + 1) = n /\ Value(s, i + 1, n) = v
  <2>1. i + 1 \in Nat /\ i + 1 >= 1
      OBVIOUS
  <2> QED  BY <1>3, <1>6, <2>1, UvarintRead DEF u, n
<1>10. v <= MaxStored
  <2>1. MaxStored \in Nat /\ ZstdChunkSize \in Nat /\ ZstdChunkSize <= MaxStored
      BY CodecAssumption
  <2> QED  BY <1>2, <1>3, <2>1
<1>11. SubSeq(s, i + n + 1, i + n + v) = payload
  <2>1. i + (1 + n) \in Nat /\ i + (1 + n) >= 1 /\ i + (1 + n) = i + n + 1
        /\ i + (1 + n) + v - 1 = i + n + v
      BY <1>3
  <2>2. SubSeq(s, i + (1 + n), i + (1 + n) + v - 1) = payload
      BY <1>2, <1>5, <2>1, HoldsSubSeq DEF v
  <2> QED  BY <2>1, <2>2
<1>12. ~(i > Len(s) \/ n = 0 \/ v > MaxStored \/ i + n + v > Len(s))
  <2>1. MaxStored \in Nat
      BY CodecAssumption
  <2> QED  BY <1>3, <1>7, <1>10, <2>1
<1>13. FrameAt(s, i) = [to |-> i + n + v,
                        out |-> IF flag = 1 THEN Decompress[payload] ELSE payload]
    BY <1>2, <1>8, <1>9, <1>11, <1>12 DEF FrameAt
<1>14. i + n + v = i + (1 + n + v) - 1
    BY <1>3
<1> QED  BY <1>2, <1>4, <1>13, <1>14

\* A frame that is cut off is not read.
LEMMA FrameCut ==
    ASSUME NEW s \in Seq(Nat), NEW i \in Nat, i >= 1,
           NEW c \in Seq(Nat), Len(c) > 0, Continues(s, i, Frame(c)),
           i + Len(Frame(c)) - 1 > Len(s)
    PROVE  FrameAt(s, i).to = 0
<1>1. PICK flag, payload : FrameParts(c, flag, payload)
    BY FrameShape
<1> DEFINE v == Len(payload)
           u == Uvarint(v)
           n == Len(u)
<1>2. /\ flag \in {0, 1} /\ payload \in Seq(Nat)
      /\ Frame(c) = <<flag>> \o u \o payload
    BY <1>1 DEF FrameParts
<1>3. v \in Nat /\ u \in Seq(Nat) /\ n >= 1 /\ n \in Nat
      /\ \A k \in 1 .. (n - 1) : u[k] >= Base
  <2>1. v \in Nat
      BY <1>2
  <2> HIDE DEF v
  <2>2. u \in Seq(Nat) /\ n >= 1 /\ \A k \in 1 .. (n - 1) : u[k] >= Base
      BY <2>1, UvarintShape DEF UvarintEnds
  <2> HIDE DEF u
  <2> QED  BY <2>1, <2>2
<1> HIDE DEF u, v
<1>4. /\ <<flag>> \in Seq(Nat) /\ Len(<<flag>>) = 1
      /\ <<flag>> \o u \in Seq(Nat) /\ Len(Frame(c)) = 1 + n + v
    BY <1>2, <1>3, FramePosition DEF v
<1>5. Continues(s, i, <<flag>> \o u)
    BY <1>2, <1>4, ContinuesConcat
<1>6. Continues(s, i + 1, u)
    BY <1>3, <1>4, <1>5, ContinuesConcat
<1> DEFINE none == [to |-> 0, out |-> <<>>]
<1>7. none.to = 0
    OBVIOUS
<1> HIDE DEF none
<1>8. CASE i > Len(s)
  <2>1. FrameAt(s, i) = none
      BY <1>8 DEF FrameAt, none
  <2> QED  BY <1>7, <2>1
<1>9. CASE i + n > Len(s)
  <2>1. \A k \in (i + 1) .. Len(s) : ~(s[k] < Base)
    <3> SUFFICES ASSUME NEW k \in (i + 1) .. Len(s) PROVE ~(s[k] < Base)
        OBVIOUS
    <3> DEFINE x == k - i
    <3>1. x \in 1 .. n /\ x \in 1 .. (n - 1) /\ (i + 1) + x - 1 <= Len(s) /\ (i + 1) + x - 1 = k
        BY <1>3, <1>9
    <3> HIDE DEF x
    <3>2. s[k] = u[x]
        BY <1>6, <3>1 DEF Continues, n
    <3>3. u[x] >= Base
        BY <1>3, <3>1
    <3>4. u[x] \in Nat
      <4>1. \A y \in 1 .. Len(u) : u[y] \in Nat
          BY <1>3, SMTT(30)
      <4> QED  BY <3>1, <4>1 DEF n
    <3> QED  BY <3>2, <3>3, <3>4, BaseFacts
  <2>2. Digits(s, i + 1) = 0
      BY <2>1, NoDigits
  <2>3. FrameAt(s, i) = none
      BY <2>2 DEF FrameAt, none
  <2> QED  BY <1>7, <2>3
<1>10. CASE i + n <= Len(s)
  <2>1. Holds(s, i + 1, u)
      BY <1>3, <1>6, <1>10 DEF Holds, n
  <2>2. Digits(s, i + 1) = n /\ Value(s, i + 1, n) = v
    <3>1. i + 1 \in Nat /\ i + 1 >= 1
        OBVIOUS
    <3> QED  BY <1>3, <2>1, <3>1, UvarintRead DEF u, n
  <2>3. i + n + v > Len(s)
      BY <1>3, <1>4
  <2>4. FrameAt(s, i) = none
      BY <2>2, <2>3 DEF FrameAt, none
  <2> QED  BY <1>7, <2>4
<1>11. i + n > Len(s) \/ i + n <= Len(s)
    BY <1>3
<1> QED  BY <1>9, <1>10, <1>11

-----------------------------------------------------------------------------
(* Reading what was written *)

\* The bytes Read gives from position i of s on.
Rest(s, r, i) == FlattenSeq(ReadsFrom(s, r)[i])

LEMMA RestType ==
    ASSUME NEW s \in Seq(Nat), NEW r \in Nat \ {0}
    PROVE  \A i \in 1 .. Len(s) + 1 : Rest(s, r, i) \in Seq(Nat)
<1>1. \A i \in 1 .. Len(s) + 1 : ReadsFrom(s, r)[i] \in Seq(Seq(Nat))
    BY ReadsDef
<1>2. \A t \in Seq(Seq(Nat)) : FlattenSeq(t) \in Seq(Nat)
    BY FlattenType
<1> QED  BY <1>1, <1>2 DEF Rest

LEMMA RestEnd ==
    ASSUME NEW s \in Seq(Nat), NEW r \in Nat \ {0}, NEW i \in 1 .. Len(s) + 1,
           FrameAt(s, i).to = 0
    PROVE  Rest(s, r, i) = <<>>
<1>1. ReadsFrom(s, r)[i] = <<>>
    BY ReadsDef
<1> QED  BY <1>1, FlattenEmpty DEF Rest

LEMMA RestStep ==
    ASSUME NEW s \in Seq(Nat), NEW r \in Nat \ {0}, NEW i \in 1 .. Len(s) + 1,
           FrameAt(s, i).to # 0
    PROVE  Rest(s, r, i) = FrameAt(s, i).out \o Rest(s, r, FrameAt(s, i).to + 1)
<1> DEFINE out == FrameAt(s, i).out
           to == FrameAt(s, i).to
<1>1. out \in Seq(Nat) /\ to \in (i + 1) .. Len(s)
    BY FrameAtType
<1>2. ReadsFrom(s, r)[i] = PiecesFrom(out, r)[0] \o ReadsFrom(s, r)[to + 1]
    BY ReadsDef
<1> HIDE DEF out, to
<1>3. ReadsFrom(s, r)[to + 1] \in Seq(Seq(Nat))
  <2>1. to + 1 \in 1 .. Len(s) + 1
      BY <1>1
  <2> QED  BY <2>1, ReadsDef
<1>4. PiecesFrom(out, r)[0] \in Seq(Seq(Nat))
  <2>1. 0 \in 0 .. Len(out)
      BY <1>1
  <2> QED  BY <1>1, <2>1, PiecesDef
<1>5. FlattenSeq(PiecesFrom(out, r)[0]) = out
    BY <1>1, PiecesFlat
<1>6. FlattenSeq(PiecesFrom(out, r)[0] \o ReadsFrom(s, r)[to + 1])
        = FlattenSeq(PiecesFrom(out, r)[0]) \o FlattenSeq(ReadsFrom(s, r)[to + 1])
    BY <1>3, <1>4, FlattenConcat
<1> QED  BY <1>2, <1>5, <1>6 DEF Rest, out, to

\* A chunk as Write cuts it.
LEMMA ChunkFacts ==
    ASSUME NEW p \in Seq(Nat), NEW k \in 0 .. Len(p), k < Len(p)
    PROVE  LET e == Upto(k, ZstdChunkSize, Len(p))
               c == SubSeq(p, k + 1, e)
           IN  /\ e \in (k + 1) .. Len(p) /\ c \in Seq(Nat) /\ Len(c) > 0
               /\ Len(c) <= ZstdChunkSize
               /\ Frame(c) \in Seq(Nat) /\ FramesFrom(p)[e] \in Seq(Nat)
               /\ FramesFrom(p)[k] = Frame(c) \o FramesFrom(p)[e]
               /\ c \o SubSeq(p, e + 1, Len(p)) = SubSeq(p, k + 1, Len(p))
<1> DEFINE n == Len(p)
           e == Upto(k, ZstdChunkSize, n)
           c == SubSeq(p, k + 1, e)
<1>0. ZstdChunkSize \in Nat \ {0} /\ n \in Nat /\ k \in Nat
    BY CodecAssumption
<1>1. e \in (k + 1) .. n /\ e - k <= ZstdChunkSize
  <2> HIDE DEF n
  <2>1. k < n
      BY DEF n
  <2> QED  BY <1>0, <2>1, UptoFacts
<1>2. FramesFrom(p)[k] = Frame(c) \o FramesFrom(p)[e]
  <2>1. ~(k >= n)
      BY <1>0
  <2> QED  BY <2>1, FramesDef
<1> HIDE DEF e
<1>3. c \in Seq(Nat) /\ Len(c) = e - k
  <2>1. \A j \in (k + 1) .. e : p[j] \in Nat
      BY <1>0, <1>1
  <2>2. k + 1 \in Int /\ e \in Int /\ k + 1 <= e /\ e - (k + 1) + 1 = e - k
      BY <1>0, <1>1
  <2> QED  BY <2>1, <2>2, SubSeqProperties
<1>4. Len(c) > 0 /\ Len(c) <= ZstdChunkSize
    BY <1>0, <1>1, <1>3
<1>5. Frame(c) \in Seq(Nat)
  <2> HIDE DEF c
  <2> QED  BY <1>3, <1>4, FrameType
<1>6. FramesFrom(p)[e] \in Seq(Nat)
  <2>1. e \in 0 .. Len(p)
      BY <1>0, <1>1
  <2> QED  BY <2>1, FramesDef
<1>7. c \o SubSeq(p, e + 1, n) = SubSeq(p, k + 1, n)
  <2>1. k + 1 \in 1 .. Len(p) + 1 /\ e \in (k + 1) - 1 .. Len(p) /\ n \in e .. Len(p)
      BY <1>0, <1>1
  <2> HIDE DEF n
  <2> QED  BY <2>1, ConcatAdjacentSubSeq
<1> HIDE DEF c
<1> QED  BY <1>1, <1>2, <1>3, <1>4, <1>5, <1>6, <1>7 DEF c, e, n

LEMMA FrameNotEmpty ==
    ASSUME NEW c \in Seq(Nat), Len(c) > 0
    PROVE  Frame(c) \in Seq(Nat) /\ Len(Frame(c)) \in Nat \ {0}
<1>1. PICK flag, payload : FrameParts(c, flag, payload)
    BY FrameShape
<1>2. /\ flag \in {0, 1} /\ payload \in Seq(Nat) /\ Len(payload) \in Nat
      /\ Frame(c) = <<flag>> \o Uvarint(Len(payload)) \o payload
    BY <1>1 DEF FrameParts
<1>3. Uvarint(Len(payload)) \in Seq(Nat)
    BY <1>2, UvarintDef, Zenon
<1>4. Len(Frame(c)) = 1 + Len(Uvarint(Len(payload))) + Len(payload)
    BY <1>2, <1>3, FramePosition
<1>5. Len(Uvarint(Len(payload))) \in Nat
    BY <1>3
<1>6. Len(Frame(c)) \in Nat \ {0}
    BY <1>2, <1>4, <1>5
<1> QED  BY <1>6, FrameType

LEMMA HoldsWithin ==
    ASSUME NEW s \in Seq(Nat), NEW i \in 1 .. Len(s) + 1, NEW t \in Seq(Nat), Holds(s, i, t)
    PROVE  i + Len(t) \in 1 .. Len(s) + 1
<1>1. i + Len(t) - 1 <= Len(s)
    BY DEF Holds
<1> QED  BY <1>1

\* Reading goes on behind a frame.
LEMMA ChunkRead ==
    ASSUME NEW s \in Seq(Nat), NEW r \in Nat \ {0}, NEW i \in 1 .. Len(s) + 1,
           NEW c \in Seq(Nat), Len(c) > 0, Len(c) <= ZstdChunkSize, Holds(s, i, Frame(c))
    PROVE  /\ i + Len(Frame(c)) \in 1 .. Len(s) + 1
           /\ Rest(s, r, i) = c \o Rest(s, r, i + Len(Frame(c)))
<1>1. Frame(c) \in Seq(Nat) /\ Len(Frame(c)) \in Nat \ {0}
    BY FrameNotEmpty
<1>2. i \in Nat /\ i >= 1
    OBVIOUS
<1>3. FrameAt(s, i).to = i + Len(Frame(c)) - 1 /\ FrameAt(s, i).out = c
    BY <1>2, FrameRead
<1>4. FrameAt(s, i).to # 0 /\ FrameAt(s, i).to + 1 = i + Len(Frame(c))
    BY <1>1, <1>2, <1>3
<1>5. Rest(s, r, i) = c \o Rest(s, r, i + Len(Frame(c)))
    BY <1>3, <1>4, RestStep
<1> QED  BY <1>1, <1>5, HoldsWithin

\* What a call of Write put into the stream is read back, and reading goes on
\* behind it.
LEMMA WriteRead ==
    ASSUME NEW s \in Seq(Nat), NEW r \in Nat \ {0}, NEW p \in Seq(Nat)
    PROVE  \A i \in 1 .. Len(s) + 1 :
              Holds(s, i, Write(p)) =>
                 /\ i + Len(Write(p)) \in 1 .. Len(s) + 1
                 /\ Rest(s, r, i) = p \o Rest(s, r, i + Len(Write(p)))
<1> DEFINE n == Len(p)
           Wire(k) == FramesFrom(p)[k]
           Back(i, k) == Rest(s, r, i) = SubSeq(p, k + 1, n) \o Rest(s, r, i + Len(Wire(k)))
           P == { j \in Nat : j <= n => \A i \in 1 .. Len(s) + 1 :
                     Holds(s, i, Wire(n - j)) => Back(i, n - j) }
<1>0. n \in Nat
    OBVIOUS
<1>a. \A i \in 1 .. Len(s) + 1, t \in Seq(Nat) :
          Holds(s, i, t) => i + Len(t) \in 1 .. Len(s) + 1
    BY HoldsWithin
<1>1. ASSUME NEW j \in Nat, \A x \in 0 .. (j - 1) : x \in P
      PROVE  j \in P
  <2> SUFFICES ASSUME j <= n, NEW i \in 1 .. Len(s) + 1, Holds(s, i, Wire(n - j))
               PROVE  Back(i, n - j)
      OBVIOUS
  <2> DEFINE k == n - j
  <2>0. i \in Nat /\ i >= 1
      OBVIOUS
  <2>1. k \in 0 .. n /\ k \in Nat
      BY <1>0
  <2>2. CASE j = 0
    <3>1. k = n
        BY <1>0, <2>2
    <3>2. Wire(n) = <<>>
      <4>1. n \in 0 .. Len(p) /\ n >= Len(p)
          BY <1>0
      <4> QED  BY <4>1, FramesDef
    <3>3. Len(<<>>) = 0 /\ i + 0 = i
        OBVIOUS
    <3>4. SubSeq(p, n + 1, n) = <<>>
        BY <1>0, SubSeqEmpty
    <3>5. <<>> \o Rest(s, r, i) = Rest(s, r, i)
        BY RestType, ConcatEmptySeq
    <3> HIDE DEF n, Wire
    <3> QED  BY <3>1, <3>2, <3>3, <3>4, <3>5
  <2>3. CASE j # 0
    <3>1. k < n
        BY <1>0, <2>3
    <3> DEFINE e == Upto(k, ZstdChunkSize, n)
               c == SubSeq(p, k + 1, e)
    <3>2. /\ e \in (k + 1) .. n /\ c \in Seq(Nat) /\ Len(c) > 0 /\ Len(c) <= ZstdChunkSize
          /\ Frame(c) \in Seq(Nat) /\ Wire(e) \in Seq(Nat) /\ Wire(k) = Frame(c) \o Wire(e)
          /\ c \o SubSeq(p, e + 1, n) = SubSeq(p, k + 1, n)
      <4> HIDE DEF k
      <4> QED  BY <2>1, <3>1, ChunkFacts
    <3> HIDE DEF e, c, Wire
    <3> DEFINE f == Frame(c)
    <3>3. Holds(s, i, f) /\ Holds(s, i + Len(f), Wire(e))
      <4>1. Holds(s, i, f \o Wire(e))
          BY <3>2, Zenon
      <4>2. f \in Seq(Nat) /\ Wire(e) \in Seq(Nat)
          BY <3>2
      <4> HIDE DEF f
      <4> QED  BY <2>0, <4>1, <4>2, HoldsConcat
    <3>5. f \in Seq(Nat) /\ Len(f) \in Nat
        BY <3>2
    <3>7. i + Len(f) \in 1 .. Len(s) + 1 /\ Rest(s, r, i) = c \o Rest(s, r, i + Len(f))
        BY <3>2, <3>3, ChunkRead, ZenonT(30)
    <3> HIDE DEF f
    <3>8. Rest(s, r, i + Len(f)) = SubSeq(p, e + 1, n) \o Rest(s, r, i + Len(f) + Len(Wire(e)))
      <4>1. n - e \in 0 .. (j - 1) /\ n - e <= n /\ n - (n - e) = e
          BY <1>0, <2>1, <3>2
      <4>2. n - e \in P
          BY <1>1, <4>1
      <4> HIDE DEF n
      <4> QED  BY <3>3, <3>7, <4>1, <4>2
    <3>9. i + Len(f) + Len(Wire(e)) = i + Len(Wire(k))
      <4>1. Len(Wire(k)) = Len(f) + Len(Wire(e))
          BY <3>2, <3>5, ConcatProperties DEF f
      <4>2. Len(Wire(e)) \in Nat
          BY <3>2
      <4>3. \A x, y, z \in Nat : x + y + z = x + (y + z)
          OBVIOUS
      <4>4. i + Len(f) + Len(Wire(e)) = i + (Len(f) + Len(Wire(e)))
          BY <2>0, <3>5, <4>2, <4>3, ZenonT(30)
      <4> QED  BY <4>1, <4>4, Zenon
    <3> DEFINE x == Rest(s, r, i + Len(Wire(k)))
               q == SubSeq(p, e + 1, n)
    <3>10. x \in Seq(Nat)
      <4>1. Wire(k) \in Seq(Nat)
          BY <2>1, FramesDef DEF Wire
      <4>2. i + Len(Wire(k)) \in 1 .. Len(s) + 1
          BY <1>a, <4>1
      <4> QED  BY <4>2, RestType
    <3>11. q \in Seq(Nat)
      <4>1. \A y \in (e + 1) .. n : p[y] \in Nat
        <5>1. \A y \in 1 .. n : p[y] \in Nat
            OBVIOUS
        <5>2. \A y \in (e + 1) .. n : y \in 1 .. n
          <6> HIDE DEF k, n
          <6> QED  BY <1>0, <2>1, <3>2
        <5> QED  BY <5>1, <5>2
      <4>2. e + 1 \in Int /\ n \in Int
          BY <1>0, <3>2
      <4> QED  BY <4>1, <4>2, SubSeqProperties
    <3> HIDE DEF x, q
    <3>12. (c \o q) \o x = c \o (q \o x)
      <4>1. c \in Seq(Nat)
          BY <3>2
      <4> QED  BY <4>1, <3>10, <3>11, ConcatAssocNat, ZenonT(30)
    <3>13. c \o q = SubSeq(p, k + 1, n)
        BY <3>2 DEF q
    <3>14. Rest(s, r, i + Len(f)) = q \o x
        BY <3>8, <3>9 DEF q, x
    <3>15. Rest(s, r, i) = SubSeq(p, k + 1, n) \o x
        BY <3>7, <3>12, <3>13, <3>14
    <3> QED  BY <3>15 DEF x
  <2> QED  BY <2>2, <2>3
<1>2. P = Nat
  <2>1. P \subseteq Nat
      OBVIOUS
  <2> HIDE DEF P
  <2> QED  BY <1>1, <2>1, Induction
<1>3. \A i \in 1 .. Len(s) + 1 : Holds(s, i, Wire(0)) => Back(i, 0)
  <2> HIDE DEF Back, Wire
  <2>1. n \in P /\ n <= n /\ n - n = 0
    <3> HIDE DEF P, n
    <3> QED  BY <1>0, <1>2
  <2> HIDE DEF n
  <2> QED  BY <2>1
<1>4. Wire(0) = Write(p) /\ Wire(0) \in Seq(Nat)
  <2>1. 0 \in 0 .. Len(p)
      OBVIOUS
  <2> QED  BY <2>1, FramesDef DEF Write
<1>5. SubSeq(p, 0 + 1, n) = p
    OBVIOUS
<1> HIDE DEF Wire, n
<1>6. \A i \in 1 .. Len(s) + 1 : Holds(s, i, Write(p)) =>
         Rest(s, r, i) = p \o Rest(s, r, i + Len(Write(p)))
    BY <1>3, <1>4, <1>5
<1>7. \A i \in 1 .. Len(s) + 1 : Holds(s, i, Write(p)) => i + Len(Write(p)) \in 1 .. Len(s) + 1
    BY <1>a, <1>4
<1> QED  BY <1>6, <1>7

\* x is y up to some point.
Begins(x, y) == \E u \in Seq(Nat) : y = x \o u

LEMMA BeginsFacts ==
    ASSUME NEW x \in Seq(Nat), NEW y \in Seq(Nat), NEW c \in Seq(Nat)
    PROVE  /\ Begins(<<>>, y)
           /\ Begins(x, y) => Begins(c \o x, c \o y)
           /\ Begins(x, y) => Begins(x, y \o c)
           /\ Begins(x, y) => IsPrefix(x, y)
<1>1. Begins(<<>>, y)
  <2>1. y = <<>> \o y
      OBVIOUS
  <2> QED  BY <2>1 DEF Begins
<1>2. ASSUME NEW u \in Seq(Nat), y = x \o u
      PROVE  Begins(c \o x, c \o y) /\ Begins(x, y \o c) /\ IsPrefix(x, y)
  <2>1. (c \o x) \o u = c \o (x \o u) /\ (x \o u) \o c = x \o (u \o c)
      BY ConcatAssocNat, ZenonT(30)
  <2>2. u \o c \in Seq(Nat)
      OBVIOUS
  <2>3. Begins(c \o x, c \o y) /\ Begins(x, y \o c)
      BY <1>2, <2>1, <2>2, Zenon DEF Begins
  <2>4. Len(x) <= Len(x \o u)
      OBVIOUS
  <2>5. SubSeq(x \o u, 1, Len(x)) = x /\ SubSeq(x, 1, Len(x)) = x
      OBVIOUS
  <2> QED  BY <1>2, <2>3, <2>4, <2>5 DEF IsPrefix
<1> QED  BY <1>1, <1>2 DEF Begins

LEMMA WriteType ==
    ASSUME NEW p \in Seq(Nat)
    PROVE  Write(p) \in Seq(Nat)
<1>1. 0 \in 0 .. Len(p)
    OBVIOUS
<1> QED  BY <1>1, FramesDef DEF Write

\* A call of Write that is cut off is read back up to some point.
LEMMA WriteCut ==
    ASSUME NEW s \in Seq(Nat), NEW r \in Nat \ {0}, NEW p \in Seq(Nat)
    PROVE  \A i \in 1 .. Len(s) + 1 :
              (Continues(s, i, Write(p)) /\ i + Len(Write(p)) - 1 > Len(s))
                 => Begins(Rest(s, r, i), p)
<1> DEFINE n == Len(p)
           Wire(k) == FramesFrom(p)[k]
           Cut(i, k) == Continues(s, i, Wire(k)) /\ i + Len(Wire(k)) - 1 > Len(s)
           P == { j \in Nat : j <= n => \A i \in 1 .. Len(s) + 1 :
                     Cut(i, n - j) => Begins(Rest(s, r, i), SubSeq(p, n - j + 1, n)) }
<1>0. n \in Nat /\ Len(s) \in Nat
    OBVIOUS
<1>1. ASSUME NEW j \in Nat, \A x \in 0 .. (j - 1) : x \in P
      PROVE  j \in P
  <2> SUFFICES ASSUME j <= n, NEW i \in 1 .. Len(s) + 1, Cut(i, n - j)
               PROVE  Begins(Rest(s, r, i), SubSeq(p, n - j + 1, n))
      OBVIOUS
  <2> DEFINE k == n - j
  <2>0. i \in Nat /\ i >= 1
      OBVIOUS
  <2>1. k \in 0 .. n /\ k \in Nat
      BY <1>0
  <2>2. j # 0
    <3> SUFFICES ASSUME j = 0 PROVE FALSE
        OBVIOUS
    <3>1. k = n
        BY <1>0
    <3>2. Wire(n) = <<>>
      <4>1. n \in 0 .. Len(p) /\ n >= Len(p)
          BY <1>0
      <4> QED  BY <4>1, FramesDef
    <3>3. Len(Wire(k)) = 0
      <4> HIDE DEF Wire, k, n
      <4> QED  BY <3>1, <3>2
    <3>4. i + Len(Wire(k)) - 1 > Len(s)
        OBVIOUS
    <3> HIDE DEF Wire, k
    <3> QED  BY <1>0, <2>0, <3>3, <3>4
  <2>3. k < n
      BY <1>0, <2>2
  <2> DEFINE e == Upto(k, ZstdChunkSize, n)
             c == SubSeq(p, k + 1, e)
  <2>4. /\ e \in (k + 1) .. n /\ c \in Seq(Nat) /\ Len(c) > 0 /\ Len(c) <= ZstdChunkSize
        /\ Frame(c) \in Seq(Nat) /\ Wire(e) \in Seq(Nat) /\ Wire(k) = Frame(c) \o Wire(e)
        /\ c \o SubSeq(p, e + 1, n) = SubSeq(p, k + 1, n)
    <3> HIDE DEF k
    <3> QED  BY <2>1, <2>3, ChunkFacts
  <2> HIDE DEF e, c, Wire
  <2> DEFINE f == Frame(c)
             q == SubSeq(p, e + 1, n)
  <2>5. f \in Seq(Nat) /\ Len(f) \in Nat /\ Wire(e) \in Seq(Nat) /\ Len(Wire(e)) \in Nat
    <3>1. f \in Seq(Nat) /\ Wire(e) \in Seq(Nat)
        BY <2>4
    <3> HIDE DEF f
    <3> QED  BY <3>1
  <2>6. q \in Seq(Nat) /\ c \o q \in Seq(Nat)
    <3>1. \A y \in 1 .. n : p[y] \in Nat
        OBVIOUS
    <3>2. \A y \in (e + 1) .. n : y \in 1 .. n
      <4> HIDE DEF k, n
      <4> QED  BY <1>0, <2>1, <2>4
    <3>3. \A y \in (e + 1) .. n : p[y] \in Nat
        BY <3>1, <3>2
    <3>4. e + 1 \in Int /\ n \in Int
        BY <1>0, <2>4
    <3>5. q \in Seq(Nat)
        BY <3>3, <3>4, SubSeqProperties
    <3> HIDE DEF q
    <3> QED  BY <2>4, <3>5
  <2>7. SubSeq(p, n - j + 1, n) = c \o q
      BY <2>4
  <2>8. Continues(s, i, f) /\ Continues(s, i + Len(f), Wire(e))
    <3>1. Continues(s, i, f \o Wire(e))
        BY <2>4, Zenon
    <3> HIDE DEF f
    <3> QED  BY <2>0, <2>5, <3>1, ContinuesConcat
  <2>9. i + (Len(f) + Len(Wire(e))) - 1 > Len(s)
    <3>1. i + Len(Wire(k)) - 1 > Len(s)
        OBVIOUS
    <3>2. Len(f \o Wire(e)) = Len(f) + Len(Wire(e))
      <4> HIDE DEF f
      <4> QED  BY <2>5, ConcatProperties
    <3>3. Wire(k) = f \o Wire(e)
        BY <2>4
    <3> HIDE DEF f, k
    <3> QED  BY <3>1, <3>2, <3>3
  <2>10. CASE i + Len(f) - 1 > Len(s)
    <3>1. FrameAt(s, i).to = 0
        BY <2>0, <2>4, <2>8, <2>10, FrameCut
    <3>2. Rest(s, r, i) = <<>>
        BY <3>1, RestEnd
    <3>3. Begins(<<>>, c \o q)
        BY <2>6, BeginsFacts
    <3> QED  BY <2>7, <3>2, <3>3
  <2>11. CASE i + Len(f) - 1 <= Len(s)
    <3>1. Holds(s, i, f)
        BY <2>8, <2>11 DEF Holds
    <3>2. i + Len(f) \in 1 .. Len(s) + 1 /\ Rest(s, r, i) = c \o Rest(s, r, i + Len(f))
        BY <2>4, <3>1, ChunkRead, ZenonT(30)
    <3> HIDE DEF f
    <3>3. i + Len(f) + Len(Wire(e)) - 1 > Len(s)
      <4>1. \A a, b \in Nat : i + (a + b) = i + a + b
          BY <2>0
      <4>2. i + (Len(f) + Len(Wire(e))) = i + Len(f) + Len(Wire(e))
          BY <2>5, <4>1
      <4> QED  BY <2>9, <4>2
    <3>4. Begins(Rest(s, r, i + Len(f)), q)
      <4>1. n - e \in 0 .. (j - 1) /\ n - e <= n /\ n - (n - e) = e
          BY <1>0, <2>1, <2>4
      <4>2. n - e \in P
          BY <1>1, <4>1
      <4>3. Cut(i + Len(f), e)
          BY <2>8, <3>3
      <4> HIDE DEF n, Cut
      <4> QED  BY <3>2, <4>1, <4>2, <4>3
    <3>5. Rest(s, r, i + Len(f)) \in Seq(Nat)
        BY <3>2, RestType
    <3>6. Begins(c \o Rest(s, r, i + Len(f)), c \o q)
      <4> HIDE DEF q
      <4>1. c \in Seq(Nat) /\ q \in Seq(Nat)
          BY <2>4, <2>6
      <4> QED  BY <3>4, <3>5, <4>1, BeginsFacts
    <3> QED  BY <2>7, <3>2, <3>6
  <2>12. i + Len(f) - 1 > Len(s) \/ i + Len(f) - 1 <= Len(s)
    <3> HIDE DEF f
    <3> QED  BY <1>0, <2>0, <2>5
  <2> QED  BY <2>10, <2>11, <2>12
<1>2. P = Nat
  <2>1. P \subseteq Nat
      OBVIOUS
  <2> HIDE DEF P
  <2> QED  BY <1>1, <2>1, Induction
<1>3. \A i \in 1 .. Len(s) + 1 : Cut(i, 0) => Begins(Rest(s, r, i), SubSeq(p, 0 + 1, n))
  <2> HIDE DEF Cut, Wire
  <2>1. n \in P /\ n <= n /\ n - n = 0
    <3> HIDE DEF P, n
    <3> QED  BY <1>0, <1>2
  <2> HIDE DEF n
  <2> QED  BY <2>1
<1>4. SubSeq(p, 0 + 1, n) = p
    OBVIOUS
<1> QED  BY <1>3, <1>4 DEF Write

LEMMA WrittenType ==
    ASSUME NEW ps \in Seq(Seq(Nat))
    PROVE  /\ [k \in 1 .. Len(ps) |-> Write(ps[k])] \in Seq(Seq(Nat))
           /\ Written(ps) \in Seq(Nat)
<1>1. \A k \in 1 .. Len(ps) : Write(ps[k]) \in Seq(Nat)
  <2>1. \A k \in 1 .. Len(ps) : ps[k] \in Seq(Nat)
      OBVIOUS
  <2> QED  BY <2>1, WriteType
<1>2. [k \in 1 .. Len(ps) |-> Write(ps[k])] \in Seq(Seq(Nat))
    BY <1>1, IsASeq
<1> QED  BY <1>2, FlattenType DEF Written

LEMMA WrittenEmpty == Written(<<>>) = <<>>
<1>1. [k \in 1 .. Len(<<>>) |-> Write(<<>>[k])] = <<>>
    OBVIOUS
<1> QED  BY <1>1, FlattenEmpty DEF Written

LEMMA WrittenFirst ==
    ASSUME NEW p \in Seq(Nat), NEW qs \in Seq(Seq(Nat))
    PROVE  /\ Written(<<p>> \o qs) = Write(p) \o Written(qs)
           /\ FlattenSeq(<<p>> \o qs) = p \o FlattenSeq(qs)
<1> DEFINE ps == <<p>> \o qs
           Wire(xs) == [k \in 1 .. Len(xs) |-> Write(xs[k])]
<1>1. <<p>> \in Seq(Seq(Nat)) /\ <<Write(p)>> \in Seq(Seq(Nat)) /\ Write(p) \in Seq(Nat)
    BY WriteType
<1>2. Wire(qs) \in Seq(Seq(Nat))
    BY WrittenType
<1>3. /\ Len(ps) = 1 + Len(qs) /\ ps[1] = p
      /\ \A k \in 1 .. Len(qs) : ps[k + 1] = qs[k]
    BY <1>1
<1>4. Wire(ps) = <<Write(p)>> \o Wire(qs)
  <2> DEFINE t == <<Write(p)>> \o Wire(qs)
             w == Write(p)
  <2>1. Len(Wire(qs)) = Len(qs) /\ \A k \in 1 .. Len(qs) : Wire(qs)[k] = Write(qs[k])
      OBVIOUS
  <2> HIDE DEF Wire
  <2>2. /\ t \in Seq(Seq(Nat)) /\ Len(t) = 1 + Len(qs) /\ t[1] = Write(p)
        /\ \A k \in 1 .. Len(qs) : t[k + 1] = Wire(qs)[k]
    <3>1. w \in Seq(Nat)
        BY <1>1
    <3> HIDE DEF w
    <3>2. /\ <<w>> \o Wire(qs) \in Seq(Seq(Nat)) /\ Len(<<w>> \o Wire(qs)) = 1 + Len(Wire(qs))
          /\ (<<w>> \o Wire(qs))[1] = w
          /\ \A k \in 1 .. Len(Wire(qs)) : (<<w>> \o Wire(qs))[k + 1] = Wire(qs)[k]
        BY <1>2, <3>1
    <3> QED  BY <2>1, <3>2 DEF w
  <2> HIDE DEF t, ps
  <2>3. t = [k \in 1 .. Len(ps) |-> t[k]]
      BY <1>3, <2>2
  <2>4. \A k \in 1 .. Len(ps) : t[k] = Write(ps[k])
    <3> SUFFICES ASSUME NEW k \in 1 .. Len(ps) PROVE t[k] = Write(ps[k])
        OBVIOUS
    <3>1. CASE k = 1
        BY <1>3, <2>2, <3>1
    <3>2. CASE k # 1
      <4>1. k - 1 \in 1 .. Len(qs) /\ k - 1 + 1 = k
          BY <1>3, <3>2
      <4>2. t[k - 1 + 1] = Wire(qs)[k - 1] /\ ps[k - 1 + 1] = qs[k - 1]
          BY <1>3, <2>2, <4>1
      <4> QED  BY <2>1, <4>1, <4>2
    <3> QED  BY <3>1, <3>2
  <2>5. Wire(ps) = t
      BY <2>3, <2>4 DEF Wire
  <2> QED  BY <2>5 DEF t
<1>5. FlattenSeq(<<Write(p)>> \o Wire(qs)) = FlattenSeq(<<Write(p)>>) \o FlattenSeq(Wire(qs))
    BY <1>1, <1>2, FlattenConcat
<1>6. FlattenSeq(<<p>> \o qs) = FlattenSeq(<<p>>) \o FlattenSeq(qs)
    BY <1>1, FlattenConcat
<1>7. FlattenSeq(<<Write(p)>>) = Write(p) /\ FlattenSeq(<<p>>) = p
    BY <1>1, FlattenOne
<1>8. Written(ps) = FlattenSeq(Wire(ps)) /\ Written(qs) = FlattenSeq(Wire(qs))
    BY DEF Written
<1> HIDE DEF Wire, ps
<1>9. Written(ps) = Write(p) \o Written(qs)
    BY <1>4, <1>5, <1>7, <1>8
<1> QED  BY <1>6, <1>7, <1>9 DEF ps

\* The stream from position i on against what the calls of Write were given.
LEMMA CallsRead ==
    ASSUME NEW s \in Seq(Nat), NEW r \in Nat \ {0}
    PROVE  \A ps \in Seq(Seq(Nat)), i \in 1 .. Len(s) + 1 :
              /\ Holds(s, i, Written(ps)) =>
                    /\ i + Len(Written(ps)) \in 1 .. Len(s) + 1
                    /\ Rest(s, r, i) = FlattenSeq(ps) \o Rest(s, r, i + Len(Written(ps)))
              /\ (Continues(s, i, Written(ps)) /\ i + Len(Written(ps)) - 1 > Len(s))
                    => Begins(Rest(s, r, i), FlattenSeq(ps))
<1> DEFINE Whole(ps, i) == Rest(s, r, i) = FlattenSeq(ps) \o Rest(s, r, i + Len(Written(ps)))
           Cut(ps, i) == Continues(s, i, Written(ps)) /\ i + Len(Written(ps)) - 1 > Len(s)
           Good(ps) == \A i \in 1 .. Len(s) + 1 :
                          /\ Holds(s, i, Written(ps)) => Whole(ps, i)
                          /\ Cut(ps, i) => Begins(Rest(s, r, i), FlattenSeq(ps))
           P == { j \in Nat : \A ps \in Seq(Seq(Nat)) : Len(ps) = j => Good(ps) }
<1>0. Len(s) \in Nat
    OBVIOUS
<1>1. ASSUME NEW j \in Nat, \A x \in 0 .. (j - 1) : x \in P
      PROVE  j \in P
  <2> SUFFICES ASSUME NEW ps \in Seq(Seq(Nat)), Len(ps) = j PROVE Good(ps)
      OBVIOUS
  <2>1. CASE ps = <<>>
    <3> SUFFICES ASSUME NEW i \in 1 .. Len(s) + 1
                 PROVE  Whole(<<>>, i) /\ ~Cut(<<>>, i)
        BY <2>1, Zenon
    <3>1. Written(<<>>) = <<>> /\ FlattenSeq(<<>>) = <<>> /\ Len(<<>>) = 0
        BY WrittenEmpty, FlattenEmpty
    <3>2. i + 0 = i /\ ~(i + 0 - 1 > Len(s))
        BY <1>0
    <3>3. <<>> \o Rest(s, r, i) = Rest(s, r, i)
        BY RestType, ConcatEmptySeq
    <3> QED  BY <3>1, <3>2, <3>3
  <2>2. CASE ps # <<>>
    <3> DEFINE p == Head(ps)
               qs == Tail(ps)
    <3>1. p \in Seq(Nat) /\ qs \in Seq(Seq(Nat)) /\ Len(qs) \in 0 .. (j - 1) /\ ps = <<p>> \o qs
        BY <2>2
    <3> HIDE DEF p, qs
    <3>2. Good(qs)
        BY <1>1, <3>1
    <3>3. Written(ps) = Write(p) \o Written(qs) /\ FlattenSeq(ps) = p \o FlattenSeq(qs)
        BY <3>1, WrittenFirst
    <3>4. Write(p) \in Seq(Nat) /\ Written(qs) \in Seq(Nat) /\ FlattenSeq(qs) \in Seq(Nat)
        BY <3>1, WriteType, WrittenType, FlattenType
    <3> DEFINE w == Write(p)
               v == Written(qs)
               d == FlattenSeq(qs)
    <3>5. Len(w) \in Nat /\ Len(v) \in Nat /\ Len(w \o v) = Len(w) + Len(v)
      <4> w \in Seq(Nat) /\ v \in Seq(Nat)
          BY <3>4
      <4> HIDE DEF w, v
      <4> QED  BY ConcatProperties
    <3> SUFFICES ASSUME NEW i \in 1 .. Len(s) + 1
                 PROVE  /\ Holds(s, i, Written(ps)) => Whole(ps, i)
                        /\ Cut(ps, i) => Begins(Rest(s, r, i), FlattenSeq(ps))
        OBVIOUS
    <3>6. i \in Nat /\ i >= 1
        OBVIOUS
    <3>7. i + Len(w \o v) = i + Len(w) + Len(v)
        BY <3>5, <3>6
    <3>8. ASSUME Holds(s, i, Written(ps)) PROVE Whole(ps, i)
      <4>1. Holds(s, i, w) /\ Holds(s, i + Len(w), v)
        <5>1. Holds(s, i, w \o v)
            BY <3>3, <3>8
        <5> QED  BY <3>4, <3>6, <5>1, HoldsConcat
      <4>2. i + Len(w) \in 1 .. Len(s) + 1 /\ Rest(s, r, i) = p \o Rest(s, r, i + Len(w))
          BY <3>1, <4>1, WriteRead
      <4>3. Rest(s, r, i + Len(w)) = d \o Rest(s, r, i + Len(w) + Len(v))
          BY <3>2, <4>1, <4>2
      <4>4. i + Len(w) + Len(v) \in 1 .. Len(s) + 1
          BY <3>4, <4>1, <4>2, HoldsWithin
      <4>5. Rest(s, r, i + Len(w) + Len(v)) \in Seq(Nat)
          BY <4>4, RestType
      <4> DEFINE x == Rest(s, r, i + Len(w) + Len(v))
      <4>6. (p \o d) \o x = p \o (d \o x)
        <5> p \in Seq(Nat) /\ d \in Seq(Nat) /\ x \in Seq(Nat)
            BY <3>1, <3>4, <4>5
        <5> HIDE DEF d, x
        <5> QED  BY ConcatAssocNat, ZenonT(30)
      <4> QED  BY <3>3, <3>7, <4>2, <4>3, <4>6
    <3>9. ASSUME Cut(ps, i) PROVE Begins(Rest(s, r, i), FlattenSeq(ps))
      <4>1. Continues(s, i, w) /\ Continues(s, i + Len(w), v)
        <5>1. Continues(s, i, w \o v)
            BY <3>3, <3>9
        <5> QED  BY <3>4, <3>6, <5>1, ContinuesConcat
      <4>2. i + Len(w) + Len(v) - 1 > Len(s)
          BY <3>3, <3>7, <3>9
      <4>3. CASE i + Len(w) - 1 > Len(s)
        <5>1. Begins(Rest(s, r, i), p)
            BY <3>1, <4>1, <4>3, WriteCut
        <5>2. Begins(Rest(s, r, i), p \o d)
            BY <3>1, <3>4, <5>1, RestType, BeginsFacts
        <5> QED  BY <3>3, <5>2
      <4>4. CASE i + Len(w) - 1 <= Len(s)
        <5>1. Holds(s, i, w)
            BY <4>1, <4>4 DEF Holds
        <5>2. i + Len(w) \in 1 .. Len(s) + 1 /\ Rest(s, r, i) = p \o Rest(s, r, i + Len(w))
            BY <3>1, <5>1, WriteRead
        <5>3. Begins(Rest(s, r, i + Len(w)), d)
            BY <3>2, <4>1, <4>2, <5>2
        <5>4. Rest(s, r, i + Len(w)) \in Seq(Nat)
            BY <5>2, RestType
        <5>5. Begins(p \o Rest(s, r, i + Len(w)), p \o d)
            BY <3>1, <3>4, <5>3, <5>4, BeginsFacts
        <5> QED  BY <3>3, <5>2, <5>5
      <4>5. i + Len(w) - 1 > Len(s) \/ i + Len(w) - 1 <= Len(s)
          BY <1>0, <3>5, <3>6
      <4> QED  BY <4>3, <4>4, <4>5
    <3> QED  BY <3>8, <3>9
  <2> QED  BY <2>1, <2>2
<1>2. P = Nat
  <2>1. P \subseteq Nat
      OBVIOUS
  <2> HIDE DEF P
  <2> QED  BY <1>1, <2>1, Induction
<1> HIDE DEF Good
<1>3. \A ps \in Seq(Seq(Nat)) : Good(ps)
  <2>1. \A ps \in Seq(Seq(Nat)) : Len(ps) \in Nat
      OBVIOUS
  <2> QED  BY <1>2, <2>1
<1>4. \A ps \in Seq(Seq(Nat)), i \in 1 .. Len(s) + 1 :
         Holds(s, i, Written(ps)) => i + Len(Written(ps)) \in 1 .. Len(s) + 1
  <2>1. \A ps \in Seq(Seq(Nat)) : Written(ps) \in Seq(Nat)
      BY WrittenType
  <2> QED  BY <2>1, HoldsWithin
<1> QED  BY <1>3, <1>4 DEF Good

LEMMA StreamsOfNumbers ==
    Seq(Alphabet) \subseteq Seq(Nat) /\ Seq(Seq(Alphabet)) \subseteq Seq(Seq(Nat))
<1>1. Seq(Alphabet) \subseteq Seq(Nat)
    BY CodecAssumption, SeqMonotonic
<1> QED  BY <1>1, SeqMonotonic

LEMMA ReadBack ==
    ASSUME NEW ps \in Seq(Seq(Nat)), NEW r \in Nat \ {0}
    PROVE  FlattenSeq(Reads(Written(ps), r)) = FlattenSeq(ps)
<1> DEFINE b == Written(ps)
<1>1. b \in Seq(Nat) /\ FlattenSeq(ps) \in Seq(Nat)
    BY WrittenType, FlattenType
<1>a. Reads(b, r) = ReadsFrom(b, r)[1]
    BY DEF Reads
<1>2. Holds(b, 1, b)
  <2> HIDE DEF b
  <2> QED  BY <1>1 DEF Holds, Continues
<1>3. 1 \in 1 .. Len(b) + 1 /\ 1 + Len(b) \in 1 .. Len(b) + 1
  <2> HIDE DEF b
  <2> QED  BY <1>1
<1>4. Rest(b, r, 1) = FlattenSeq(ps) \o Rest(b, r, 1 + Len(b))
    BY <1>1, <1>2, <1>3, CallsRead
<1>5. Rest(b, r, 1 + Len(b)) = <<>>
  <2> HIDE DEF b
  <2>1. 1 + Len(b) > Len(b)
      BY <1>1
  <2>2. FrameAt(b, 1 + Len(b)) = [to |-> 0, out |-> <<>>]
      BY <2>1 DEF FrameAt
  <2>3. FrameAt(b, 1 + Len(b)).to = 0
      BY <2>2
  <2> QED  BY <1>1, <1>3, <2>3, RestEnd
<1>6. FlattenSeq(ps) \o <<>> = FlattenSeq(ps)
    BY <1>1, ConcatEmptySeq
<1> QED  BY <1>a, <1>4, <1>5, <1>6 DEF Rest

\* ZstdDuplex carries the bytes unchanged: what any number of calls of Write
\* are given, Read returns in order, with room for any number of bytes, for
\* every chunk size, threshold and radix.
THEOREM CodecCarriesAll ==
    \A ps \in Seq(Seq(Alphabet)), r \in Nat \ {0} : CarriesAll(ps, r)
  BY StreamsOfNumbers, ReadBack DEF CarriesAll

\* A stream that ends anywhere, also inside a length or a payload, gives a
\* prefix of what was written: no byte of a frame that is cut off.
THEOREM CodecCarriesCut ==
    \A ps \in Seq(Seq(Alphabet)), r \in Nat \ {0} : CarriesPrefix(ps, r)
<1> SUFFICES ASSUME NEW ps \in Seq(Seq(Nat)), NEW r \in Nat \ {0},
                    NEW n \in 0 .. Len(Written(ps))
             PROVE  IsPrefix(FlattenSeq(Reads(SubSeq(Written(ps), 1, n), r)), FlattenSeq(ps))
    BY StreamsOfNumbers DEF CarriesPrefix
<1> DEFINE b == Written(ps)
           s == SubSeq(b, 1, n)
<1>1. b \in Seq(Nat) /\ FlattenSeq(ps) \in Seq(Nat)
    BY WrittenType, FlattenType
<1>a. Reads(s, r) = ReadsFrom(s, r)[1]
    BY DEF Reads
<1> HIDE DEF b
<1>2. s \in Seq(Nat) /\ Len(s) = n /\ \A k \in 1 .. n : s[k] = b[k]
  <2>1. n \in 0 .. Len(b) /\ n \in Nat
      BY <1>1 DEF b
  <2> QED  BY <1>1, <2>1
<1>3. n \in Nat /\ Len(b) \in Nat /\ n <= Len(b)
    BY <1>1 DEF b
<1> HIDE DEF s
<1>4. Continues(s, 1, b)
    BY <1>2, <1>3 DEF Continues
<1>5. 1 \in 1 .. Len(s) + 1
    BY <1>2, <1>3
<1>6. CASE n < Len(b)
  <2>1. 1 + Len(b) - 1 > Len(s)
      BY <1>2, <1>3, <1>6
  <2>2. Begins(Rest(s, r, 1), FlattenSeq(ps))
      BY <1>2, <1>4, <1>5, <2>1, CallsRead DEF b
  <2>3. IsPrefix(Rest(s, r, 1), FlattenSeq(ps))
      BY <1>1, <1>2, <1>5, <2>2, RestType, BeginsFacts
  <2> QED  BY <1>a, <2>3 DEF Rest, s, b
<1>7. CASE n = Len(b)
  <2>1. s = b
      BY <1>1, <1>7 DEF s
  <2>2. FlattenSeq(Reads(s, r)) = FlattenSeq(ps)
      BY <2>1, ReadBack DEF b
  <2> DEFINE x == FlattenSeq(ps)
  <2>3. IsPrefix(x, x)
    <3> x \in Seq(Nat) /\ Len(x) \in Nat
        BY <1>1
    <3> HIDE DEF x
    <3> QED  BY DEF IsPrefix
  <2> QED  BY <2>2, <2>3 DEF s, b
<1> QED  BY <1>3, <1>6, <1>7

LEMMA CallsAreSequences ==
    \A d \in Data : \A ps \in Calls(d) : ps \in Seq(Seq(Alphabet))
<1> SUFFICES ASSUME NEW d \in Data, NEW n \in {0, Len(d) \div 2}
             PROVE  <<SubSeq(d, 1, n), SubSeq(d, n + 1, Len(d))>> \in Seq(Seq(Alphabet))
    BY DEF Calls
<1>1. PICK m \in 0 .. 2 * ZstdChunkSize + 1 : d \in [1 .. m -> Alphabet]
    BY DEF Data
<1>2. m \in Nat
    BY <1>1, CodecAssumption
<1>3. d \in Seq(Alphabet)
    BY <1>1, <1>2
<1>4. n \in 0 .. Len(d)
  <2>1. Len(d) \in Nat
      BY <1>3
  <2>2. Len(d) \div 2 \in 0 .. Len(d)
      BY <2>1
  <2> QED  BY <2>1, <2>2
<1>5. SubSeq(d, 1, n) \in Seq(Alphabet) /\ SubSeq(d, n + 1, Len(d)) \in Seq(Alphabet)
    BY <1>3, <1>4
<1> QED  BY <1>5

\* The invariant of the run, for every chunk size, threshold, radix and
\* alphabet.
THEOREM CodecCarriesPrefixTheorem == Spec => []CodecCarriesPrefix
<1>1. CodecCarriesPrefix
  <2>1. ASSUME NEW d \in Data, NEW ps \in Calls(d)
        PROVE  /\ \A r \in 1 .. ZstdChunkSize + 1 : CarriesAll(ps, r)
               /\ CarriesPrefix(ps, 2)
    <3>1. ps \in Seq(Seq(Alphabet))
        BY <2>1, CallsAreSequences
    <3>2. \A r \in 1 .. ZstdChunkSize + 1 : r \in Nat \ {0}
        BY CodecAssumption
    <3> QED  BY <3>1, <3>2, CodecCarriesAll, CodecCarriesCut
  <2> QED  BY <2>1 DEF CodecCarriesPrefix
<1> QED  BY <1>1, PTL

=============================================================================
