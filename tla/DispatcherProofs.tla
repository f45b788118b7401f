-------------------------- MODULE DispatcherProofs --------------------------
(* Proofs about Dispatcher, for every number of types, waiters, closers,   *)
(* messages and seconds, and every queue limit.                            *)
EXTENDS Dispatcher, TLAPS

\* What dropping the first n entries of a queue leaves.
LEMMA DropFirstFacts ==
    ASSUME NEW S, NEW q \in Seq(S), NEW n \in 0 .. Len(q)
    PROVE  /\ DropFirst(q, n) \in Seq(S)
           /\ Len(DropFirst(q, n)) = Len(q) - n
           /\ \A i \in 1 .. (Len(q) - n) : DropFirst(q, n)[i] = q[i + n]
  BY DEF DropFirst

\* What appending an entry to a queue gives.
LEMMA AppendFacts ==
    ASSUME NEW S, NEW q \in Seq(S), NEW e \in S
    PROVE  /\ Append(q, e) \in Seq(S)
           /\ Len(Append(q, e)) = Len(q) + 1
           /\ Append(q, e)[Len(q) + 1] = e
           /\ \A i \in 1 .. Len(q) : Append(q, e)[i] = q[i]
  OBVIOUS

\* The queue that filing e leaves of q, whose first k entries have expired.
Filed(q, k, e) ==
    Append(IF Full(DropFirst(q, k)) THEN DropFirst(DropFirst(q, k), 1)
           ELSE DropFirst(q, k), e)

\* Filing drops some d oldest entries and puts the new one last; it makes room
\* only in a full queue.
LEMMA FiledFacts ==
    ASSUME NEW q \in Seq(Entries), NEW k \in 0 .. Len(q), NEW e \in Entries
    PROVE  /\ Filed(q, k, e) \in Seq(Entries)
           /\ Full(DropFirst(q, k)) =>
                 Len(q) - k >= PerTypeLimit /\ Len(Filed(q, k, e)) = Len(q) - k
           /\ ~Full(DropFirst(q, k)) =>
                 Len(q) - k < PerTypeLimit /\ Len(Filed(q, k, e)) = Len(q) - k + 1
           /\ \E d \in 0 .. Len(q) :
                 /\ Len(Filed(q, k, e)) = Len(q) - d + 1
                 /\ Filed(q, k, e)[Len(q) - d + 1] = e
                 /\ \A i \in 1 .. (Len(q) - d) : Filed(q, k, e)[i] = q[i + d]
  <1> DEFINE r == DropFirst(q, k)
             f == Filed(q, k, e)
  <1>1. /\ r \in Seq(Entries)
        /\ Len(r) = Len(q) - k
        /\ \A i \in 1 .. (Len(q) - k) : r[i] = q[i + k]
    BY DropFirstFacts
  <1>f. f = Append(IF Full(r) THEN DropFirst(r, 1) ELSE r, e)
    BY DEF Filed
  <1>l. /\ Full(r) => Len(q) - k >= PerTypeLimit
        /\ ~Full(r) => Len(q) - k < PerTypeLimit
    BY <1>1, LimitAssumption DEF Full
  <1> HIDE DEF r, f
  <1>2. CASE Full(r)
    <2>1. 1 \in 0 .. Len(r)
      BY <1>1, <1>2, LimitAssumption DEF Full
    <2> DEFINE p == DropFirst(r, 1)
    <2>2. /\ p \in Seq(Entries)
          /\ Len(p) = Len(r) - 1
          /\ \A i \in 1 .. (Len(r) - 1) : p[i] = r[i + 1]
      BY <1>1, <2>1, DropFirstFacts
    <2>3. f = Append(p, e)
      BY <1>2, <1>f
    <2> HIDE DEF p
    <2>4. /\ f \in Seq(Entries)
          /\ Len(f) = Len(p) + 1
          /\ f[Len(p) + 1] = e
          /\ \A i \in 1 .. Len(p) : f[i] = p[i]
      BY ONLY <2>2, <2>3, e \in Entries, AppendFacts
    <2>5. k + 1 \in 0 .. Len(q) /\ Len(p) = Len(q) - (k + 1)
      BY <2>1, <2>2, <1>1
    <2>6. \A i \in 1 .. (Len(q) - (k + 1)) : f[i] = q[i + (k + 1)]
      <3> SUFFICES ASSUME NEW i \in 1 .. (Len(q) - (k + 1))
                   PROVE  f[i] = q[i + (k + 1)]
        OBVIOUS
      <3>1. f[i] = p[i] /\ p[i] = r[i + 1]
        BY <2>2, <2>4, <2>5, <1>1
      <3>2. i + 1 \in 1 .. (Len(q) - k) /\ (i + 1) + k = i + (k + 1)
        BY <2>5
      <3> QED BY <3>1, <3>2, <1>1
    <2> DEFINE d == k + 1
    <2>7. /\ d \in 0 .. Len(q)
          /\ Len(f) = Len(q) - d + 1
          /\ f[Len(q) - d + 1] = e
          /\ \A i \in 1 .. (Len(q) - d) : f[i] = q[i + d]
      BY <2>4, <2>5, <2>6
    <2>8. Len(f) = Len(q) - k
      BY <2>4, <2>5
    <2> HIDE DEF d
    <2> QED BY ONLY <1>1, <1>2, <1>l, <2>4, <2>7, <2>8 DEF r, f
  <1>3. CASE ~Full(r)
    <2>1. f = Append(r, e)
      BY <1>3, <1>f
    <2>2. /\ f \in Seq(Entries)
          /\ Len(f) = Len(r) + 1
          /\ f[Len(r) + 1] = e
          /\ \A i \in 1 .. Len(r) : f[i] = r[i]
      BY ONLY <2>1, <1>1, e \in Entries, AppendFacts
    <2>3. /\ Len(f) = Len(q) - k + 1
          /\ f[Len(q) - k + 1] = e
          /\ \A i \in 1 .. (Len(q) - k) : f[i] = q[i + k]
      BY <1>1, <2>2
    <2> QED BY ONLY <1>3, <1>l, <2>2, <2>3, k \in 0 .. Len(q) DEF r, f
  <1> QED BY <1>2, <1>3

\* Every ttl on the wire is a number.
LEMMA WireTTLType == WireTTLs \subseteq Nat
  BY TTLAssumption DEF WireTTLs, SendWithTTL

LEMMA TypeOKInit == Init => TypeOK
  <1> SUFFICES ASSUME Init PROVE TypeOK
    OBVIOUS
  <1>1. QueueTypes
    BY DEF Init, QueueTypes
  <1>2. ProcessTypes
    BY DEF Init, ProcessTypes, Returned
  <1>3. FlagTypes
    BY DEF Init, FlagTypes
  <1> QED BY <1>1, <1>2, <1>3 DEF TypeOK

LEMMA QueueTypesStep == TypeOK /\ [Next]_vars => QueueTypes'
  <1> SUFFICES ASSUME TypeOK, [Next]_vars PROVE QueueTypes'
    OBVIOUS
  <1> USE DEF TypeOK, QueueTypes
  <1>1. ASSUME NEW e \in inHand, NEW k \in 0 .. Len(queues[e.type]), Enqueue(e, k)
        PROVE  QueueTypes'
    <2>1. e \in Entries /\ e.type \in Types
      BY DEF Entries, ProcessTypes
    <2> DEFINE q == queues[e.type]
               f == Filed(q, k, e)
    <2>2. q \in Seq(Entries)
      BY <2>1
    <2>3. f \in Seq(Entries)
      BY <2>1, <2>2, FiledFacts
    <2>4. queues' = [queues EXCEPT ![e.type] = f]
      BY <1>1 DEF Enqueue, Filed
    <2> HIDE DEF f
    <2>5. queues' \in [Types -> Seq(Entries)]
      BY <2>3, <2>4
    <2>6. k \in Nat
      BY <2>2
    <2>7. droppedExpired' \in [Types -> Nat] /\ received' \in [Types -> Nat]
      <3>1. /\ droppedExpired' = [droppedExpired EXCEPT ![e.type] = @ + k]
            /\ received' = [received EXCEPT ![e.type] = @ + 1]
        BY <1>1, Zenon DEF Enqueue
      <3>2. droppedExpired \in [Types -> Nat] /\ received \in [Types -> Nat]
        BY Zenon
      <3> QED BY ONLY <3>1, <3>2, <2>1, <2>6
    <2>8. droppedOverflow' \in [Types -> Nat]
      <3>1. \/ droppedOverflow' = [droppedOverflow EXCEPT ![e.type] = @ + 1]
            \/ droppedOverflow' = [droppedOverflow EXCEPT ![e.type] = @]
        BY <1>1, Zenon DEF Enqueue
      <3>2. droppedOverflow \in [Types -> Nat]
        BY Zenon
      <3> QED BY ONLY <3>1, <3>2, <2>1
    <2>9. UNCHANGED <<delivered, lastId>>
      BY <1>1 DEF Enqueue
    <2> QED BY <2>5, <2>7, <2>8, <2>9
  <1>2. ASSUME NEW w \in Waiters, NEW i \in 1 .. Len(want[w]),
               NEW j \in 1 .. Len(queues[want[w][i]]), Take(w, i, j)
        PROVE  QueueTypes'
    <2> DEFINE t == want[w][i]
    <2>1. t \in Types
      BY DEF ProcessTypes
    <2> HIDE DEF t
    <2>2. queues[t] \in Seq(Entries) /\ j \in 1 .. Len(queues[t])
      BY <2>1 DEF t
    <2>3. queues[t][j] \in Entries
      BY <2>2
    <2>4. queues[t][j].id \in Nat
      BY <2>3 DEF Entries
    <2>5. DropFirst(queues[t], j) \in Seq(Entries)
      BY <2>2, DropFirstFacts
    <2>6. queues' \in [Types -> Seq(Entries)]
      <3>1. queues' = [u \in Types |->
               IF u = t THEN DropFirst(queues[u], j)
               ELSE IF u \in Before(w, i) THEN <<>> ELSE queues[u]]
        BY <1>2 DEF Take, t
      <3>2. \A u \in Types : u = t => DropFirst(queues[u], j) \in Seq(Entries)
        BY <2>5
      <3>3. \A u \in Types : queues[u] \in Seq(Entries) /\ <<>> \in Seq(Entries)
        OBVIOUS
      <3> QED BY ONLY <3>1, <3>2, <3>3
    <2>7. \A u \in Types : Len(queues[u]) \in Nat
      OBVIOUS
    <2>8. droppedExpired' \in [Types -> Nat]
      <3>1. droppedExpired' = [u \in Types |->
               IF u = t THEN droppedExpired[u] + (j - 1)
               ELSE droppedExpired[u] + Skipped(u, Before(w, i))]
        BY <1>2, Zenon DEF Take, t
      <3>2. \A u \in Types : Skipped(u, Before(w, i)) \in Nat
        BY <2>7 DEF Skipped
      <3>3. j - 1 \in Nat
        BY <2>2
      <3>4. droppedExpired \in [Types -> Nat]
        BY Zenon
      <3> QED BY ONLY <3>1, <3>2, <3>3, <3>4
    <2>9. delivered' \in [Types -> Nat] /\ lastId' \in [Types -> Nat]
      <3>1. /\ delivered' = [delivered EXCEPT ![t] = @ + 1]
            /\ lastId' = [lastId EXCEPT ![t] = queues[t][j].id]
        BY <1>2, Zenon DEF Take, t
      <3>2. delivered \in [Types -> Nat] /\ lastId \in [Types -> Nat]
        BY Zenon
      <3> QED BY ONLY <3>1, <3>2, <2>1, <2>4
    <2>10. UNCHANGED <<droppedOverflow, received>>
      BY <1>2 DEF Take
    <2> QED BY <2>6, <2>8, <2>9, <2>10
  <1>3. ASSUME NEW w \in Waiters, Miss(w)
        PROVE  QueueTypes'
    <2>1. \A u \in Types : Len(queues[u]) \in Nat
      OBVIOUS
    <2>2. queues' \in [Types -> Seq(Entries)]
      BY <1>3 DEF Miss
    <2>3. droppedExpired' \in [Types -> Nat]
      BY <1>3, <2>1 DEF Miss, Skipped
    <2> QED BY <1>3, <2>2, <2>3 DEF Miss, history
  <1>4. CASE UNCHANGED <<queueVars, history>>
    BY <1>4 DEF queueVars, history
  <1> QED
    BY <1>1, <1>2, <1>3, <1>4
       DEF Next, ReaderStep, StreamStep, Scan, Start, CheckClosed,
           ReaderBroadcast, Receive, ReceiveError, Call, Woken, ContextDone,
           Close, CloseBroadcast, Tick, vars

LEMMA ProcessTypesStep == TypeOK /\ [Next]_vars => ProcessTypes'
  <1> SUFFICES ASSUME TypeOK, [Next]_vars PROVE ProcessTypes'
    OBVIOUS
  <1> USE DEF TypeOK, ProcessTypes, readerVars, waiterVars, Returned
  <1>1. CASE Start
    BY <1>1 DEF Start
  <1>2. CASE CheckClosed
    BY <1>2 DEF CheckClosed
  <1>3. ASSUME NEW e \in inHand, NEW k \in 0 .. Len(queues[e.type]), Enqueue(e, k)
        PROVE  ProcessTypes'
    BY <1>3 DEF Enqueue
  <1>4. CASE ReaderBroadcast
    BY <1>4 DEF ReaderBroadcast
  <1>5. ASSUME NEW t \in Types, NEW ttl \in WireTTLs, Receive(t, ttl)
        PROVE  ProcessTypes'
    <2>1. [id |-> sent + 1, type |-> t, ttl |-> ttl, at |-> now] \in Entries
      BY WireTTLType DEF Entries
    <2> QED BY <1>5, <2>1 DEF Receive
  <1>6. CASE ReceiveError
    BY <1>6 DEF ReceiveError
  <1>7. ASSUME NEW w \in Waiters, NEW ts \in Requests, Call(w, ts)
        PROVE  ProcessTypes'
    <2>1. ts \in Seq(Types)
      BY RequestAssumption
    <2> QED BY <1>7, <2>1 DEF Call
  <1>8. ASSUME NEW w \in Waiters, NEW i \in 1 .. Len(want[w]),
               NEW j \in 1 .. Len(queues[want[w][i]]), Take(w, i, j)
        PROVE  ProcessTypes'
    BY <1>8 DEF Take, Return
  <1>9. ASSUME NEW w \in Waiters, Miss(w)
        PROVE  ProcessTypes'
    <2>1. waiter' \in [Waiters -> {"idle", "scan", "blocked"} \cup Returned]
      <3>1. \E r \in {"error", "closed", "blocked"} :
                waiter' = [waiter EXCEPT ![w] = r]
        BY <1>9, Zenon DEF Miss, Return
      <3> QED BY <3>1
    <2>2. want' \in [Waiters -> Seq(Types)]
      <3>1. want' = [want EXCEPT ![w] = <<>>] \/ want' = want
        BY <1>9, Zenon DEF Miss, Return
      <3>2. <<>> \in Seq(Types) /\ want \in [Waiters -> Seq(Types)]
        OBVIOUS
      <3> QED BY ONLY <3>1, <3>2, w \in Waiters
    <2>3. UNCHANGED <<now, readerVars, closer>>
      BY <1>9 DEF Miss
    <2> QED BY <2>1, <2>2, <2>3
  <1>10. ASSUME NEW w \in Waiters, Woken(w)
         PROVE  ProcessTypes'
    BY <1>10 DEF Woken
  <1>11. ASSUME NEW w \in Waiters, ContextDone(w)
         PROVE  ProcessTypes'
    BY <1>11 DEF ContextDone, Return
  <1>12. ASSUME NEW c \in Closers, Close(c) \/ CloseBroadcast(c)
         PROVE  ProcessTypes'
    <2>1. closer' \in [Closers -> {"idle", "wake", "done"}]
      BY <1>12 DEF Close, CloseBroadcast
    <2>2. UNCHANGED <<now, readerVars, waiterVars>>
      BY <1>12 DEF Close, CloseBroadcast
    <2> QED BY <2>1, <2>2
  <1>13. CASE Tick
    BY <1>13 DEF Tick
  <1>14. CASE UNCHANGED vars
    BY <1>14 DEF vars
  <1> QED
    BY <1>1, <1>2, <1>3, <1>4, <1>5, <1>6, <1>7, <1>8, <1>9, <1>10, <1>11,
       <1>12, <1>13, <1>14
       DEF Next, ReaderStep, StreamStep, Scan

LEMMA FlagTypesStep == TypeOK /\ [Next]_vars => FlagTypes'
  <1> SUFFICES ASSUME TypeOK, [Next]_vars PROVE FlagTypes'
    OBVIOUS
  <1> USE DEF TypeOK, FlagTypes, readerVars
  <1>1. CASE Start
    BY <1>1 DEF Start
  <1>2. CASE ReaderStep
    <2>1. CASE CheckClosed
      BY <2>1 DEF CheckClosed
    <2>2. ASSUME NEW e \in inHand, NEW k \in 0 .. Len(queues[e.type]),
                 Enqueue(e, k)
          PROVE  FlagTypes'
      <3>1. UNCHANGED <<closed, failed, started, notify>>
        BY <2>2, Zenon DEF Enqueue
      <3> QED BY <3>1
    <2>3. CASE ReaderBroadcast
      BY <2>3 DEF ReaderBroadcast
    <2> QED BY <1>2, <2>1, <2>2, <2>3, Zenon DEF ReaderStep
  <1>3. CASE StreamStep
    BY <1>3 DEF StreamStep, Receive, ReceiveError
  <1>4. ASSUME NEW w \in Waiters, NEW ts \in Requests, Call(w, ts)
        PROVE  FlagTypes'
    BY <1>4 DEF Call
  <1>5. ASSUME NEW w \in Waiters, Scan(w)
        PROVE  FlagTypes'
    BY <1>5 DEF Scan, Take, Miss
  <1>6. ASSUME NEW w \in Waiters, Woken(w) \/ ContextDone(w)
        PROVE  FlagTypes'
    BY <1>6 DEF Woken, ContextDone
  <1>7. ASSUME NEW c \in Closers, Close(c) \/ CloseBroadcast(c)
        PROVE  FlagTypes'
    BY <1>7 DEF Close, CloseBroadcast
  <1>8. CASE Tick
    BY <1>8 DEF Tick
  <1>9. CASE UNCHANGED vars
    BY <1>9 DEF vars
  <1> QED
    BY <1>1, <1>2, <1>3, <1>4, <1>5, <1>6, <1>7, <1>8, <1>9 DEF Next

\* The fields of the dispatcher keep their types, there is no reader before
\* Start, and the reader holds a message only between its receive and its
\* critical section.
THEOREM TypeCorrect == Spec => []TypeOK
  <1>1. TypeOK /\ [Next]_vars => TypeOK'
    BY QueueTypesStep, ProcessTypesStep, FlagTypesStep DEF TypeOK
  <1> QED BY TypeOKInit, <1>1, PTL DEF Spec

-----------------------------------------------------------------------------
(* What the three actions that touch queues do to each of them *)

EnqueueOn(u, e, k) ==
    /\ UNCHANGED <<delivered, lastId, sent>>
    /\ inHand' = {}
    /\ u # e.type => /\ queues'[u] = queues[u]
                     /\ received'[u] = received[u]
                     /\ droppedExpired'[u] = droppedExpired[u]
                     /\ droppedOverflow'[u] = droppedOverflow[u]
    /\ u = e.type => /\ k \in 0 .. Len(queues[u])
                     /\ queues'[u] = Filed(queues[u], k, e)
                     /\ received'[u] = received[u] + 1
                     /\ droppedExpired'[u] = droppedExpired[u] + k
                     /\ droppedOverflow'[u] =
                           IF Full(DropFirst(queues[u], k))
                           THEN droppedOverflow[u] + 1 ELSE droppedOverflow[u]

TakeOn(u, w, i, j) ==
    /\ UNCHANGED <<received, droppedOverflow, sent, inHand>>
    /\ u = want[w][i] => /\ j \in 1 .. Len(queues[u])
                         /\ queues'[u] = DropFirst(queues[u], j)
                         /\ lastId'[u] = queues[u][j].id
                         /\ delivered'[u] = delivered[u] + 1
                         /\ droppedExpired'[u] = droppedExpired[u] + (j - 1)
    /\ u # want[w][i] => /\ lastId'[u] = lastId[u]
                         /\ delivered'[u] = delivered[u]
                         /\ \/ /\ queues'[u] = <<>>
                               /\ droppedExpired'[u] =
                                     droppedExpired[u] + Len(queues[u])
                            \/ /\ queues'[u] = queues[u]
                               /\ droppedExpired'[u] = droppedExpired[u]

MissOn(u) ==
    /\ UNCHANGED <<history, droppedOverflow, sent, inHand>>
    /\ \/ /\ queues'[u] = <<>>
          /\ droppedExpired'[u] = droppedExpired[u] + Len(queues[u])
       \/ /\ queues'[u] = queues[u]
          /\ droppedExpired'[u] = droppedExpired[u]

LEMMA EnqueueEffect ==
    ASSUME TypeOK, NEW e \in inHand, NEW k \in 0 .. Len(queues[e.type]),
           Enqueue(e, k), NEW u \in Types
    PROVE  e \in Entries /\ e.type \in Types /\ EnqueueOn(u, e, k)
  <1>1. e \in Entries /\ e.type \in Types
    BY DEF TypeOK, ProcessTypes, Entries
  <1>2. UNCHANGED <<delivered, lastId, sent>> /\ inHand' = {}
    BY DEF Enqueue
  <1>3. CASE u # e.type
    BY <1>1, <1>2, <1>3 DEF EnqueueOn, Enqueue, TypeOK, QueueTypes
  <1>4. CASE u = e.type
    <2>1. queues'[u] = Filed(queues[u], k, e)
      BY <1>1, <1>4 DEF Enqueue, Filed, TypeOK, QueueTypes
    <2>2. droppedOverflow'[u] = IF Full(DropFirst(queues[u], k))
                                THEN droppedOverflow[u] + 1 ELSE droppedOverflow[u]
      BY <1>1, <1>4 DEF Enqueue, TypeOK, QueueTypes
    <2>3. /\ received'[u] = received[u] + 1
          /\ droppedExpired'[u] = droppedExpired[u] + k
      BY <1>1, <1>4 DEF Enqueue, TypeOK, QueueTypes
    <2> QED BY <1>1, <1>2, <1>4, <2>1, <2>2, <2>3 DEF EnqueueOn
  <1> QED BY <1>3, <1>4

LEMMA TakeEffect ==
    ASSUME TypeOK, NEW w \in Waiters, NEW i \in 1 .. Len(want[w]),
           NEW j \in 1 .. Len(queues[want[w][i]]), Take(w, i, j),
           NEW u \in Types
    PROVE  TakeOn(u, w, i, j)
  <1>1. want[w][i] \in Types
    BY DEF TypeOK, ProcessTypes
  <1>2. droppedExpired[u] \in Nat
    BY DEF TypeOK, QueueTypes
  <1>3. UNCHANGED <<received, droppedOverflow, sent, inHand>>
    BY DEF Take, readerVars
  <1>4. CASE u = want[w][i]
    <2>1. queues'[u] = DropFirst(queues[u], j)
      BY <1>4 DEF Take
    <2>2. /\ lastId'[u] = queues[u][j].id
          /\ delivered'[u] = delivered[u] + 1
          /\ droppedExpired'[u] = droppedExpired[u] + (j - 1)
      BY <1>1, <1>4 DEF Take, TypeOK, QueueTypes
    <2> QED BY <1>3, <1>4, <2>1, <2>2 DEF TakeOn
  <1>5. CASE u # want[w][i]
    <2>1. lastId'[u] = lastId[u] /\ delivered'[u] = delivered[u]
      BY <1>1, <1>5 DEF Take, TypeOK, QueueTypes
    <2>2. queues'[u] = IF u \in Before(w, i) THEN <<>> ELSE queues[u]
      BY <1>5 DEF Take
    <2>3. droppedExpired'[u] = droppedExpired[u] + Skipped(u, Before(w, i))
      BY <1>5 DEF Take
    <2>4. CASE u \in Before(w, i)
      BY <1>3, <1>5, <2>1, <2>2, <2>3, <2>4 DEF Skipped, TakeOn
    <2>5. CASE u \notin Before(w, i)
      BY <1>2, <1>3, <1>5, <2>1, <2>2, <2>3, <2>5 DEF Skipped, TakeOn
    <2> QED BY <2>4, <2>5
  <1> QED BY <1>4, <1>5

LEMMA MissEffect ==
    ASSUME TypeOK, NEW w \in Waiters, Miss(w), NEW u \in Types
    PROVE  MissOn(u)
  <1> DEFINE all == Before(w, Len(want[w]) + 1)
  <1>1. droppedExpired[u] \in Nat
    BY DEF TypeOK, QueueTypes
  <1>2. UNCHANGED <<history, droppedOverflow, sent, inHand>>
    BY DEF Miss, readerVars
  <1>3. queues'[u] = IF u \in all THEN <<>> ELSE queues[u]
    BY DEF Miss
  <1>4. droppedExpired'[u] = droppedExpired[u] + Skipped(u, all)
    BY DEF Miss
  <1> HIDE DEF all
  <1>5. CASE u \in all
    BY <1>2, <1>3, <1>4, <1>5 DEF Skipped, MissOn
  <1>6. CASE u \notin all
    BY <1>1, <1>2, <1>3, <1>4, <1>6 DEF Skipped, MissOn
  <1> QED BY <1>5, <1>6

\* Every other step leaves the queues and the counters alone.
LEMMA OtherSteps ==
    ASSUME [Next]_vars,
           ~\E e \in inHand : \E k \in 0 .. Len(queues[e.type]) : Enqueue(e, k),
           ~\E w \in Waiters : Scan(w)
    PROVE  UNCHANGED <<queueVars, history>>
  BY Zenon DEF Next, ReaderStep, StreamStep, Start, CheckClosed,
         ReaderBroadcast, Receive, ReceiveError, Call, Woken, ContextDone,
         Close, CloseBroadcast, Tick, vars

-----------------------------------------------------------------------------
(* The counters, the bound and the order *)

LEMMA Balance ==
    ASSUME NEW d \in Nat, NEW x \in Nat, NEW o \in Nat, NEW l \in Nat,
           NEW k \in 0 .. l
    PROVE  /\ (d + x + o + l) + 1 = d + (x + k) + (o + 1) + (l - k)
           /\ (d + x + o + l) + 1 = d + (x + k) + o + (l - k + 1)
           /\ k > 0 => d + x + o + l = (d + 1) + (x + (k - 1)) + o + (l - k)
           /\ d + x + o + l = d + (x + l) + o + 0
  OBVIOUS

\* Nothing vanishes and nothing is counted twice: what was filed is queued,
\* returned by one WaitFor, or counted by one of the drop metrics.
THEOREM AccountedAlways == Spec => []Accounted
  <1>1. Init => Accounted
    BY DEF Init, Accounted
  <1>2. TypeOK /\ Accounted /\ [Next]_vars => Accounted'
    <2> SUFFICES ASSUME TypeOK, Accounted, [Next]_vars, NEW u \in Types
                 PROVE  received'[u] = delivered'[u] + droppedExpired'[u]
                          + droppedOverflow'[u] + Len(queues'[u])
      BY DEF Accounted
    <2>1. /\ received[u] = delivered[u] + droppedExpired[u] + droppedOverflow[u]
                             + Len(queues[u])
          /\ delivered[u] \in Nat /\ droppedExpired[u] \in Nat
          /\ droppedOverflow[u] \in Nat /\ Len(queues[u]) \in Nat
      BY DEF Accounted, TypeOK, QueueTypes
    <2>all. delivered[u] + droppedExpired[u] + droppedOverflow[u]
             + Len(queues[u])
          = delivered[u] + (droppedExpired[u] + Len(queues[u]))
             + droppedOverflow[u] + 0
      <3> DEFINE d == delivered[u]
                 x == droppedExpired[u]
                 o == droppedOverflow[u]
                 l == Len(queues[u])
      <3>1. d \in Nat /\ x \in Nat /\ o \in Nat /\ l \in Nat /\ 0 \in 0 .. l
        BY <2>1
      <3> HIDE DEF d, x, o, l
      <3>2. d + x + o + l = d + (x + l) + o + 0
        BY ONLY <3>1, Balance
      <3> QED BY <3>2 DEF d, x, o, l
    <2>2. CASE \E e \in inHand : \E k \in 0 .. Len(queues[e.type]) : Enqueue(e, k)
      <3>0. PICK e \in inHand : \E k \in 0 .. Len(queues[e.type]) : Enqueue(e, k)
        BY <2>2
      <3>1. PICK k \in 0 .. Len(queues[e.type]) : Enqueue(e, k)
        BY <3>0
      <3>2. e \in Entries /\ e.type \in Types /\ EnqueueOn(u, e, k)
        BY <3>1, EnqueueEffect
      <3>3. CASE u = e.type
        <4>1. k \in 0 .. Len(queues[u]) /\ queues[u] \in Seq(Entries)
          BY <3>2, <3>3 DEF EnqueueOn, TypeOK, QueueTypes
        <4>2. /\ Full(DropFirst(queues[u], k)) =>
                     /\ Len(queues[u]) - k >= PerTypeLimit
                     /\ Len(Filed(queues[u], k, e)) = Len(queues[u]) - k
              /\ ~Full(DropFirst(queues[u], k)) =>
                     /\ Len(queues[u]) - k < PerTypeLimit
                     /\ Len(Filed(queues[u], k, e)) = Len(queues[u]) - k + 1
          BY <3>2, <4>1, FiledFacts
        <4>3. /\ delivered'[u] = delivered[u]
              /\ received'[u] = received[u] + 1
              /\ droppedExpired'[u] = droppedExpired[u] + k
              /\ queues'[u] = Filed(queues[u], k, e)
          BY <3>2, <3>3 DEF EnqueueOn
        <4>4. CASE Full(DropFirst(queues[u], k))
          <5>1. droppedOverflow'[u] = droppedOverflow[u] + 1
            BY <3>2, <3>3, <4>4 DEF EnqueueOn
          <5>2. Len(queues'[u]) = Len(queues[u]) - k
            BY <4>2, <4>3, <4>4
          <5>3. (delivered[u] + droppedExpired[u] + droppedOverflow[u]
                   + Len(queues[u])) + 1
                = delivered[u] + (droppedExpired[u] + k)
                   + (droppedOverflow[u] + 1) + (Len(queues[u]) - k)
            <6> DEFINE d == delivered[u]
                       x == droppedExpired[u]
                       o == droppedOverflow[u]
                       l == Len(queues[u])
            <6>1. d \in Nat /\ x \in Nat /\ o \in Nat /\ l \in Nat /\ k \in 0 .. l
              BY <2>1, <4>1
            <6> HIDE DEF d, x, o, l
            <6>2. (d + x + o + l) + 1 = d + (x + k) + (o + 1) + (l - k)
              BY ONLY <6>1, Balance
            <6> QED BY <6>2 DEF d, x, o, l
          <5> QED BY ONLY <2>1, <4>3, <5>1, <5>2, <5>3, Zenon
        <4>5. CASE ~Full(DropFirst(queues[u], k))
          <5>1. droppedOverflow'[u] = droppedOverflow[u]
            BY <3>2, <3>3, <4>5 DEF EnqueueOn
          <5>2. Len(queues'[u]) = Len(queues[u]) - k + 1
            BY <4>2, <4>3, <4>5
          <5>3. (delivered[u] + droppedExpired[u] + droppedOverflow[u]
                   + Len(queues[u])) + 1
                = delivered[u] + (droppedExpired[u] + k)
                   + droppedOverflow[u] + (Len(queues[u]) - k + 1)
            <6> DEFINE d == delivered[u]
                       x == droppedExpired[u]
                       o == droppedOverflow[u]
                       l == Len(queues[u])
            <6>1. d \in Nat /\ x \in Nat /\ o \in Nat /\ l \in Nat /\ k \in 0 .. l
              BY <2>1, <4>1
            <6> HIDE DEF d, x, o, l
            <6>2. (d + x + o + l) + 1 = d + (x + k) + o + (l - k + 1)
              BY ONLY <6>1, Balance
            <6> QED BY <6>2 DEF d, x, o, l
          <5> QED BY ONLY <2>1, <4>3, <5>1, <5>2, <5>3, Zenon
        <4> QED BY <4>4, <4>5
      <3>4. CASE u # e.type
        BY <2>1, <3>2, <3>4 DEF EnqueueOn
      <3> QED BY <3>3, <3>4
    <2>3. CASE \E w \in Waiters : Scan(w)
      <3>1. PICK w \in Waiters : Scan(w)
        BY <2>3
      <3>2. CASE Miss(w)
        <4>1. MissOn(u)
          BY <3>2, MissEffect
        <4>2. /\ received'[u] = received[u]
              /\ droppedOverflow'[u] = droppedOverflow[u]
              /\ delivered'[u] = delivered[u]
          BY <4>1 DEF MissOn, history
        <4>3. \/ /\ Len(queues'[u]) = 0
                 /\ droppedExpired'[u] = droppedExpired[u] + Len(queues[u])
              \/ /\ queues'[u] = queues[u]
                 /\ droppedExpired'[u] = droppedExpired[u]
          BY <4>1 DEF MissOn
        <4> QED BY ONLY <2>1, <2>all, <4>2, <4>3, Zenon
      <3>3. ASSUME NEW i \in 1 .. Len(want[w]),
                   NEW j \in 1 .. Len(queues[want[w][i]]), Take(w, i, j)
            PROVE  received'[u] = delivered'[u] + droppedExpired'[u]
                      + droppedOverflow'[u] + Len(queues'[u])
        <4>1. TakeOn(u, w, i, j)
          BY <3>3, TakeEffect
        <4>2. CASE u = want[w][i]
          <5>1. j \in 0 .. Len(queues[u]) /\ queues[u] \in Seq(Entries)
            BY <2>1, <4>1, <4>2 DEF TakeOn, TypeOK, QueueTypes
          <5>2. Len(DropFirst(queues[u], j)) = Len(queues[u]) - j
            BY <5>1, DropFirstFacts
          <5>3. /\ received'[u] = received[u]
                /\ droppedOverflow'[u] = droppedOverflow[u]
                /\ delivered'[u] = delivered[u] + 1
                /\ droppedExpired'[u] = droppedExpired[u] + (j - 1)
                /\ Len(queues'[u]) = Len(queues[u]) - j
            BY <4>1, <4>2, <5>2 DEF TakeOn
          <5>4. delivered[u] + droppedExpired[u] + droppedOverflow[u]
                   + Len(queues[u])
                = (delivered[u] + 1) + (droppedExpired[u] + (j - 1))
                   + droppedOverflow[u] + (Len(queues[u]) - j)
            <6> DEFINE d == delivered[u]
                       x == droppedExpired[u]
                       o == droppedOverflow[u]
                       l == Len(queues[u])
            <6>1. /\ d \in Nat /\ x \in Nat /\ o \in Nat /\ l \in Nat
                  /\ j \in 0 .. l /\ j > 0
              BY <2>1, <5>1
            <6> HIDE DEF d, x, o, l
            <6>2. d + x + o + l = (d + 1) + (x + (j - 1)) + o + (l - j)
              BY ONLY <6>1, Balance
            <6> QED BY <6>2 DEF d, x, o, l
          <5> QED BY ONLY <2>1, <5>3, <5>4, Zenon
        <4>3. CASE u # want[w][i]
          <5>1. /\ received'[u] = received[u]
                /\ droppedOverflow'[u] = droppedOverflow[u]
                /\ delivered'[u] = delivered[u]
            BY <4>1, <4>3 DEF TakeOn
          <5>2. \/ /\ Len(queues'[u]) = 0
                   /\ droppedExpired'[u] = droppedExpired[u] + Len(queues[u])
                \/ /\ queues'[u] = queues[u]
                   /\ droppedExpired'[u] = droppedExpired[u]
            BY <4>1, <4>3 DEF TakeOn
          <5> QED BY ONLY <2>1, <2>all, <5>1, <5>2, Zenon
        <4> QED BY <4>2, <4>3
      <3> QED BY <3>1, <3>2, <3>3 DEF Scan
    <2>4. CASE UNCHANGED <<queueVars, history>>
      BY <2>1, <2>4 DEF queueVars, history
    <2> QED BY <2>2, <2>3, <2>4, OtherSteps
  <1> QED BY <1>1, <1>2, TypeCorrect, PTL DEF Spec

\* No type ever holds more than perTypeLimit messages.
THEOREM QueueBoundedAlways == Spec => []QueueBounded
  <1>1. Init => QueueBounded
    BY LimitAssumption DEF Init, QueueBounded
  <1>2. TypeOK /\ QueueBounded /\ [Next]_vars => QueueBounded'
    <2> SUFFICES ASSUME TypeOK, QueueBounded, [Next]_vars, NEW u \in Types
                 PROVE  Len(queues'[u]) <= PerTypeLimit
      BY DEF QueueBounded
    <2>1. Len(queues[u]) <= PerTypeLimit /\ Len(queues[u]) \in Nat
      BY DEF QueueBounded, TypeOK, QueueTypes
    <2>2. CASE \E e \in inHand : \E k \in 0 .. Len(queues[e.type]) : Enqueue(e, k)
      <3>0. PICK e \in inHand : \E k \in 0 .. Len(queues[e.type]) : Enqueue(e, k)
        BY <2>2
      <3>1. PICK k \in 0 .. Len(queues[e.type]) : Enqueue(e, k)
        BY <3>0
      <3>2. e \in Entries /\ e.type \in Types /\ EnqueueOn(u, e, k)
        BY <3>1, EnqueueEffect
      <3>3. CASE u = e.type
        <4>1. k \in 0 .. Len(queues[u]) /\ queues[u] \in Seq(Entries)
          BY <3>2, <3>3 DEF EnqueueOn, TypeOK, QueueTypes
        <4>2. /\ Full(DropFirst(queues[u], k)) =>
                     /\ Len(queues[u]) - k >= PerTypeLimit
                     /\ Len(Filed(queues[u], k, e)) = Len(queues[u]) - k
              /\ ~Full(DropFirst(queues[u], k)) =>
                     /\ Len(queues[u]) - k < PerTypeLimit
                     /\ Len(Filed(queues[u], k, e)) = Len(queues[u]) - k + 1
          BY <3>2, <4>1, FiledFacts
        <4> QED BY <2>1, <3>2, <3>3, <4>1, <4>2, LimitAssumption DEF EnqueueOn
      <3>4. CASE u # e.type
        BY <2>1, <3>2, <3>4 DEF EnqueueOn
      <3> QED BY <3>3, <3>4
    <2>3. CASE \E w \in Waiters : Scan(w)
      <3>1. PICK w \in Waiters : Scan(w)
        BY <2>3
      <3>2. CASE Miss(w)
        <4>1. MissOn(u)
          BY <3>2, MissEffect
        <4> QED BY <2>1, <4>1, LimitAssumption DEF MissOn, history
      <3>3. ASSUME NEW i \in 1 .. Len(want[w]),
                   NEW j \in 1 .. Len(queues[want[w][i]]), Take(w, i, j)
            PROVE  Len(queues'[u]) <= PerTypeLimit
        <4>1. TakeOn(u, w, i, j)
          BY <3>3, TakeEffect
        <4>2. CASE u = want[w][i]
          <5>1. j \in 0 .. Len(queues[u]) /\ queues[u] \in Seq(Entries)
            BY <2>1, <4>1, <4>2 DEF TakeOn, TypeOK, QueueTypes
          <5>2. Len(DropFirst(queues[u], j)) = Len(queues[u]) - j
            BY <5>1, DropFirstFacts
          <5> QED BY <2>1, <4>1, <4>2, <5>1, <5>2, LimitAssumption DEF TakeOn
        <4>3. CASE u # want[w][i]
          BY <2>1, <4>1, <4>3, LimitAssumption DEF TakeOn
        <4> QED BY <4>2, <4>3
      <3> QED BY <3>1, <3>2, <3>3 DEF Scan
    <2>4. CASE UNCHANGED <<queueVars, history>>
      BY <2>1, <2>4 DEF queueVars
    <2> QED BY <2>2, <2>3, <2>4, OtherSteps
  <1> QED BY <1>1, <1>2, TypeCorrect, PTL DEF Spec

\* A queue in sending order, newer than `last` and no newer than `top`.
Ordered(q, last, top) ==
    /\ \A i \in 1 .. Len(q) : last < q[i].id /\ q[i].id <= top
    /\ \A i, j \in 1 .. Len(q) : i < j => q[i].id < q[j].id

LEMMA FiledOrdered ==
    ASSUME NEW q \in Seq(Entries), NEW k \in 0 .. Len(q), NEW e \in Entries,
           NEW last \in Nat, NEW top \in Nat,
           Ordered(q, last, top), last < e.id, e.id <= top,
           \A i \in 1 .. Len(q) : q[i].id < e.id
    PROVE  Ordered(Filed(q, k, e), last, top)
  <1> DEFINE f == Filed(q, k, e)
  <1>1. PICK d \in 0 .. Len(q) :
                 /\ Len(f) = Len(q) - d + 1
                 /\ f[Len(q) - d + 1] = e
                 /\ \A i \in 1 .. (Len(q) - d) : f[i] = q[i + d]
    BY FiledFacts
  <1> HIDE DEF f
  <1>2. ASSUME NEW i \in 1 .. Len(f)
        PROVE  last < f[i].id /\ f[i].id <= top
    <2>1. CASE i = Len(q) - d + 1
      BY <1>1, <2>1
    <2>2. CASE i # Len(q) - d + 1
      <3>0. Len(f) = Len(q) - d + 1 /\ Len(q) \in Nat
        BY <1>1
      <3>1. i \in 1 .. (Len(q) - d) /\ i + d \in 1 .. Len(q)
        BY ONLY <2>2, <3>0, d \in 0 .. Len(q), i \in 1 .. Len(f)
      <3> QED BY <1>1, <3>1 DEF Ordered
    <2> QED BY <2>1, <2>2
  <1>3. ASSUME NEW i \in 1 .. Len(f), NEW j \in 1 .. Len(f), i < j
        PROVE  f[i].id < f[j].id
    <2>1. i \in 1 .. (Len(q) - d) /\ i + d \in 1 .. Len(q) /\ f[i] = q[i + d]
      BY <1>1, <1>3
    <2>2. CASE j = Len(q) - d + 1
      BY <1>1, <2>1, <2>2
    <2>3. CASE j # Len(q) - d + 1
      <3>1. /\ j \in 1 .. (Len(q) - d) /\ j + d \in 1 .. Len(q)
            /\ i + d < j + d /\ f[j] = q[j + d]
        BY <1>1, <1>3, <2>3
      <3> QED BY <2>1, <3>1 DEF Ordered
    <2> QED BY <2>2, <2>3
  <1>4. Ordered(f, last, top)
    BY <1>2, <1>3 DEF Ordered
  <1> QED BY <1>4 DEF f

LEMMA DroppedOrdered ==
    ASSUME NEW q \in Seq(Entries), NEW j \in 1 .. Len(q),
           NEW last \in Nat, NEW top \in Nat, Ordered(q, last, top)
    PROVE  Ordered(DropFirst(q, j), q[j].id, top)
  <1> DEFINE f == DropFirst(q, j)
  <1>0. j \in 0 .. Len(q)
    OBVIOUS
  <1>1. Len(f) = Len(q) - j /\ \A n \in 1 .. (Len(q) - j) : f[n] = q[n + j]
    BY <1>0, DropFirstFacts
  <1> HIDE DEF f
  <1>2. ASSUME NEW n \in 1 .. Len(f)
        PROVE  n + j \in 1 .. Len(q) /\ j < n + j /\ f[n] = q[n + j]
    BY <1>1
  <1>3. \A n \in 1 .. Len(f) : q[j].id < f[n].id /\ f[n].id <= top
    BY <1>2 DEF Ordered
  <1>4. \A m, n \in 1 .. Len(f) : m < n => f[m].id < f[n].id
    <2> SUFFICES ASSUME NEW m \in 1 .. Len(f), NEW n \in 1 .. Len(f), m < n
                 PROVE  f[m].id < f[n].id
      OBVIOUS
    <2>1. m + j < n + j
      BY <1>1
    <2> QED BY <1>2, <2>1 DEF Ordered
  <1>5. Ordered(f, q[j].id, top)
    BY <1>3, <1>4 DEF Ordered
  <1> QED BY <1>5 DEF f

LEMMA OrderedMonotone ==
    ASSUME NEW q \in Seq(Entries), NEW last \in Nat, NEW top \in Nat,
           Ordered(q, last, top)
    PROVE  Ordered(q, last, top + 1)
  <1>1. ASSUME NEW i \in 1 .. Len(q)
        PROVE  last < q[i].id /\ q[i].id <= top + 1
    <2>0. q[i] \in Entries
      OBVIOUS
    <2>1. q[i].id \in Nat
      BY <2>0 DEF Entries
    <2> QED BY <2>1 DEF Ordered
  <1> QED BY <1>1 DEF Ordered

\* The inductive strengthening of InOrder.
OrderInv == InOrder /\ HandNewer

LEMMA OrderInvStep == TypeOK /\ OrderInv /\ [Next]_vars => OrderInv'
  <1> SUFFICES ASSUME TypeOK, OrderInv, [Next]_vars
               PROVE  OrderInv'
    OBVIOUS
  <1>0. /\ sent \in Nat
        /\ inHand \subseteq Entries
        /\ \A u \in Types : /\ queues[u] \in Seq(Entries)
                             /\ lastId[u] \in Nat
                             /\ lastId[u] <= sent
                             /\ Ordered(queues[u], lastId[u], sent)
    BY DEF TypeOK, QueueTypes, ProcessTypes, OrderInv, InOrder, HandNewer, Ordered
  <1>1. ASSUME \A u \in Types : Ordered(queues'[u], lastId'[u], sent')
        PROVE  InOrder'
    BY <1>1 DEF InOrder, Ordered
  <1>2. CASE \E e \in inHand : \E k \in 0 .. Len(queues[e.type]) : Enqueue(e, k)
    <2>0. PICK e \in inHand : \E k \in 0 .. Len(queues[e.type]) : Enqueue(e, k)
      BY <1>2
    <2>1. PICK k \in 0 .. Len(queues[e.type]) : Enqueue(e, k)
      BY <2>0
    <2>2. ASSUME NEW u \in Types
          PROVE  Ordered(queues'[u], lastId'[u], sent')
      <3>1. e \in Entries /\ e.type \in Types /\ EnqueueOn(u, e, k)
        BY <2>1, EnqueueEffect
      <3>2. CASE u = e.type
        <4>1. /\ lastId[u] < e.id /\ e.id <= sent
              /\ \A i \in 1 .. Len(queues[u]) : queues[u][i].id < e.id
          BY DEF OrderInv, HandNewer
        <4>2. /\ k \in 0 .. Len(queues[u])
              /\ queues'[u] = Filed(queues[u], k, e)
              /\ lastId' = lastId /\ sent' = sent
          BY <3>1, <3>2 DEF EnqueueOn
        <4>3. Ordered(Filed(queues[u], k, e), lastId[u], sent)
          BY <1>0, <3>1, <4>1, <4>2, FiledOrdered
        <4> QED BY <4>2, <4>3
      <3>3. CASE u # e.type
        BY <1>0, <3>1, <3>3 DEF EnqueueOn
      <3> QED BY <3>2, <3>3
    <2>3. HandNewer'
      <3>1. inHand' = {} /\ lastId' = lastId /\ sent' = sent
        BY <2>1 DEF Enqueue
      <3> QED BY <1>0, <3>1 DEF HandNewer
    <2> QED BY <1>1, <2>2, <2>3 DEF OrderInv
  <1>3. ASSUME NEW w \in Waiters, Miss(w)
        PROVE  OrderInv'
    <2>1. ASSUME NEW u \in Types
          PROVE  /\ lastId' = lastId /\ sent' = sent /\ inHand' = inHand
                 /\ queues'[u] = <<>> \/ queues'[u] = queues[u]
      <3>1. MissOn(u)
        BY <1>3, MissEffect
      <3> QED BY <3>1 DEF MissOn, history
    <2>2. \A u \in Types : Ordered(queues'[u], lastId'[u], sent')
      BY <1>0, <2>1 DEF Ordered
    <2>3. HandNewer'
      <3>1. lastId' = lastId /\ sent' = sent /\ inHand' = inHand
        BY <1>3 DEF Miss, history, readerVars
      <3> QED BY <2>1, <3>1 DEF OrderInv, HandNewer
    <2> QED BY <1>1, <2>2, <2>3 DEF OrderInv
  <1>4. ASSUME NEW w \in Waiters, NEW i \in 1 .. Len(want[w]),
               NEW j \in 1 .. Len(queues[want[w][i]]), Take(w, i, j)
        PROVE  OrderInv'
    <2> DEFINE t == want[w][i]
    <2>1. t \in Types
      BY DEF TypeOK, ProcessTypes
    <2>2. sent' = sent /\ inHand' = inHand
      BY <1>4 DEF Take, readerVars
    <2>3. /\ j \in 1 .. Len(queues[t])
          /\ queues'[t] = DropFirst(queues[t], j)
          /\ lastId'[t] = queues[t][j].id
      <3>1. TakeOn(t, w, i, j)
        BY <1>4, <2>1, TakeEffect
      <3> QED BY <3>1 DEF TakeOn
    <2>4. ASSUME NEW u \in Types, u # t
          PROVE  /\ lastId'[u] = lastId[u]
                 /\ queues'[u] = <<>> \/ queues'[u] = queues[u]
      <3>1. TakeOn(u, w, i, j)
        BY <1>4, TakeEffect
      <3> QED BY <2>4, <3>1 DEF TakeOn
    <2> HIDE DEF t
    <2>5. Ordered(queues'[t], lastId'[t], sent')
      <3>1. Ordered(DropFirst(queues[t], j), queues[t][j].id, sent)
        BY <1>0, <2>1, <2>3, DroppedOrdered
      <3> QED BY <2>2, <2>3, <3>1
    <2>6. \A u \in Types : Ordered(queues'[u], lastId'[u], sent')
      <3> SUFFICES ASSUME NEW u \in Types, u # t
                   PROVE  Ordered(queues'[u], lastId'[u], sent')
        BY <2>5
      <3>1. CASE queues'[u] = <<>>
        BY <3>1 DEF Ordered
      <3>2. CASE queues'[u] = queues[u]
        BY <1>0, <2>2, <2>4, <3>2
      <3> QED BY <2>4, <3>1, <3>2
    <2>7. \A u \in Types : lastId'[u] <= sent'
      <3>1. lastId'[t] <= sent'
        BY <1>0, <2>1, <2>2, <2>3 DEF Ordered
      <3> QED BY <1>0, <2>2, <2>4, <3>1
    <2>8. ASSUME NEW e \in inHand, NEW u \in Types
          PROVE  /\ lastId'[u] < e.id
                 /\ \A n \in 1 .. Len(queues'[u]) : queues'[u][n].id < e.id
      <3>0. /\ lastId[u] < e.id
            /\ \A n \in 1 .. Len(queues[u]) : queues[u][n].id < e.id
        BY DEF OrderInv, HandNewer
      <3>1. CASE u = t
        <4>1. queues[t] \in Seq(Entries) /\ j \in 0 .. Len(queues[t])
          BY <1>0, <2>1, <2>3
        <4>2. /\ Len(queues'[t]) = Len(queues[t]) - j
              /\ \A n \in 1 .. (Len(queues[t]) - j) : queues'[t][n] = queues[t][n + j]
          BY <2>3, <4>1, DropFirstFacts
        <4>3. \A n \in 1 .. (Len(queues[t]) - j) : n + j \in 1 .. Len(queues[t])
          BY <4>1
        <4> QED BY <2>3, <3>0, <3>1, <4>2, <4>3
      <3>2. CASE u # t
        BY <2>4, <3>0, <3>2
      <3> QED BY <3>1, <3>2
    <2>9. \A e \in inHand : e.id <= sent
      BY DEF OrderInv, HandNewer
    <2>10. HandNewer'
      BY <2>2, <2>7, <2>8, <2>9 DEF HandNewer
    <2> QED BY <1>1, <2>6, <2>10 DEF OrderInv
  <1>5. ASSUME NEW t \in Types, NEW ttl \in WireTTLs, Receive(t, ttl)
        PROVE  OrderInv'
    <2>1. /\ sent' = sent + 1 /\ queues' = queues /\ lastId' = lastId
          /\ inHand' = {[id |-> sent + 1, type |-> t, ttl |-> ttl, at |-> now]}
      BY <1>5 DEF Receive, queueVars, history
    <2>2. \A u \in Types : Ordered(queues'[u], lastId'[u], sent')
      BY <1>0, <2>1, OrderedMonotone
    <2>3. ASSUME NEW u \in Types
          PROVE  /\ lastId[u] <= sent + 1 /\ lastId[u] < sent + 1
                 /\ \A i \in 1 .. Len(queues[u]) : queues[u][i].id < sent + 1
      <3>1. ASSUME NEW i \in 1 .. Len(queues[u])
            PROVE  queues[u][i].id \in Nat /\ queues[u][i].id <= sent
        <4>1. queues[u][i] \in Entries
          BY <1>0
        <4> QED BY <1>0, <4>1 DEF Ordered, Entries
      <3> QED BY <1>0, <3>1
    <2>4. HandNewer'
      BY <1>0, <2>1, <2>3 DEF HandNewer
    <2> QED BY <1>1, <2>2, <2>4 DEF OrderInv
  <1>6. CASE UNCHANGED <<queues, lastId, sent, inHand>>
    BY <1>6 DEF OrderInv, InOrder, HandNewer
  <1>7. CASE \/ Start \/ CheckClosed \/ ReaderBroadcast \/ ReceiveError
             \/ Tick \/ UNCHANGED vars
             \/ \E w \in Waiters : \/ \E ts \in Requests : Call(w, ts)
                                   \/ Woken(w) \/ ContextDone(w)
             \/ \E c \in Closers : Close(c) \/ CloseBroadcast(c)
    <2>1. UNCHANGED <<queues, lastId, sent, inHand>>
      BY <1>7, Zenon DEF Start, CheckClosed, ReaderBroadcast, ReceiveError, Tick, vars,
             Call, Woken, ContextDone, Close, CloseBroadcast, queueVars,
             history, readerVars
    <2> QED BY <1>6, <2>1
  <1> QED BY <1>2, <1>3, <1>4, <1>5, <1>7 DEF Next, ReaderStep, StreamStep, Scan

\* Messages of one type come out of WaitFor in the order they were sent and
\* never twice, whatever is dropped in between.
THEOREM InOrderAlways == Spec => []InOrder
  <1>1. Init => OrderInv
    BY DEF Init, OrderInv, InOrder, HandNewer
  <1>2. OrderInv => InOrder
    BY DEF OrderInv
  <1> QED BY <1>1, <1>2, OrderInvStep, TypeCorrect, PTL DEF Spec

-----------------------------------------------------------------------------
(* Wake-ups *)

\* Time only takes messages away from a waiter.
LEMMA TickExpires ==
    ASSUME TypeOK, Tick, NEW u \in Types, LiveIn(u)'
    PROVE  LiveIn(u)
  <1>1. queues' = queues /\ now' = now + 1 /\ now \in Nat
    BY DEF Tick, queueVars, TypeOK, ProcessTypes
  <1>2. PICK i \in 1 .. Len(queues[u]) : ~ExpiredAt(queues[u][i], now + 1)
    <2>1. \E i \in 1 .. Len(queues'[u]) : ~ExpiredAt(queues'[u][i], now')
      BY DEF LiveIn, Expired
    <2> QED BY ONLY <1>1, <2>1
  <1>3. queues[u][i] \in Entries
    BY DEF TypeOK, QueueTypes
  <1>4. queues[u][i].at \in Nat /\ EffectiveTTL(queues[u][i]) \in Nat
    BY <1>3 DEF Entries, EffectiveTTL
  <1>5. ~ExpiredAt(queues[u][i], now)
    BY <1>1, <1>2, <1>4 DEF ExpiredAt
  <1> QED BY <1>5 DEF LiveIn, Expired

LEMMA NoLostWakeupStep ==
    ASSUME \A v, w \in Waiters : v = w, TypeOK, NoLostWakeup, [Next]_vars
    PROVE  NoLostWakeup'
  <1> DEFINE P == notify \/ BroadcastPending
  <1> SUFFICES ASSUME NEW w \in Waiters, waiter'[w] = "blocked", Ready(w)'
               PROVE  P'
    BY DEF NoLostWakeup
  <1>0. /\ waiter \in [Waiters -> {"idle", "scan", "blocked"} \cup Returned]
        /\ want \in [Waiters -> Seq(Types)]
        /\ ~started => reader = "off"
        /\ waiter[w] = "blocked" /\ Ready(w) => P
    BY DEF TypeOK, ProcessTypes, NoLostWakeup
  <1>1. ASSUME UNCHANGED <<queues, closed, failed, now, waiter, want>>, P => P'
        PROVE  P'
    BY <1>0, <1>1 DEF Ready, LiveIn, Expired, ExpiredAt
  <1>2. CASE Start
    <2>1. P => P'
      BY <1>0, <1>2 DEF Start, BroadcastPending
    <2> QED BY <1>1, <1>2, <2>1 DEF Start, queueVars, waiterVars
  <1>3. CASE CheckClosed
    <2>1. P => P'
      BY <1>3 DEF CheckClosed, BroadcastPending
    <2> QED BY <1>1, <1>3, <2>1 DEF CheckClosed, queueVars, waiterVars
  <1>4. ASSUME NEW e \in inHand, NEW k \in 0 .. Len(queues[e.type]), Enqueue(e, k)
        PROVE  P'
    BY <1>4 DEF Enqueue, BroadcastPending
  <1>5. CASE ReaderBroadcast
    BY <1>5 DEF ReaderBroadcast
  <1>6. ASSUME NEW t \in Types, NEW ttl \in WireTTLs, Receive(t, ttl)
        PROVE  P'
    <2>1. P => P'
      BY <1>6 DEF Receive, BroadcastPending
    <2> QED BY <1>1, <1>6, <2>1 DEF Receive, queueVars, waiterVars
  <1>7. CASE ReceiveError
    BY <1>7 DEF ReceiveError, BroadcastPending
  <1>8. ASSUME NEW v \in Waiters, NEW ts \in Requests, Call(v, ts)
        PROVE  P'
    <2>1. waiter'[w] = "scan"
      BY <1>0, <1>8 DEF Call
    <2> QED BY <2>1
  <1>9. ASSUME NEW v \in Waiters, NEW i \in 1 .. Len(want[v]),
               NEW j \in 1 .. Len(queues[want[v][i]]), Take(v, i, j)
        PROVE  P'
    <2>1. waiter'[w] = "message"
      BY <1>0, <1>9 DEF Take, Return
    <2> QED BY <2>1
  <1>10. ASSUME NEW v \in Waiters, Miss(v)
         PROVE  P'
    <2>1. v = w /\ waiter[w] = "scan"
      BY <1>10 DEF Miss
    <2>2. ~failed /\ ~closed /\ want' = want /\ UNCHANGED <<failed, closed>>
      <3>1. CASE failed \/ closed
        <4>1. waiter'[w] \in {"error", "closed"}
          BY <1>0, <1>10, <2>1, <3>1 DEF Miss, Return
        <4> QED BY <4>1
      <3>2. CASE ~(failed \/ closed)
        BY <1>10, <2>1, <3>2, Zenon DEF Miss
      <3> QED BY <3>1, <3>2
    <2>3. ASSUME NEW i \in 1 .. Len(want[w])
          PROVE  ~LiveIn(want[w][i])'
      <3>1. want[w][i] \in Types /\ Len(want[w]) \in Nat
        BY <1>0
      <3>2. i \in 1 .. ((Len(want[w]) + 1) - 1)
        BY <3>1
      <3>3. want[w][i] \in Before(w, Len(want[w]) + 1)
        BY <3>2 DEF Before
      <3>4. queues'[want[w][i]] = <<>>
        BY <1>10, <2>1, <3>1, <3>3 DEF Miss
      <3>5. want'[w][i] = want[w][i]
        BY <2>2
      <3> QED BY <3>4, <3>5 DEF LiveIn
    <2> QED BY <2>2, <2>3 DEF Ready
  <1>11. ASSUME NEW v \in Waiters, Woken(v)
         PROVE  P'
    <2>1. waiter'[w] = "scan"
      BY <1>0, <1>11 DEF Woken
    <2> QED BY <2>1
  <1>12. ASSUME NEW v \in Waiters, ContextDone(v)
         PROVE  P'
    <2>1. waiter'[w] = "context"
      BY <1>0, <1>12 DEF ContextDone, Return
    <2> QED BY <2>1
  <1>13. ASSUME NEW c \in Closers, Close(c)
         PROVE  P'
    <2>1. closer'[c] = "wake"
      BY <1>13 DEF Close, TypeOK, ProcessTypes
    <2> QED BY <2>1 DEF BroadcastPending
  <1>14. ASSUME NEW c \in Closers, CloseBroadcast(c)
         PROVE  P'
    BY <1>14 DEF CloseBroadcast
  <1>15. CASE Tick
    <2>1. UNCHANGED <<queues, closed, failed, waiter, want, notify, reader, closer>>
      BY <1>15 DEF Tick, queueVars, waiterVars, readerVars
    <2>2. Ready(w)
      <3>1. CASE closed \/ failed
        BY <3>1 DEF Ready
      <3>2. CASE ~(closed \/ failed)
        <4>1. PICK i \in 1 .. Len(want[w]) : LiveIn(want[w][i])'
          BY <2>1, <3>2 DEF Ready
        <4>2. want[w][i] \in Types
          BY <1>0
        <4>3. LiveIn(want[w][i])
          BY <1>15, <2>1, <4>1, <4>2, TickExpires
        <4> QED BY <4>3 DEF Ready
      <3> QED BY <3>1, <3>2
    <2> QED BY <1>0, <2>1, <2>2 DEF BroadcastPending
  <1>16. CASE UNCHANGED vars
    <2>1. P => P'
      BY <1>16 DEF vars, readerVars, BroadcastPending
    <2> QED BY <1>1, <1>16, <2>1 DEF vars, queueVars, waiterVars
  <1> HIDE DEF P
  <1> QED
    BY <1>2, <1>3, <1>4, <1>5, <1>6, <1>7, <1>8, <1>9, <1>10, <1>11, <1>12,
       <1>13, <1>14, <1>15, <1>16 DEF Next, ReaderStep, StreamStep, Scan

\* With one goroutine at a time in WaitFor, as every caller in the repository
\* has it, the one-slot notify channel loses no wake-up: a goroutine parked
\* although its scan would succeed has a token waiting or about to be sent.
THEOREM NoLostWakeupAlways ==
    ASSUME \A v, w \in Waiters : v = w
    PROVE  Spec => []NoLostWakeup
  <1>1. Init => NoLostWakeup
    BY DEF Init, NoLostWakeup
  <1>2. TypeOK /\ NoLostWakeup /\ [Next]_vars => NoLostWakeup'
    BY NoLostWakeupStep
  <1> QED BY <1>1, <1>2, TypeCorrect, PTL DEF Spec

-----------------------------------------------------------------------------
(* What leaves a queue *)

\* The clock the reader judges with is not ahead of the one WaitFor uses.
HandPast == \A e \in inHand : e.at <= now

LEMMA HandPastStep == TypeOK /\ HandPast /\ [Next]_vars => HandPast'
  <1> SUFFICES ASSUME TypeOK, HandPast, [Next]_vars PROVE HandPast'
    OBVIOUS
  <1>0. now \in Nat /\ \A e \in inHand : e.at \in Nat
    BY DEF TypeOK, ProcessTypes, Entries
  <1>1. ASSUME NEW t \in Types, NEW ttl \in WireTTLs, Receive(t, ttl) PROVE HandPast'
    BY <1>0, <1>1 DEF Receive, HandPast
  <1>2. CASE Tick
    BY <1>0, <1>2 DEF Tick, readerVars, HandPast
  <1>3. ASSUME NEW e \in inHand, NEW k \in 0 .. Len(queues[e.type]), Enqueue(e, k)
        PROVE  HandPast'
    BY <1>3 DEF Enqueue, HandPast
  <1>4. ASSUME UNCHANGED <<inHand, now>> PROVE HandPast'
    BY <1>4 DEF HandPast
  <1>5. ASSUME NEW w \in Waiters, Scan(w) PROVE UNCHANGED <<inHand, now>>
    BY <1>5 DEF Scan, Take, Miss, readerVars
  <1>6. ASSUME NEW w \in Waiters, \/ \E ts \in Requests : Call(w, ts)
                                  \/ Woken(w) \/ ContextDone(w)
        PROVE  UNCHANGED <<inHand, now>>
    BY <1>6 DEF Call, Woken, ContextDone, readerVars
  <1>7. ASSUME NEW c \in Closers, Close(c) \/ CloseBroadcast(c) PROVE UNCHANGED <<inHand, now>>
    BY <1>7 DEF Close, CloseBroadcast, readerVars
  <1>8. ASSUME Start \/ CheckClosed \/ ReaderBroadcast \/ ReceiveError \/ UNCHANGED vars
        PROVE  UNCHANGED <<inHand, now>>
    BY <1>8 DEF Start, CheckClosed, ReaderBroadcast, ReceiveError, vars, readerVars
  <1> QED BY <1>1, <1>2, <1>3, <1>4, <1>5, <1>6, <1>7, <1>8
          DEF Next, ReaderStep, StreamStep

\* What had expired by the reader's clock has expired.
LEMMA ExpiresLater ==
    ASSUME NEW e \in Entries, NEW t \in Nat, now \in Nat, t <= now, ExpiredAt(e, t)
    PROVE  Expired(e)
  <1>1. e.at \in Nat /\ EffectiveTTL(e) \in Nat
    BY DEF Entries, EffectiveTTL
  <1> QED BY <1>1 DEF Expired, ExpiredAt

\* What LiveKept says of entry i of the queue of type t.
KeptOrTaken(t, i) ==
    ~Expired(queues[t][i]) /\ Leaves(t, i) =>
        /\ \A k \in 1 .. (i - 1) : Expired(queues[t][k])
        /\ \/ lastId'[t] = queues[t][i].id
           \/ /\ received'[t] = received[t] + 1
              /\ Len(queues[t]) - (i - 1) >= PerTypeLimit

\* An entry beyond the first n of what the queue keeps does not leave.
LEMMA StaysBehind ==
    ASSUME NEW t, NEW i \in Nat, NEW n \in Nat, i > n,
           i - n \in 1 .. Len(queues'[t]), queues'[t][i - n] = queues[t][i]
    PROVE  ~Leaves(t, i)
  BY DEF Leaves

LEMMA EnqueueKeeps ==
    ASSUME TypeOK, HandPast, NEW e \in inHand, NEW k \in 0 .. Len(queues[e.type]),
           Enqueue(e, k), NEW t \in Types, NEW i \in 1 .. Len(queues[t])
    PROVE  KeptOrTaken(t, i)
  <1> DEFINE q == queues[t]
  <1>0. e \in Entries /\ e.at \in Nat /\ e.at <= now /\ now \in Nat
    BY DEF TypeOK, ProcessTypes, Entries, HandPast
  <1>1. EnqueueOn(t, e, k)
    BY EnqueueEffect
  <1>2. q \in Seq(Entries)
    BY DEF TypeOK, QueueTypes
  <1>3. CASE t # e.type
    <2>1. queues'[t] = queues[t]
      BY <1>1, <1>3 DEF EnqueueOn
    <2> QED BY <2>1 DEF KeptOrTaken, Leaves
  <1>4. CASE t = e.type
    <2>1. k \in 0 .. Len(q) /\ queues'[t] = Filed(q, k, e) /\ received'[t] = received[t] + 1
      BY <1>1, <1>4 DEF EnqueueOn
    <2>2. \A x \in 1 .. k : Expired(q[x])
      <3> SUFFICES ASSUME NEW x \in 1 .. k PROVE Expired(q[x])
        OBVIOUS
      <3>1. ExpiredAt(q[x], e.at)
        BY <1>4 DEF Enqueue, ExpiredRun
      <3>2. q[x] \in Entries
        BY <1>2, <2>1
      <3> QED BY <1>0, <3>1, <3>2, ExpiresLater
    <2> DEFINE r == DropFirst(q, k)
    <2>3. r \in Seq(Entries) /\ Len(r) = Len(q) - k
          /\ \A x \in 1 .. (Len(q) - k) : r[x] = q[x + k]
      BY <1>2, <2>1, DropFirstFacts
    <2>4. /\ Full(r) => Len(q) - k >= PerTypeLimit
          /\ queues'[t] = Append(IF Full(r) THEN DropFirst(r, 1) ELSE r, e)
      BY <1>2, <2>1, <1>0, FiledFacts DEF Filed
    <2> HIDE DEF r
    <2>5. CASE i <= k
      BY <2>2, <2>5 DEF KeptOrTaken
    <2>6. CASE i > k /\ ~Full(r)
      <3>1. queues'[t] = Append(r, e)
        BY <2>4, <2>6
      <3> DEFINE f == Append(r, e)
      <3>2. Len(f) = Len(r) + 1 /\ \A x \in 1 .. Len(r) : f[x] = r[x]
        <4>1. r \in Seq(Entries) /\ e \in Entries
          BY <1>0, <2>3
        <4> QED BY ONLY <4>1, AppendFacts
      <3> HIDE DEF f
      <3>3. i - k \in 1 .. Len(r) /\ i - k \in 1 .. Len(r) + 1 /\ (i - k) + k = i
        BY <1>2, <2>1, <2>3, <2>6
      <3>4. queues'[t][i - k] = q[i] /\ i - k \in 1 .. Len(queues'[t])
        BY <2>3, <3>1, <3>2, <3>3 DEF f
      <3> QED BY <2>1, <2>6, <3>4, StaysBehind DEF KeptOrTaken
    <2>7. CASE i = k + 1 /\ Full(r)
      <3>1. Len(q) - (i - 1) >= PerTypeLimit /\ i - 1 = k
        BY <1>2, <2>1, <2>4, <2>7
      <3> QED BY <2>1, <2>2, <3>1 DEF KeptOrTaken
    <2>8. CASE i > k + 1 /\ Full(r)
      <3> DEFINE p == DropFirst(r, 1)
                 n == k + 1
      <3>1. 1 \in 0 .. Len(r) /\ n \in Nat /\ i > n
        BY <1>2, <2>1, <2>3, <2>8
      <3>2. p \in Seq(Entries) /\ Len(p) = Len(r) - 1
            /\ \A x \in 1 .. (Len(r) - 1) : p[x] = r[x + 1]
        BY <2>3, <3>1, DropFirstFacts
      <3>3. queues'[t] = Append(p, e)
        BY <2>4, <2>8
      <3> HIDE DEF p
      <3> DEFINE f == Append(p, e)
      <3>4. Len(f) = Len(p) + 1 /\ \A x \in 1 .. Len(p) : f[x] = p[x]
        <4>1. p \in Seq(Entries) /\ e \in Entries
          BY <1>0, <3>2
        <4> QED BY ONLY <4>1, AppendFacts
      <3> HIDE DEF f
      <3>5. i - n \in 1 .. Len(p) /\ i - n \in 1 .. Len(p) + 1 /\ i - n \in 1 .. (Len(r) - 1)
            /\ (i - n) + 1 \in 1 .. (Len(q) - k) /\ ((i - n) + 1) + k = i
        BY <1>2, <2>1, <2>3, <2>8, <3>1, <3>2
      <3>6. queues'[t][i - n] = q[i] /\ i - n \in 1 .. Len(queues'[t])
        BY <2>3, <3>2, <3>3, <3>4, <3>5 DEF f
      <3> HIDE DEF n
      <3> QED BY <3>1, <3>6, StaysBehind DEF KeptOrTaken
    <2> QED BY <2>1, <2>5, <2>6, <2>7, <2>8
  <1> QED BY <1>3, <1>4

\* Queues that a scan empties hold nothing live.
LEMMA EmptiedKeeps ==
    ASSUME NEW t, NEW i \in 1 .. Len(queues[t]), ~LiveIn(t) \/ queues'[t] = queues[t]
    PROVE  KeptOrTaken(t, i)
  BY DEF KeptOrTaken, LiveIn, Leaves

LEMMA TakeKeeps ==
    ASSUME TypeOK, NEW w \in Waiters, NEW x \in 1 .. Len(want[w]),
           NEW j \in 1 .. Len(queues[want[w][x]]), Take(w, x, j),
           NEW t \in Types, NEW i \in 1 .. Len(queues[t])
    PROVE  KeptOrTaken(t, i)
  <1> DEFINE q == queues[t]
  <1>1. TakeOn(t, w, x, j)
    BY TakeEffect
  <1>2. q \in Seq(Entries)
    BY DEF TypeOK, QueueTypes
  <1>3. CASE t # want[w][x]
    <2>1. queues'[t] = IF t \in Before(w, x) THEN <<>> ELSE queues[t]
      BY <1>3 DEF Take
    <2>2. t \in Before(w, x) => ~LiveIn(t)
      BY DEF Take
    <2> QED BY <2>1, <2>2, EmptiedKeeps
  <1>4. CASE t = want[w][x]
    <2>1. /\ j \in 1 .. Len(q) /\ queues'[t] = DropFirst(q, j) /\ lastId'[t] = q[j].id
      BY <1>1, <1>4 DEF TakeOn
    <2>2. \A k \in 1 .. (j - 1) : Expired(q[k])
      BY <1>4 DEF Take
    <2>3. CASE i < j
      <3>1. i \in 1 .. (j - 1)
        BY <2>1, <2>3
      <3> QED BY <2>2, <3>1 DEF KeptOrTaken
    <2>4. CASE i = j
      BY <2>1, <2>2, <2>4 DEF KeptOrTaken
    <2>5. CASE i > j
      <3> DEFINE r == DropFirst(q, j)
      <3>1. j \in 0 .. Len(q)
        BY <2>1
      <3>2. Len(r) = Len(q) - j /\ \A k \in 1 .. (Len(q) - j) : r[k] = q[k + j]
        BY <1>2, <3>1, DropFirstFacts
      <3>3. i - j \in 1 .. (Len(q) - j) /\ (i - j) + j = i /\ j \in Nat
        BY <1>2, <2>1, <2>5
      <3> HIDE DEF r
      <3>4. i - j \in 1 .. Len(r) /\ r[i - j] = q[i]
        BY <3>2, <3>3
      <3> QED BY <2>1, <2>5, <3>3, <3>4, StaysBehind DEF KeptOrTaken, r
    <2> QED BY <2>1, <2>3, <2>4, <2>5
  <1> QED BY <1>3, <1>4

LEMMA MissKeeps ==
    ASSUME NEW w \in Waiters, Miss(w), NEW t \in Types, NEW i \in 1 .. Len(queues[t])
    PROVE  KeptOrTaken(t, i)
  <1> DEFINE all == Before(w, Len(want[w]) + 1)
  <1>1. queues'[t] = IF t \in all THEN <<>> ELSE queues[t]
    BY DEF Miss
  <1>2. t \in all => ~LiveIn(t)
    BY DEF Miss
  <1> QED BY <1>1, <1>2, EmptiedKeeps

\* A live message is returned by a WaitFor, evicted from a full queue, or kept:
\* the reader's pruning, with the clock of its own message, and the scan's, with
\* the present one, take only what no WaitFor would return.
THEOREM LiveKeptAlways == Spec => LiveKept
  <1> DEFINE Step == \A t \in Types : \A i \in 1 .. Len(queues[t]) : KeptOrTaken(t, i)
  <1>1. Init => HandPast
    BY DEF Init, HandPast
  <1>2. ASSUME TypeOK, HandPast, [Next]_vars PROVE Step
    <2> SUFFICES ASSUME NEW t \in Types, NEW i \in 1 .. Len(queues[t])
                 PROVE  KeptOrTaken(t, i)
      OBVIOUS
    <2>1. CASE \E e \in inHand : \E k \in 0 .. Len(queues[e.type]) : Enqueue(e, k)
      BY <1>2, <2>1, EnqueueKeeps
    <2>2. CASE \E w \in Waiters : Scan(w)
      BY <1>2, <2>2, TakeKeeps, MissKeeps DEF Scan
    <2>3. CASE /\ ~\E e \in inHand : \E k \in 0 .. Len(queues[e.type]) : Enqueue(e, k)
               /\ ~\E w \in Waiters : Scan(w)
      <3>1. queues' = queues
        BY <1>2, <2>3, OtherSteps DEF queueVars
      <3> QED BY <3>1, EmptiedKeeps
    <2> QED BY <2>1, <2>2, <2>3
  <1>3. [][Step]_vars => LiveKept
    BY PTL DEF KeptOrTaken, LiveKept
  <1>4. TypeOK /\ HandPast /\ [Next]_vars => [Step]_vars
    BY <1>2
  <1> HIDE DEF Step
  <1> QED BY <1>1, <1>3, <1>4, HandPastStep, TypeCorrect, PTL DEF Spec

=============================================================================
