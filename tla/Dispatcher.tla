----------------------------- MODULE Dispatcher -----------------------------
(***************************************************************************)
(* The control-stream dispatcher of internal/message/dispatcher.go: one    *)
(* reader goroutine takes framed messages off a stream and files them in   *)
(* bounded per-type queues; callers of WaitFor take the first live message *)
(* of the types they ask for; Close and read errors end the waiting.       *)
(*                                                                         *)
(* Reader, waiters and closers are separate processes.  One action is one  *)
(* critical section of d.mu, one receive from the stream, or one operation *)
(* on the one-slot channel d.notify.  Time is counted in seconds.          *)
(***************************************************************************)
EXTENDS Integers, Sequences, FiniteSets

CONSTANTS
    Types,          \* pb.MessageType values in use
    Waiters,        \* goroutines that call WaitFor
    Closers,        \* goroutines that call Close
    Requests,       \* the argument lists (types ...) WaitFor is called with
    PerTypeLimit,   \* perTypeLimit, 10 in the code
    TTLs,           \* the ttl arguments the peer passes to SendWithTTL
    DefaultTTL,     \* SendWithTTL's default, 30 s in the code
    MaxTTL,         \* SendWithTTL's ceiling, 60 s in the code
    MaxMsgs,        \* model bound: messages the peer sends
    MaxTime         \* model bound: seconds that pass

ASSUME LimitAssumption == PerTypeLimit \in Nat /\ PerTypeLimit > 0
ASSUME TTLAssumption ==
    /\ TTLs \subseteq Nat
    /\ DefaultTTL \in Nat
    /\ MaxTTL \in Nat
    /\ 1 <= DefaultTTL
    /\ DefaultTTL <= MaxTTL
ASSUME RequestAssumption ==
    \A ts \in Requests : /\ ts \in Seq(Types)
                         /\ \A i, j \in 1 .. Len(ts) : ts[i] = ts[j] => i = j
ASSUME BoundAssumption == MaxMsgs \in Nat /\ MaxTime \in Nat

VARIABLES
    queues,          \* queues[t]: entries of type t, oldest first
    closed,          \* d.closed
    failed,          \* d.err # nil
    started,         \* d.started
    notify,          \* the slot of d.notify holds a token
    droppedExpired,  \* per-type metric
    droppedOverflow, \* per-type metric
    now,             \* time.Now()
    reader,          \* where the reader goroutine is
    inHand,          \* the message it has read and not yet filed, in a set
    waiter,          \* where each waiter is in WaitFor, or how it returned
    want,            \* the types each waiter inside WaitFor asked for
    closer,          \* where each closer is
    sent,            \* history: messages read off the stream so far
    received,        \* history: messages filed, per type
    delivered,       \* history: messages returned by WaitFor, per type
    lastId           \* history: id of the last message returned, per type

queueVars  == <<queues, droppedExpired, droppedOverflow>>
history    == <<received, delivered, lastId>>
readerVars == <<reader, inHand, sent, started>>
waiterVars == <<waiter, want>>
vars == <<queueVars, history, readerVars, waiterVars,
          closed, failed, notify, now, closer>>

-----------------------------------------------------------------------------
(* Messages *)

Entries == [id : Nat, type : Types, ttl : Nat, at : Nat]

\* The ttl a message carries on the wire after SendWithTTL(ttl); one above
\* the ceiling is refused and never sent.
SendWithTTL(ttl) == IF ttl = 0 THEN DefaultTTL ELSE ttl

WireTTLs == { SendWithTTL(x) : x \in { y \in TTLs : y <= MaxTTL } }

\* "if ttl < time.Second { ttl = time.Second }" on both consuming paths.
EffectiveTTL(e) == IF e.ttl < 1 THEN 1 ELSE e.ttl

\* The reader judges with the clock it read when its message arrived,
\* WaitFor with the present one.
ExpiredAt(e, t) == t - e.at > EffectiveTTL(e)
Expired(e) == ExpiredAt(e, now)

\* Mutant: the newest entries are dropped instead of the oldest.
MutDropFirst(q, n) == SubSeq(q, 1, Len(q) - n)

DropFirst(q, n) == SubSeq(q, n + 1, Len(q))

\* Mutant: the message to be filed is counted as if it were queued.
MutFull(q) == Len(q) + 1 >= PerTypeLimit

Full(q) == Len(q) >= PerTypeLimit

\* k is the length of the run of expired entries at the head of q.
ExpiredRun(q, k, t) ==
    /\ k \in 0 .. Len(q)
    /\ \A i \in 1 .. k : ExpiredAt(q[i], t)
    /\ k < Len(q) => ~ExpiredAt(q[k + 1], t)

LiveIn(t) == \E i \in 1 .. Len(queues[t]) : ~Expired(queues[t][i])

-----------------------------------------------------------------------------
Init ==
    /\ queues = [t \in Types |-> <<>>]
    /\ droppedExpired = [t \in Types |-> 0]
    /\ droppedOverflow = [t \in Types |-> 0]
    /\ received = [t \in Types |-> 0]
    /\ delivered = [t \in Types |-> 0]
    /\ lastId = [t \in Types |-> 0]
    /\ closed = FALSE
    /\ failed = FALSE
    /\ started = FALSE
    /\ notify = FALSE
    /\ now = 0
    /\ reader = "off"
    /\ inHand = {}
    /\ sent = 0
    /\ waiter = [w \in Waiters |-> "idle"]
    /\ want = [w \in Waiters |-> <<>>]
    /\ closer = [c \in Closers |-> "idle"]

-----------------------------------------------------------------------------
(* The reader goroutine *)

\* Mutant: a second Start launches the goroutine's loop again.
MutStart ==
    /\ started' = TRUE
    /\ reader' = "check"
    /\ UNCHANGED <<queueVars, history, waiterVars, inHand, sent,
                   closed, failed, notify, now, closer>>

\* Start: only the first call launches the goroutine.
Start ==
    /\ ~started
    /\ started' = TRUE
    /\ reader' = "check"
    /\ UNCHANGED <<queueVars, history, waiterVars, inHand, sent,
                   closed, failed, notify, now, closer>>

\* Top of the loop: IsClosed under the lock.
CheckClosed ==
    /\ reader = "check"
    /\ reader' = IF closed THEN "done" ELSE "read"
    /\ UNCHANGED <<queueVars, history, waiterVars, inHand, sent, started,
                   closed, failed, notify, now, closer>>

\* receiveMessage returns a message; the clock is read before the lock.
Receive(t, ttl) ==
    /\ reader = "read"
    /\ sent < MaxMsgs
    /\ sent' = sent + 1
    /\ inHand' = {[id |-> sent + 1, type |-> t, ttl |-> ttl, at |-> now]}
    /\ reader' = "file"
    /\ UNCHANGED <<queueVars, history, waiterVars, started,
                   closed, failed, notify, now, closer>>

\* The enqueue section: prune the expired head, evict the oldest entry of a
\* full queue, append.
Enqueue(e, k) ==
    LET t == e.type
        q == DropFirst(queues[t], k)
    IN  /\ reader = "file"
        /\ ExpiredRun(queues[t], k, e.at)
        /\ droppedExpired' = [droppedExpired EXCEPT ![t] = @ + k]
        /\ droppedOverflow' =
              [droppedOverflow EXCEPT ![t] = IF Full(q) THEN @ + 1 ELSE @]
        /\ queues' =
              [queues EXCEPT ![t] = Append(IF Full(q) THEN DropFirst(q, 1) ELSE q, e)]
        /\ received' = [received EXCEPT ![t] = @ + 1]
        /\ inHand' = {}
        /\ reader' = "wake"
        /\ UNCHANGED <<waiterVars, delivered, lastId, sent, started,
                       closed, failed, notify, now, closer>>

\* receiveMessage fails (stream closed or reset, bad frame, bad protobuf).
ReceiveError ==
    /\ reader = "read"
    /\ failed' = (failed \/ ~closed)
    /\ reader' = "lastWake"
    /\ UNCHANGED <<queueVars, history, waiterVars, inHand, sent, started,
                   closed, notify, now, closer>>

\* Mutant: no broadcast on the error path.
MutReaderBroadcast ==
    /\ reader \in {"wake", "lastWake"}
    /\ notify' = (notify \/ reader = "wake")
    /\ reader' = IF reader = "wake" THEN "check" ELSE "done"
    /\ UNCHANGED <<queueVars, history, waiterVars, inHand, sent, started,
                   closed, failed, now, closer>>

\* broadcast by the reader: it loops after a message and ends after an error.
ReaderBroadcast ==
    /\ reader \in {"wake", "lastWake"}
    /\ notify' = TRUE
    /\ reader' = IF reader = "wake" THEN "check" ELSE "done"
    /\ UNCHANGED <<queueVars, history, waiterVars, inHand, sent, started,
                   closed, failed, now, closer>>

-----------------------------------------------------------------------------
(* WaitFor *)

Returned == {"message", "error", "closed", "context"}

Call(w, ts) ==
    /\ waiter[w] \in {"idle"} \cup Returned
    /\ waiter' = [waiter EXCEPT ![w] = "scan"]
    /\ want' = [want EXCEPT ![w] = ts]
    /\ UNCHANGED <<queueVars, history, readerVars,
                   closed, failed, notify, now, closer>>

\* The types scanned before position i of the request.
Before(w, i) == { want[w][k] : k \in 1 .. (i - 1) }

\* Mutant: entries skipped as expired are not counted.
MutSkipped(u, S) == 0

\* Entries of type u that a scan past the types S drops as expired.
Skipped(u, S) == IF u \in S THEN Len(queues[u]) ELSE 0

Return(w, r) ==
    /\ waiter' = [waiter EXCEPT ![w] = r]
    /\ want' = [want EXCEPT ![w] = <<>>]

\* The scan finds a live message: entry j of the queue of the i-th wanted
\* type.  What it skipped on the way has expired and is dropped.
Take(w, i, j) ==
    LET t == want[w][i]
        e == queues[t][j]
    IN  /\ waiter[w] = "scan"
        /\ \A u \in Before(w, i) : ~LiveIn(u)
        /\ ~Expired(e)
        /\ \A k \in 1 .. (j - 1) : Expired(queues[t][k])
        /\ queues' = [u \in Types |->
              IF u = t THEN DropFirst(queues[u], j)
              ELSE IF u \in Before(w, i) THEN <<>> ELSE queues[u]]
        /\ droppedExpired' = [u \in Types |->
              IF u = t THEN droppedExpired[u] + (j - 1)
              ELSE droppedExpired[u] + Skipped(u, Before(w, i))]
        /\ delivered' = [delivered EXCEPT ![t] = @ + 1]
        /\ lastId' = [lastId EXCEPT ![t] = e.id]
        /\ Return(w, "message")
        /\ UNCHANGED <<droppedOverflow, received, readerVars,
                       closed, failed, notify, now, closer>>

\* The scan finds nothing live: all wanted queues are emptied, then the
\* error, then the closed flag, then the wait.
Miss(w) ==
    LET all == Before(w, Len(want[w]) + 1)
    IN  /\ waiter[w] = "scan"
        /\ \A u \in all : ~LiveIn(u)
        /\ queues' = [u \in Types |-> IF u \in all THEN <<>> ELSE queues[u]]
        /\ droppedExpired' = [u \in Types |->
              droppedExpired[u] + Skipped(u, all)]
        /\ IF failed \/ closed
           THEN Return(w, IF failed THEN "error" ELSE "closed")
           ELSE /\ waiter' = [waiter EXCEPT ![w] = "blocked"]
                /\ want' = want
        /\ UNCHANGED <<droppedOverflow, history, readerVars,
                       closed, failed, notify, now, closer>>

\* select: a token arrived, scan again.
Woken(w) ==
    /\ waiter[w] = "blocked"
    /\ notify
    /\ notify' = FALSE
    /\ waiter' = [waiter EXCEPT ![w] = "scan"]
    /\ UNCHANGED <<queueVars, history, readerVars, want,
                   closed, failed, now, closer>>

\* select: the caller's context ended (also when a token is there).
ContextDone(w) ==
    /\ waiter[w] = "blocked"
    /\ Return(w, "context")
    /\ UNCHANGED <<queueVars, history, readerVars,
                   closed, failed, notify, now, closer>>

-----------------------------------------------------------------------------
(* Close, and time *)

Close(c) ==
    /\ closer[c] = "idle"
    /\ closed' = TRUE
    /\ closer' = [closer EXCEPT ![c] = "wake"]
    /\ UNCHANGED <<queueVars, history, readerVars, waiterVars,
                   failed, notify, now>>

\* Mutant: Close leaves the waiters to notice by themselves.
MutCloseBroadcast(c) ==
    /\ closer[c] = "wake"
    /\ closer' = [closer EXCEPT ![c] = "done"]
    /\ UNCHANGED <<queueVars, history, readerVars, waiterVars,
                   closed, failed, notify, now>>

CloseBroadcast(c) ==
    /\ closer[c] = "wake"
    /\ notify' = TRUE
    /\ closer' = [closer EXCEPT ![c] = "done"]
    /\ UNCHANGED <<queueVars, history, readerVars, waiterVars,
                   closed, failed, now>>

Tick ==
    /\ now < MaxTime
    /\ now' = now + 1
    /\ UNCHANGED <<queueVars, history, readerVars, waiterVars,
                   closed, failed, notify, closer>>

-----------------------------------------------------------------------------
ReaderStep ==
    \/ CheckClosed
    \/ \E e \in inHand : \E k \in 0 .. Len(queues[e.type]) : Enqueue(e, k)
    \/ ReaderBroadcast

StreamStep ==
    \/ \E t \in Types, ttl \in WireTTLs : Receive(t, ttl)
    \/ ReceiveError

Scan(w) ==
    \/ \E i \in 1 .. Len(want[w]) :
          \E j \in 1 .. Len(queues[want[w][i]]) : Take(w, i, j)
    \/ Miss(w)

Next ==
    \/ Start
    \/ ReaderStep
    \/ StreamStep
    \/ \E w \in Waiters :
          \/ \E ts \in Requests : Call(w, ts)
          \/ Scan(w)
          \/ Woken(w)
          \/ ContextDone(w)
    \/ \E c \in Closers : Close(c) \/ CloseBroadcast(c)
    \/ Tick

\* Goroutines that can run are run: the reader between two receives, a
\* waiter outside its select or with a token, a closer once it is in Close.
\* Nothing says the peer sends, the stream fails, a context ends, a caller
\* calls, or Close is called.
Fairness ==
    /\ WF_vars(ReaderStep)
    /\ \A w \in Waiters : WF_vars(Scan(w)) /\ WF_vars(Woken(w))
    /\ \A c \in Closers : WF_vars(CloseBroadcast(c))

Spec     == Init /\ [][Next]_vars
FairSpec == Spec /\ Fairness

-----------------------------------------------------------------------------
(* Properties *)

QueueTypes ==
    /\ queues \in [Types -> Seq(Entries)]
    /\ droppedExpired \in [Types -> Nat]
    /\ droppedOverflow \in [Types -> Nat]
    /\ received \in [Types -> Nat]
    /\ delivered \in [Types -> Nat]
    /\ lastId \in [Types -> Nat]

ProcessTypes ==
    /\ now \in Nat /\ sent \in Nat
    /\ reader \in {"off", "check", "read", "file", "wake", "lastWake", "done"}
    /\ inHand \in SUBSET Entries
    /\ reader # "file" => inHand = {}
    /\ ~started => reader = "off"
    /\ waiter \in [Waiters -> {"idle", "scan", "blocked"} \cup Returned]
    /\ want \in [Waiters -> Seq(Types)]
    /\ closer \in [Closers -> {"idle", "wake", "done"}]

FlagTypes ==
    /\ closed \in BOOLEAN
    /\ failed \in BOOLEAN
    /\ started \in BOOLEAN
    /\ notify \in BOOLEAN

\* Type invariant: the shape of the dispatcher's fields, that there is no
\* reader before Start, and that the reader holds a message only between its
\* receive and its critical section.
TypeOK == QueueTypes /\ ProcessTypes /\ FlagTypes

\* A message is either still queued, or was returned by exactly one WaitFor,
\* or is counted by exactly one of the two drop metrics: nothing vanishes and
\* nothing is counted twice, whichever of the pruning paths meets it.
Accounted ==
    \A t \in Types :
        received[t] = delivered[t] + droppedExpired[t] + droppedOverflow[t]
                      + Len(queues[t])

\* No type ever holds more than the limit, however slow its consumer is.
QueueBounded == \A t \in Types : Len(queues[t]) <= PerTypeLimit

\* Messages of one type are returned in the order the peer sent them, with
\* gaps but never twice: whatever is queued or in the reader's hand is newer
\* than what was last returned, and queues are in sending order.
InOrder ==
    \A t \in Types :
        /\ \A i \in 1 .. Len(queues[t]) :
              lastId[t] < queues[t][i].id /\ queues[t][i].id <= sent
        /\ \A i, j \in 1 .. Len(queues[t]) :
              i < j => queues[t][i].id < queues[t][j].id

\* Entry i of the queue of type t is not in it after the step.
Leaves(t, i) == \A j \in 1 .. Len(queues'[t]) : queues'[t][j] # queues[t][i]

\* A live message leaves its queue only as the oldest live one there, and only
\* because a WaitFor returns it or because a message arrives behind as many as
\* the limit allows: neither pruning path, with its own clock, takes a message
\* that a WaitFor could still return, and expired ones ahead of it do not fill
\* its queue.
LiveKept ==
    [][\A t \in Types : \A i \in 1 .. Len(queues[t]) :
          ~Expired(queues[t][i]) /\ Leaves(t, i) =>
              /\ \A k \in 1 .. (i - 1) : Expired(queues[t][k])
              /\ \/ lastId'[t] = queues[t][i].id
                 \/ /\ received'[t] = received[t] + 1
                    /\ Len(queues[t]) - (i - 1) >= PerTypeLimit]_vars

\* Part of the inductive strengthening of InOrder: the reader's message is
\* newer than everything filed or returned.
HandNewer ==
    /\ \A t \in Types : lastId[t] <= sent
    /\ \A e \in inHand :
          /\ e.id <= sent
          /\ \A t \in Types :
                /\ lastId[t] < e.id
                /\ \A i \in 1 .. Len(queues[t]) : queues[t][i].id < e.id

\* What a waiter's scan would end with: a live wanted message, an error, or
\* the closed flag.
Ready(w) ==
    \/ closed \/ failed
    \/ \E i \in 1 .. Len(want[w]) : LiveIn(want[w][i])

\* Somebody is between unlocking d.mu and broadcast.
BroadcastPending ==
    \/ reader \in {"wake", "lastWake"}
    \/ \E c \in Closers : closer[c] = "wake"

\* No lost wake-up: a goroutine parked in WaitFor's select while its scan
\* would succeed has a token waiting for it, or one about to be sent, although
\* the slot drops every token beyond the first.  (One WaitFor at a time.)
NoLostWakeup ==
    \A w \in Waiters :
        waiter[w] = "blocked" /\ Ready(w) => notify \/ BroadcastPending

\* With one WaitFor at a time, as the program calls it: a goroutine that is in
\* WaitFor when the dispatcher is closed, or its stream fails, returns; and a
\* live wanted message gets a parked one to scan again.
WaitsEnd ==
    \A w \in Waiters :
        /\ (waiter[w] \in {"scan", "blocked"} /\ (closed \/ failed))
              ~> (waiter[w] \in Returned)
        /\ (waiter[w] = "blocked" /\ Ready(w)) ~> (waiter[w] # "blocked")

\* "Close() unblocks all waiting goroutines": however many goroutines are in
\* WaitFor when the dispatcher is closed, each of them returns.
CloseUnblocksAll ==
    \A w \in Waiters :
        (waiter[w] \in {"scan", "blocked"} /\ closed) ~> (waiter[w] \in Returned)

=============================================================================
