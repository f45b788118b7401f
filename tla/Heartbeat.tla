----------------------------- MODULE Heartbeat -----------------------------
(***************************************************************************)
(* The two monitors of one control stream: monitorControlStream of the     *)
(* server (ping every 10 s, two missed acks end the session) and of the    *)
(* client (25 s without a ping end the connection), each with the reader   *)
(* goroutine that feeds it through a channel of capacity one.              *)
(*                                                                         *)
(* Time passes in steps of one unit, and only when no goroutine can run:   *)
(* scheduling is fast against seconds.  Messages are delivered in order,   *)
(* within MaxDelay while the link is good and not at all while it stalls.  *)
(***************************************************************************)
EXTENDS Integers, Sequences

CONSTANTS
    PingEvery,    \* heartbeatTicker, 10 s in the code
    MaxMissed,    \* maxMissed, 2 in the code
    SilenceLimit, \* heartbeatTimer, 25 s in the code
    TTL,          \* ttl of ping and pong, 10 s in the code
    MaxDelay,     \* one-way delay of a good link
    MaxSkew,      \* the client's monitor starts at most this much later
    MaxStalls     \* model bound: how often the link stalls

ASSUME TimingAssumption ==
    /\ PingEvery \in Nat \ {0} /\ MaxMissed \in Nat \ {0}
    /\ SilenceLimit \in Nat \ {0}
    /\ TTL \in Nat /\ MaxDelay \in Nat /\ MaxSkew \in Nat
    /\ MaxStalls \in Nat

\* The link is fast enough for the limits the code sets.
ASSUME DelayAssumption ==
    /\ MaxSkew + 2 * MaxDelay < MaxMissed * PingEvery
    /\ PingEvery + MaxDelay < SilenceLimit

Sides == {"server", "client"}
Other(s) == IF s = "server" THEN "client" ELSE "server"

VARIABLES
    link,       \* "good" or "stalled"
    stalledFor, \* how long it has been stalled, at most Horizon
    stalls,     \* how often it has stalled
    net,        \* net[s]: messages on their way to s, with their age
    inbox,      \* inbox[s]: what the dispatcher of s holds, with its age
    broken,     \* broken[s]: the stream of s has ended (EOF or reset)
    rdr,        \* the reader goroutine of each monitor
    held,       \* the kind of message it holds; "fin" stands for an error
    chan,       \* msgCh, capacity one
    mon,        \* the monitor of each side: "off", "run", "done"
    gaveUp,     \* gaveUp[s]: it ended by its timeout
    tick,       \* time since the server's ticker last fired
    missed, waitingAck,
    silence     \* time since the client's timer was last reset

linkVars   == <<link, stalledFor, stalls>>
readerVars == <<inbox, rdr, held, chan>>
serverVars == <<tick, missed, waitingAck>>
vars == <<linkVars, net, broken, readerVars, mon, gaveUp, serverVars, silence>>

Kinds == {"ping", "pong", "shutdown", "fin"}
Messages == [kind : Kinds, age : Nat]
Msg(k) == [kind |-> k, age |-> 0]

\* How late each side may notice that the link is gone.
ServerLimit == (MaxMissed + 1) * PingEvery
ClientLimit == MaxSkew + SilenceLimit
Horizon == 1 + (IF ServerLimit < ClientLimit THEN ClientLimit ELSE ServerLimit)

Init ==
    /\ link = "good" /\ stalledFor = 0 /\ stalls = 0
    /\ net = [s \in Sides |-> <<>>]
    /\ inbox = [s \in Sides |-> <<>>]
    /\ broken = [s \in Sides |-> FALSE]
    /\ rdr = [s \in Sides |-> IF s = "server" THEN "wait" ELSE "off"]
    /\ held = [s \in Sides |-> "fin"]
    /\ chan = [s \in Sides |-> <<>>]
    /\ mon = [s \in Sides |-> IF s = "server" THEN "run" ELSE "off"]
    /\ gaveUp = [s \in Sides |-> FALSE]
    /\ tick = 0 /\ missed = 0 /\ waitingAck = FALSE
    /\ silence = 0

\* The client's monitor starts, its verification of the services done.
ClientBegins ==
    /\ mon["client"] = "off"
    /\ mon' = [mon EXCEPT !["client"] = "run"]
    /\ rdr' = [rdr EXCEPT !["client"] = "wait"]
    /\ silence' = 0
    /\ UNCHANGED <<linkVars, net, broken, inbox, held, chan, gaveUp, serverVars>>

-----------------------------------------------------------------------------
(* The link *)

\* The next message reaches its dispatcher, where its age starts again; an
\* ended stream is noticed.
Deliver(s) ==
    /\ link = "good"
    /\ net[s] # <<>>
    /\ net' = [net EXCEPT ![s] = Tail(@)]
    /\ IF Head(net[s]).kind = "fin"
       THEN broken' = [broken EXCEPT ![s] = TRUE] /\ inbox' = inbox
       ELSE /\ inbox' = [inbox EXCEPT ![s] = Append(@, Msg(Head(net[s]).kind))]
            /\ broken' = broken
    /\ UNCHANGED <<linkVars, rdr, held, chan, mon, gaveUp, serverVars, silence>>

Stall ==
    /\ link = "good"
    /\ stalls < MaxStalls
    /\ link' = "stalled" /\ stalls' = stalls + 1 /\ stalledFor' = 0
    /\ UNCHANGED <<net, broken, readerVars, mon, gaveUp, serverVars, silence>>

\* The link comes back; a stall takes time.
Resume ==
    /\ link = "stalled"
    /\ stalledFor > 0
    /\ link' = "good" /\ stalledFor' = 0
    /\ UNCHANGED <<stalls, net, broken, readerVars, mon, gaveUp, serverVars,
                   silence>>

-----------------------------------------------------------------------------
(* The reader goroutines; the 60 s timeout of WaitFor only loops *)

Expired(m) == m.age > TTL

\* WaitFor drops what has expired and returns the first live message, also
\* when the context is already cancelled.
ReaderTakes(s) ==
    /\ rdr[s] = "wait"
    /\ inbox[s] # <<>>
    /\ inbox' = [inbox EXCEPT ![s] = Tail(@)]
    /\ IF Expired(Head(inbox[s]))
       THEN UNCHANGED <<rdr, held>>
       ELSE /\ rdr' = [rdr EXCEPT ![s] = "hold"]
            /\ held' = [held EXCEPT ![s] = Head(inbox[s]).kind]
    /\ UNCHANGED <<linkVars, net, broken, chan, mon, gaveUp, serverVars, silence>>

\* Mutant: a cancelled context is taken for the timeout, and waited on.
MutReaderFails(s) ==
    /\ rdr[s] = "wait"
    /\ inbox[s] = <<>>
    /\ broken[s] /\ mon[s] # "done"
    /\ rdr' = [rdr EXCEPT ![s] = "hold"]
    /\ held' = [held EXCEPT ![s] = "fin"]
    /\ UNCHANGED <<linkVars, net, broken, inbox, chan, mon, gaveUp, serverVars,
                   silence>>

\* WaitFor fails: silently the end if readerCtx is cancelled, which the
\* monitor does on its way out, else an error for the monitor.
ReaderFails(s) ==
    /\ rdr[s] = "wait"
    /\ inbox[s] = <<>>
    /\ broken[s] \/ mon[s] = "done"
    /\ rdr' = [rdr EXCEPT ![s] = IF mon[s] = "done" THEN "done" ELSE "hold"]
    /\ held' = [held EXCEPT ![s] = "fin"]
    /\ UNCHANGED <<linkVars, net, broken, inbox, chan, mon, gaveUp, serverVars,
                   silence>>

\* Mutant: the channel is taken to have room.
MutReaderSends(s) ==
    /\ rdr[s] = "hold"
    /\ chan' = [chan EXCEPT ![s] = Append(@, held[s])]
    /\ rdr' = [rdr EXCEPT ![s] = IF held[s] = "fin" THEN "done" ELSE "wait"]
    /\ held' = [held EXCEPT ![s] = "fin"]
    /\ UNCHANGED <<linkVars, net, broken, inbox, mon, gaveUp, serverVars, silence>>

\* msgCh <- result: blocks while the channel is full.
ReaderSends(s) ==
    /\ rdr[s] = "hold"
    /\ chan[s] = <<>>
    /\ chan' = [chan EXCEPT ![s] = <<held[s]>>]
    /\ rdr' = [rdr EXCEPT ![s] = IF held[s] = "fin" THEN "done" ELSE "wait"]
    /\ held' = [held EXCEPT ![s] = "fin"]
    /\ UNCHANGED <<linkVars, net, broken, inbox, mon, gaveUp, serverVars, silence>>

-----------------------------------------------------------------------------
(* The monitors *)

\* net after s has sent messages of the kinds ks; an ended side reads nothing.
Sent(n, s, ks) ==
    [n EXCEPT ![Other(s)] =
        IF mon[Other(s)] = "done" THEN <<>>
        ELSE @ \o [i \in 1 .. Len(ks) |-> Msg(ks[i])]]

\* The monitor of s returns after sending ks: the reader's context is
\* cancelled and nothing more is read off the stream.
Returns(s, timeout, ks) ==
    /\ mon' = [mon EXCEPT ![s] = "done"]
    /\ gaveUp' = [gaveUp EXCEPT ![s] = timeout]
    /\ net' = [Sent(net, s, ks) EXCEPT ![s] = <<>>]

\* ... and the stream is closed, which the other side will notice.
Ends(s, timeout) == Returns(s, timeout, <<"fin">>)

\* Mutant: one missed ack ends the session.
MutTooMany(n) == n >= MaxMissed - 1

TooMany(n) == n >= MaxMissed

\* Mutant: a missed ack is forgotten when the next ping goes out.
MutMissedNow == IF waitingAck THEN 1 ELSE 0

MissedNow == IF waitingAck THEN missed + 1 ELSE missed

\* The ticker fires: count a missing ack, give up or ping again.
ServerTick ==
    /\ mon["server"] = "run"
    /\ tick >= PingEvery
    /\ tick' = 0
    /\ missed' = MissedNow
    /\ IF waitingAck /\ TooMany(MissedNow)
       THEN waitingAck' = FALSE /\ Ends("server", TRUE)
       ELSE \/ /\ net' = Sent(net, "server", <<"ping">>)
               /\ waitingAck' = TRUE
               /\ UNCHANGED <<mon, gaveUp>>
            \/ /\ broken["server"]   \* SendHeartbeat fails
               /\ waitingAck' = FALSE
               /\ Ends("server", FALSE)
    /\ UNCHANGED <<linkVars, broken, readerVars, silence>>

\* A pong answers whichever ping is outstanding.
Acked(m) == m = "pong" /\ waitingAck

ServerReceives ==
    /\ mon["server"] = "run"
    /\ chan["server"] # <<>>
    /\ chan' = [chan EXCEPT !["server"] = <<>>]
    /\ LET m == chan["server"][1]
       IN  /\ missed' = IF Acked(m) THEN 0 ELSE missed
           /\ waitingAck' = (waitingAck /\ ~Acked(m))
           /\ IF m = "pong"
              THEN UNCHANGED <<mon, gaveUp, net>>
              ELSE Ends("server", FALSE)
    /\ UNCHANGED <<linkVars, broken, inbox, rdr, held, tick, silence>>

ResetTo == 0

\* A ping resets the timer and is answered; a failed answer, like an error,
\* closes the stream; SERVER_SHUTDOWN ends the monitor and closes nothing.
ClientReceives ==
    /\ mon["client"] = "run"
    /\ chan["client"] # <<>>
    /\ chan' = [chan EXCEPT !["client"] = <<>>]
    /\ LET m == chan["client"][1]
       IN  IF m = "ping"
           THEN /\ silence' = ResetTo
                /\ \/ net' = Sent(net, "client", <<"pong">>) /\ UNCHANGED <<mon, gaveUp>>
                   \/ broken["client"] /\ Ends("client", FALSE)
           ELSE /\ silence' = silence
                /\ IF m = "fin"
                   THEN Ends("client", FALSE)
                   ELSE Returns("client", FALSE, <<>>)
    /\ UNCHANGED <<linkVars, broken, inbox, rdr, held, serverVars>>

Silent == silence >= SilenceLimit

ClientTimeout ==
    /\ mon["client"] = "run"
    /\ Silent
    /\ Ends("client", TRUE)
    /\ UNCHANGED <<linkVars, broken, readerVars, serverVars, silence>>

\* Stop of either side: the shutdown notification, then the cancelled context.
Shutdown(s) ==
    /\ mon[s] = "run"
    /\ Returns(s, FALSE, <<"shutdown", "fin">>)
    /\ UNCHANGED <<linkVars, broken, readerVars, serverVars, silence>>

-----------------------------------------------------------------------------
(* Time *)

\* A goroutine can run, or a message is overdue.
Urgent ==
    \/ \E s \in Sides :
          \/ rdr[s] = "wait" /\ (inbox[s] # <<>> \/ broken[s] \/ mon[s] = "done")
          \/ rdr[s] = "hold" /\ chan[s] = <<>>
          \/ mon[s] = "run" /\ chan[s] # <<>>
          \/ link = "good" /\ net[s] # <<>> /\ Head(net[s]).age >= MaxDelay
    \/ mon["server"] = "run" /\ tick >= PingEvery
    \/ mon["client"] = "run" /\ Silent
    \/ mon["client"] = "off" /\ silence >= MaxSkew

Older(q, limit) ==
    [i \in 1 .. Len(q) |-> [q[i] EXCEPT !.age = IF @ < limit THEN @ + 1 ELSE @]]

Pass ==
    /\ ~Urgent
    /\ net' = [s \in Sides |-> Older(net[s], MaxDelay)]
    /\ inbox' = [s \in Sides |-> Older(inbox[s], TTL + 1)]
    /\ tick' = IF mon["server"] = "run" THEN tick + 1 ELSE tick
    /\ silence' = IF mon["client"] # "done" THEN silence + 1 ELSE silence
    /\ stalledFor' = IF link = "stalled" /\ stalledFor < Horizon
                     THEN stalledFor + 1 ELSE stalledFor
    /\ UNCHANGED <<link, stalls, broken, rdr, held, chan, mon, gaveUp, missed,
                   waitingAck>>

Reader(s) == ReaderTakes(s) \/ ReaderFails(s) \/ ReaderSends(s)

Monitor == ServerTick \/ ServerReceives \/ ClientReceives \/ ClientTimeout

Next ==
    \/ \E s \in Sides : Deliver(s) \/ Reader(s) \/ Shutdown(s)
    \/ Monitor
    \/ ClientBegins
    \/ Stall \/ Resume
    \/ Pass

\* Goroutines run, time passes, and a good link delivers.  A link that has
\* stalled need not come back.
Fairness ==
    /\ \A s \in Sides : WF_vars(Reader(s)) /\ WF_vars(Deliver(s))
    /\ WF_vars(Monitor) /\ WF_vars(ClientBegins) /\ WF_vars(Pass)

Spec     == Init /\ [][Next]_vars
FairSpec == Spec /\ Fairness

-----------------------------------------------------------------------------
(* Properties *)

\* Type invariant.
TypeOK ==
    /\ link \in {"good", "stalled"} /\ stalls \in 0 .. MaxStalls
    /\ stalledFor \in 0 .. Horizon
    /\ net \in [Sides -> Seq(Messages)]
    /\ inbox \in [Sides -> Seq(Messages)]
    /\ broken \in [Sides -> BOOLEAN]
    /\ rdr \in [Sides -> {"off", "wait", "hold", "done"}]
    /\ held \in [Sides -> Kinds]
    /\ chan \in [Sides -> Seq(Kinds)]
    /\ \A s \in Sides : Len(chan[s]) <= 1
    /\ mon \in [Sides -> {"off", "run", "done"}]
    /\ gaveUp \in [Sides -> BOOLEAN]
    /\ tick \in 0 .. PingEvery
    /\ missed \in 0 .. MaxMissed /\ waitingAck \in BOOLEAN
    /\ silence \in Nat

\* On a link that never stalled no monitor gives its peer up, however the
\* delays fall: late pongs answer newer pings, and no ping comes later than
\* the client's limit.
HealthyKept == stalls = 0 => \A s \in Sides : ~gaveUp[s]

\* A link that is gone is noticed in time: the server within a ping and the
\* acks it may miss, the client within its limit.
DetectedInTime ==
    /\ mon["server"] = "run" => stalledFor <= ServerLimit
    /\ mon["client"] = "run" => stalledFor <= ClientLimit

\* Neither side is left alone with a session: when one monitor has ended, so
\* does the other, even if the link never comes back.
BothEnd ==
    \A s \in Sides : (mon[s] = "done") ~> (mon[Other(s)] = "done")

\* "parent cancelled, exit silently": the reader of a monitor that has ended
\* ends too, unless it already sits on a message behind a full channel.
ReaderEnds ==
    \A s \in Sides :
        (mon[s] = "done") ~>
            (rdr[s] = "done" \/ (rdr[s] = "hold" /\ chan[s] # <<>>))

=============================================================================
