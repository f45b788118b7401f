-------------------------- MODULE HeartbeatProofs --------------------------
(***************************************************************************)
(* Proofs about Heartbeat, for any intervals and limits: its types, that   *)
(* both monitors notice in time that the link is gone, and that neither    *)
(* gives up a session whose link never stalls.                             *)
(***************************************************************************)
EXTENDS Heartbeat, SequenceTheorems, TLAPS

-----------------------------------------------------------------------------
(* The inductive invariant *)

\* No goroutine of the side s can run before the link delivers.
Quiet(s) ==
    inbox[s] = <<>> /\ rdr[s] = "wait" /\ ~broken[s] /\ chan[s] = <<>>

\* A reader that has ended while its monitor runs has left an error for it.
Readers ==
    /\ mon["server"] # "off"
    /\ \A s \in Sides : mon[s] = "run" =>
          rdr[s] # "off" /\ (rdr[s] = "done" => chan[s] = <<"fin">>)

\* The server's clock: the acks it has missed and the time of its ticker
\* account for the whole stall, the ping it waits for included.
Waits == IF waitingAck THEN 1 ELSE 0

ServerClock ==
    mon["server"] = "run" =>
        /\ missed < MaxMissed
        /\ stalledFor > 0 =>
              Quiet("server") /\ stalledFor <= (missed + Waits) * PingEvery + tick

\* The client's: the stall is no longer than the time before its monitor
\* started and its timer together.
ClientClock ==
    /\ mon["client"] = "off" => stalledFor <= silence /\ silence <= MaxSkew
    /\ mon["client"] = "run" =>
          /\ silence <= SilenceLimit
          /\ stalledFor <= MaxSkew + silence
          /\ stalledFor > 0 /\ silence > 0 => Quiet("client")

StallClock == stalledFor > 0 => link = "stalled"

ClockInv == TypeOK /\ Readers /\ StallClock /\ ServerClock /\ ClientClock
-----------------------------------------------------------------------------
(* Types *)

LEMMA Limits ==
    /\ ServerLimit \in Nat /\ ClientLimit \in Nat /\ Horizon \in Nat
    /\ ServerLimit < Horizon /\ ClientLimit < Horizon
  <1>1. ServerLimit \in Nat /\ ClientLimit \in Nat
    BY TimingAssumption DEF ServerLimit, ClientLimit
  <1> QED BY <1>1 DEF Horizon

LEMMA MsgType == \A k \in Kinds : Msg(k) \in Messages
  BY DEF Msg, Messages

LEMMA OlderType ==
    ASSUME NEW q \in Seq(Messages), NEW limit \in Nat
    PROVE  Older(q, limit) \in Seq(Messages) /\ Len(Older(q, limit)) = Len(q)
  <1>1. \A i \in 1 .. Len(q) :
           [q[i] EXCEPT !.age = IF @ < limit THEN @ + 1 ELSE @] \in Messages
    <2> SUFFICES ASSUME NEW i \in 1 .. Len(q)
                 PROVE  [q[i] EXCEPT !.age = IF @ < limit THEN @ + 1 ELSE @] \in Messages
      OBVIOUS
    <2>1. q[i] \in Messages
      OBVIOUS
    <2> QED BY <2>1 DEF Messages
  <1>2. Len(q) \in Nat
    OBVIOUS
  <1> QED BY <1>1, <1>2 DEF Older

LEMMA SentType ==
    ASSUME TypeOK, NEW s \in Sides, NEW ks \in Seq(Kinds)
    PROVE  Sent(net, s, ks) \in [Sides -> Seq(Messages)]
  <1>1. [i \in 1 .. Len(ks) |-> Msg(ks[i])] \in Seq(Messages)
    <2>1. \A i \in 1 .. Len(ks) : Msg(ks[i]) \in Messages
      BY MsgType
    <2>2. Len(ks) \in Nat
      OBVIOUS
    <2> QED BY <2>1, <2>2
  <1>2. Other(s) \in Sides
    BY DEF Other, Sides
  <1>3. net[Other(s)] \in Seq(Messages)
    BY <1>2 DEF TypeOK
  <1>4. net[Other(s)] \o [i \in 1 .. Len(ks) |-> Msg(ks[i])] \in Seq(Messages)
    BY <1>1, <1>3
  <1> DEFINE t == net[Other(s)] \o [i \in 1 .. Len(ks) |-> Msg(ks[i])]
  <1>5. Sent(net, s, ks) = [net EXCEPT ![Other(s)] =
                              IF mon[Other(s)] = "done" THEN <<>> ELSE t]
    BY DEF Sent
  <1>6. (IF mon[Other(s)] = "done" THEN <<>> ELSE t) \in Seq(Messages)
    BY <1>4
  <1> HIDE DEF t
  <1> QED BY <1>2, <1>5, <1>6 DEF TypeOK

LEMMA ReturnsTypes ==
    ASSUME TypeOK, NEW s \in Sides, NEW timeout \in BOOLEAN, NEW ks \in Seq(Kinds),
           Returns(s, timeout, ks)
    PROVE  /\ mon' \in [Sides -> {"off", "run", "done"}] /\ gaveUp' \in [Sides -> BOOLEAN]
           /\ net' \in [Sides -> Seq(Messages)]
           /\ mon'[s] = "done" /\ \A o \in Sides \ {s} : mon'[o] = mon[o]
  <1>1. mon' = [mon EXCEPT ![s] = "done"]
    BY DEF Returns
  <1>2. /\ mon' \in [Sides -> {"off", "run", "done"}]
        /\ mon'[s] = "done" /\ \A o \in Sides \ {s} : mon'[o] = mon[o]
    BY <1>1 DEF TypeOK
  <1>3. gaveUp' \in [Sides -> BOOLEAN]
    <2>1. gaveUp' = [gaveUp EXCEPT ![s] = timeout] /\ gaveUp \in [Sides -> BOOLEAN]
      BY DEF Returns, TypeOK
    <2> QED BY <2>1, Zenon
  <1>4. net' \in [Sides -> Seq(Messages)]
    <2> DEFINE n == Sent(net, s, ks)
    <2>1. n \in [Sides -> Seq(Messages)]
      BY SentType
    <2>2. net' = [n EXCEPT ![s] = <<>>]
      BY DEF Returns
    <2> HIDE DEF n
    <2> QED BY <2>1, <2>2
  <1> QED BY <1>2, <1>3, <1>4

LEMMA KindSeqs ==
    /\ <<>> \in Seq(Kinds) /\ <<"fin">> \in Seq(Kinds) /\ <<"ping">> \in Seq(Kinds)
    /\ <<"pong">> \in Seq(Kinds) /\ <<"shutdown", "fin">> \in Seq(Kinds)
  BY DEF Kinds

LEMMA ClockTypeInit == Init => TypeOK
  <1> SUFFICES ASSUME Init PROVE TypeOK
    OBVIOUS
  <1>1. broken \in [Sides -> BOOLEAN] /\ gaveUp \in [Sides -> BOOLEAN] /\ waitingAck \in BOOLEAN
    BY Zenon DEF Init
  <1>2. /\ net \in [Sides -> Seq(Messages)] /\ inbox \in [Sides -> Seq(Messages)]
        /\ chan \in [Sides -> Seq(Kinds)] /\ \A s \in Sides : Len(chan[s]) <= 1
    BY DEF Init
  <1>3. /\ rdr \in [Sides -> {"off", "wait", "hold", "done"}] /\ held \in [Sides -> Kinds]
        /\ mon \in [Sides -> {"off", "run", "done"}]
    BY DEF Init, Kinds
  <1>4. /\ link \in {"good", "stalled"} /\ stalls \in 0 .. MaxStalls
        /\ stalledFor \in 0 .. Horizon /\ tick \in 0 .. PingEvery
        /\ missed \in 0 .. MaxMissed /\ silence \in Nat
    BY TimingAssumption, Limits DEF Init
  <1> QED BY <1>1, <1>2, <1>3, <1>4 DEF TypeOK

LEMMA ClockTypeStep == TypeOK /\ ServerClock /\ [Next]_vars => TypeOK'
  <1> SUFFICES ASSUME TypeOK, ServerClock, [Next]_vars PROVE TypeOK'
    OBVIOUS
  <1> USE TimingAssumption, Limits
  <1>0. "server" \in Sides /\ "client" \in Sides
    BY DEF Sides
  <1>1. ASSUME NEW s \in Sides, Deliver(s) PROVE TypeOK'
    <2>1. net[s] \in Seq(Messages) /\ net[s] # <<>>
      BY <1>1 DEF Deliver, TypeOK
    <2>2. Tail(net[s]) \in Seq(Messages) /\ Head(net[s]) \in Messages
      BY <2>1
    <2>3. Msg(Head(net[s]).kind) \in Messages
      BY <2>2, MsgType DEF Messages
    <2>4. net' \in [Sides -> Seq(Messages)]
      BY <1>1, <2>2 DEF Deliver, TypeOK
    <2>5. inbox' \in [Sides -> Seq(Messages)]
      <3>1. Append(inbox[s], Msg(Head(net[s]).kind)) \in Seq(Messages)
        BY <2>3 DEF TypeOK
      <3>2. \/ inbox' = inbox
            \/ inbox' = [inbox EXCEPT ![s] = Append(@, Msg(Head(net[s]).kind))]
        BY <1>1 DEF Deliver
      <3> QED BY <3>1, <3>2 DEF TypeOK
    <2>6. broken' = broken \/ broken' = [broken EXCEPT ![s] = TRUE]
      BY <1>1 DEF Deliver
    <2>7. broken' \in [Sides -> BOOLEAN]
      BY <2>6, Zenon DEF TypeOK
    <2> QED BY <1>1, <2>4, <2>5, <2>7 DEF Deliver, TypeOK, linkVars, serverVars
  <1>2. ASSUME NEW s \in Sides, ReaderTakes(s) PROVE TypeOK'
    <2>1. inbox[s] \in Seq(Messages) /\ inbox[s] # <<>>
      BY <1>2 DEF ReaderTakes, TypeOK
    <2>2. Tail(inbox[s]) \in Seq(Messages) /\ Head(inbox[s]) \in Messages
      BY <2>1
    <2>3. inbox' \in [Sides -> Seq(Messages)]
      BY <1>2, <2>2 DEF ReaderTakes, TypeOK
    <2>4. /\ held' \in [Sides -> Kinds]
          /\ rdr' \in [Sides -> {"off", "wait", "hold", "done"}]
      <3>1. Head(inbox[s]).kind \in Kinds
        BY <2>2 DEF Messages
      <3> QED BY <1>2, <3>1 DEF ReaderTakes, TypeOK
    <2> QED BY <1>2, <2>3, <2>4 DEF ReaderTakes, TypeOK, linkVars, serverVars
  <1>3. ASSUME NEW s \in Sides, ReaderFails(s) PROVE TypeOK'
    BY <1>3 DEF ReaderFails, TypeOK, linkVars, serverVars, Kinds
  <1>4. ASSUME NEW s \in Sides, ReaderSends(s) PROVE TypeOK'
    <2>1. held[s] \in Kinds
      BY DEF TypeOK
    <2>2. <<held[s]>> \in Seq(Kinds) /\ Len(<<held[s]>>) = 1
      BY <2>1
    <2>3. chan' \in [Sides -> Seq(Kinds)] /\ \A o \in Sides : Len(chan'[o]) <= 1
      BY <1>4, <2>2 DEF ReaderSends, TypeOK
    <2>4. /\ held' \in [Sides -> Kinds]
          /\ rdr' \in [Sides -> {"off", "wait", "hold", "done"}]
      BY <1>4 DEF ReaderSends, TypeOK, Kinds
    <2> QED BY <1>4, <2>3, <2>4 DEF ReaderSends, TypeOK, linkVars, serverVars
  <1>5. ASSUME NEW s \in Sides, Shutdown(s) PROVE TypeOK'
    <2>1. /\ mon' \in [Sides -> {"off", "run", "done"}] /\ gaveUp' \in [Sides -> BOOLEAN]
          /\ net' \in [Sides -> Seq(Messages)]
      BY <1>5, ReturnsTypes, KindSeqs DEF Shutdown
    <2> QED BY <1>5, <2>1 DEF Shutdown, TypeOK, linkVars, serverVars, readerVars
  <1>6. CASE ServerTick
    <2>1. MissedNow \in 0 .. MaxMissed
      BY <1>6 DEF ServerTick, ServerClock, MissedNow, TypeOK
    <2>2. CASE \E b \in BOOLEAN : Ends("server", b) /\ waitingAck' = FALSE
      <3>1. /\ mon' \in [Sides -> {"off", "run", "done"}] /\ gaveUp' \in [Sides -> BOOLEAN]
            /\ net' \in [Sides -> Seq(Messages)]
        BY <1>0, <2>2, ReturnsTypes, KindSeqs DEF Ends
      <3>2. waitingAck' \in BOOLEAN
        BY <2>2
      <3> QED BY <1>6, <2>1, <3>1, <3>2
              DEF ServerTick, TypeOK, linkVars, serverVars, readerVars
    <2>3. CASE /\ net' = Sent(net, "server", <<"ping">>) /\ waitingAck' = TRUE
               /\ UNCHANGED <<mon, gaveUp>>
      <3>1. net' \in [Sides -> Seq(Messages)]
        BY <1>0, <2>3, SentType, KindSeqs
      <3> QED BY <1>6, <2>1, <2>3, <3>1
              DEF ServerTick, TypeOK, linkVars, serverVars, readerVars
    <2> QED BY <1>6, <2>2, <2>3 DEF ServerTick
  <1>7. CASE ServerReceives
    <2>1. chan' \in [Sides -> Seq(Kinds)] /\ \A o \in Sides : Len(chan'[o]) <= 1
      <3>1. chan' = [chan EXCEPT !["server"] = <<>>] /\ <<>> \in Seq(Kinds) /\ Len(<<>>) = 0
        BY <1>7 DEF ServerReceives
      <3>2. chan' \in [Sides -> Seq(Kinds)]
        BY <3>1 DEF TypeOK
      <3>3. \A o \in Sides : chan'[o] = <<>> \/ chan'[o] = chan[o]
        BY <3>1 DEF TypeOK
      <3>4. \A o \in Sides : Len(chan'[o]) <= 1
        BY <3>1, <3>3 DEF TypeOK
      <3> QED BY <3>2, <3>4
    <2>2. /\ mon' \in [Sides -> {"off", "run", "done"}] /\ gaveUp' \in [Sides -> BOOLEAN]
          /\ net' \in [Sides -> Seq(Messages)]
      <3>1. CASE UNCHANGED <<mon, gaveUp, net>>
        BY <3>1 DEF TypeOK
      <3>2. CASE Ends("server", FALSE)
        BY <1>0, <3>2, ReturnsTypes, KindSeqs DEF Ends
      <3> QED BY <1>7, <3>1, <3>2 DEF ServerReceives
    <2>3. missed' \in 0 .. MaxMissed
      BY <1>7 DEF ServerReceives, TypeOK
    <2>4. waitingAck' \in BOOLEAN
      BY <1>7, Zenon DEF ServerReceives
    <2> QED BY <1>7, <2>1, <2>2, <2>3, <2>4 DEF ServerReceives, TypeOK, linkVars
  <1>8. CASE ClientReceives
    <2>1. chan' \in [Sides -> Seq(Kinds)] /\ \A o \in Sides : Len(chan'[o]) <= 1
      <3>1. chan' = [chan EXCEPT !["client"] = <<>>] /\ <<>> \in Seq(Kinds) /\ Len(<<>>) = 0
        BY <1>8 DEF ClientReceives
      <3>2. chan' \in [Sides -> Seq(Kinds)]
        BY <3>1 DEF TypeOK
      <3>3. \A o \in Sides : chan'[o] = <<>> \/ chan'[o] = chan[o]
        BY <3>1 DEF TypeOK
      <3>4. \A o \in Sides : Len(chan'[o]) <= 1
        BY <3>1, <3>3 DEF TypeOK
      <3> QED BY <3>2, <3>4
    <2>2. /\ mon' \in [Sides -> {"off", "run", "done"}] /\ gaveUp' \in [Sides -> BOOLEAN]
          /\ net' \in [Sides -> Seq(Messages)]
      <3>1. CASE net' = Sent(net, "client", <<"pong">>) /\ UNCHANGED <<mon, gaveUp>>
        <4>1. net' \in [Sides -> Seq(Messages)]
          BY <1>0, <3>1, SentType, KindSeqs
        <4> QED BY <3>1, <4>1 DEF TypeOK
      <3>2. CASE Ends("client", FALSE) \/ Returns("client", FALSE, <<>>)
        BY <1>0, <3>2, ReturnsTypes, KindSeqs DEF Ends
      <3> QED BY <1>8, <3>1, <3>2 DEF ClientReceives
    <2>3. silence' \in Nat
      <3>1. silence' = 0 \/ silence' = silence
        BY <1>8 DEF ClientReceives, ResetTo
      <3> QED BY <3>1 DEF TypeOK
    <2> QED BY <1>8, <2>1, <2>2, <2>3 DEF ClientReceives, TypeOK, linkVars, serverVars
  <1>9. CASE ClientTimeout
    <2>1. /\ mon' \in [Sides -> {"off", "run", "done"}] /\ gaveUp' \in [Sides -> BOOLEAN]
          /\ net' \in [Sides -> Seq(Messages)]
      BY <1>0, <1>9, ReturnsTypes, KindSeqs DEF ClientTimeout, Ends
    <2> QED BY <1>9, <2>1 DEF ClientTimeout, TypeOK, linkVars, serverVars, readerVars
  <1>10. CASE ClientBegins
    BY <1>10 DEF ClientBegins, TypeOK, linkVars, serverVars
  <1>11. CASE Stall
    BY <1>11 DEF Stall, TypeOK, serverVars, readerVars
  <1>12. CASE Resume
    BY <1>12 DEF Resume, TypeOK, serverVars, readerVars
  <1>13. CASE Pass
    <2>1. net' \in [Sides -> Seq(Messages)] /\ inbox' \in [Sides -> Seq(Messages)]
      <3>1. \A s \in Sides : Older(net[s], MaxDelay) \in Seq(Messages)
        BY OlderType DEF TypeOK
      <3>2. \A s \in Sides : Older(inbox[s], TTL + 1) \in Seq(Messages)
        BY OlderType DEF TypeOK
      <3> QED BY <1>13, <3>1, <3>2 DEF Pass
    <2>2. tick' \in 0 .. PingEvery /\ silence' \in Nat /\ stalledFor' \in 0 .. Horizon
      BY <1>13 DEF Pass, Urgent, TypeOK
    <2> QED BY <1>13, <2>1, <2>2 DEF Pass, TypeOK
  <1>14. CASE UNCHANGED vars
    BY <1>14 DEF vars, TypeOK, linkVars, serverVars, readerVars
  <1> QED BY <1>1, <1>2, <1>3, <1>4, <1>5, <1>6, <1>7, <1>8, <1>9, <1>10, <1>11,
             <1>12, <1>13, <1>14 DEF Next, Reader, Monitor
-----------------------------------------------------------------------------
(* The clocks *)

LEMMA SidesAre == Sides = {"server", "client"} /\ "server" # "client"
  BY DEF Sides

\* A monitor that returns is done; the other one is not concerned.
LEMMA EndsEffect ==
    ASSUME TypeOK, NEW s \in Sides, NEW timeout, NEW ks, Returns(s, timeout, ks)
    PROVE  mon'[s] = "done" /\ \A o \in Sides \ {s} : mon'[o] = mon[o]
  BY DEF Returns, TypeOK

\* What the steps leave of the quiet of a side.
LEMMA QuietKept ==
    ASSUME TypeOK, NEW s \in Sides, NEW o \in Sides \ {s}, Quiet(s),
           \/ Deliver(o) \/ Reader(o) \/ Shutdown(o) \/ Shutdown(s)
           \/ ServerTick \/ ClientTimeout
           \/ s = "client" /\ ServerReceives
           \/ s = "server" /\ (ClientReceives \/ ClientBegins)
           \/ Stall \/ Resume \/ Pass
    PROVE  Quiet(s)'
  <1>1. CASE Deliver(o)
    <2>1. inbox'[s] = inbox[s] /\ broken'[s] = broken[s] /\ UNCHANGED <<rdr, chan>>
      BY <1>1 DEF Deliver, TypeOK
    <2> QED BY <2>1 DEF Quiet
  <1>2. CASE Reader(o)
    <2>1. inbox'[s] = inbox[s] /\ rdr'[s] = rdr[s] /\ chan'[s] = chan[s] /\ broken' = broken
      BY <1>2 DEF Reader, ReaderTakes, ReaderFails, ReaderSends, TypeOK
    <2> QED BY <2>1 DEF Quiet
  <1>3. CASE Shutdown(o) \/ Shutdown(s) \/ ServerTick \/ ClientTimeout \/ Stall \/ Resume
    <2>1. UNCHANGED <<inbox, rdr, chan, broken>>
      BY <1>3 DEF Shutdown, ServerTick, ClientTimeout, Stall, Resume, readerVars
    <2> QED BY <2>1 DEF Quiet
  <1>4. CASE s = "client" /\ ServerReceives
    <2>1. chan'[s] = chan[s] /\ UNCHANGED <<inbox, rdr, broken>>
      BY <1>4 DEF ServerReceives, TypeOK
    <2> QED BY <2>1 DEF Quiet
  <1>5. CASE s = "server" /\ ClientReceives
    <2>1. chan'[s] = chan[s] /\ UNCHANGED <<inbox, rdr, broken>>
      BY <1>5 DEF ClientReceives, TypeOK
    <2> QED BY <2>1 DEF Quiet
  <1>6. CASE s = "server" /\ ClientBegins
    <2>1. rdr'[s] = rdr[s] /\ UNCHANGED <<inbox, chan, broken>>
      BY <1>6 DEF ClientBegins, TypeOK
    <2> QED BY <2>1 DEF Quiet
  <1>7. CASE Pass
    <2>1. inbox'[s] = Older(inbox[s], TTL + 1) /\ UNCHANGED <<rdr, chan, broken>>
      BY <1>7 DEF Pass
    <2>2. Older(<<>>, TTL + 1) = <<>>
      BY DEF Older
    <2> QED BY <2>1, <2>2 DEF Quiet
  <1> QED BY <1>1, <1>2, <1>3, <1>4, <1>5, <1>6, <1>7

\* Time passes only over a side whose monitor runs when the side is quiet.
LEMMA PassQuiet ==
    ASSUME TypeOK, Readers, NEW s \in Sides, mon[s] = "run", ~Urgent
    PROVE  Quiet(s)
  <1>1. chan[s] = <<>> /\ rdr[s] # "hold"
    BY DEF Urgent
  <1>2. <<"fin">> # <<>>
    OBVIOUS
  <1>3. rdr[s] # "off" /\ rdr[s] # "done"
    BY <1>1, <1>2 DEF Readers
  <1>4. rdr[s] = "wait"
    BY <1>1, <1>3 DEF TypeOK
  <1> QED BY <1>1, <1>4 DEF Urgent, Quiet

LEMMA ReadersInit == Init => Readers
  BY SidesAre DEF Init, Readers

LEMMA ReadersStep == TypeOK /\ Readers /\ [Next]_vars => Readers'
  <1> SUFFICES ASSUME TypeOK, Readers, [Next]_vars PROVE Readers'
    OBVIOUS
  <1> USE SidesAre
  <1>a. ASSUME NEW s \in Sides, NEW b, NEW ks, Returns(s, b, ks), rdr' = rdr,
               \A o \in Sides \ {s} : chan'[o] = chan[o]
        PROVE  Readers'
    BY <1>a, EndsEffect DEF Readers
  <1>1. ASSUME NEW s \in Sides, Deliver(s) PROVE Readers'
    BY <1>1 DEF Deliver, Readers
  <1>2. ASSUME NEW s \in Sides, ReaderTakes(s) PROVE Readers'
    <2>1. /\ rdr'[s] \in {"hold", "wait"} /\ UNCHANGED <<mon, chan>>
          /\ \A o \in Sides \ {s} : rdr'[o] = rdr[o]
      BY <1>2 DEF ReaderTakes, TypeOK
    <2> QED BY <2>1 DEF Readers
  <1>3. ASSUME NEW s \in Sides, ReaderFails(s) PROVE Readers'
    <2>1. /\ rdr'[s] \in {"hold", "done"} /\ UNCHANGED <<mon, chan>>
          /\ rdr'[s] = "done" => mon[s] = "done"
          /\ \A o \in Sides \ {s} : rdr'[o] = rdr[o]
      BY <1>3 DEF ReaderFails, TypeOK
    <2> QED BY <2>1 DEF Readers
  <1>4. ASSUME NEW s \in Sides, ReaderSends(s) PROVE Readers'
    <2>1. /\ rdr'[s] \in {"wait", "done"} /\ mon' = mon
          /\ rdr'[s] = "done" => chan'[s] = <<"fin">>
          /\ \A o \in Sides \ {s} : rdr'[o] = rdr[o] /\ chan'[o] = chan[o]
      BY <1>4 DEF ReaderSends, TypeOK
    <2> QED BY <2>1 DEF Readers
  <1>5. ASSUME NEW s \in Sides, Shutdown(s) PROVE Readers'
    BY <1>5, <1>a DEF Shutdown, readerVars
  <1>6. CASE ServerTick
    <2>1. CASE mon' = mon
      BY <1>6, <2>1 DEF ServerTick, Readers, readerVars
    <2>2. CASE \E b \in BOOLEAN : Ends("server", b)
      BY <1>6, <2>2, <1>a DEF ServerTick, Ends, readerVars
    <2> QED BY <1>6, <2>1, <2>2 DEF ServerTick
  <1>7. CASE ServerReceives
    <2>0. rdr' = rdr /\ \A o \in Sides \ {"server"} : chan'[o] = chan[o]
      BY <1>7 DEF ServerReceives, TypeOK
    <2>1. CASE chan["server"][1] = "pong"
      <3>1. rdr["server"] # "done" /\ mon' = mon
        BY <1>7, <2>1 DEF ServerReceives, Readers
      <3> QED BY <2>0, <3>1 DEF Readers
    <2>2. CASE Ends("server", FALSE)
      BY <2>0, <2>2, <1>a DEF Ends
    <2> QED BY <1>7, <2>1, <2>2 DEF ServerReceives
  <1>8. CASE ClientReceives
    <2>0. rdr' = rdr /\ \A o \in Sides \ {"client"} : chan'[o] = chan[o]
      BY <1>8 DEF ClientReceives, TypeOK
    <2>1. CASE chan["client"][1] = "ping" /\ mon' = mon
      <3>1. rdr["client"] # "done"
        BY <1>8, <2>1 DEF ClientReceives, Readers
      <3> QED BY <2>0, <2>1, <3>1 DEF Readers
    <2>2. CASE Ends("client", FALSE) \/ Returns("client", FALSE, <<>>)
      BY <2>0, <2>2, <1>a DEF Ends
    <2> QED BY <1>8, <2>1, <2>2 DEF ClientReceives
  <1>9. CASE ClientTimeout
    BY <1>9, <1>a DEF ClientTimeout, Ends, readerVars
  <1>10. CASE ClientBegins
    <2>1. /\ mon'["client"] = "run" /\ rdr'["client"] = "wait"
          /\ mon'["server"] = mon["server"] /\ rdr'["server"] = rdr["server"]
          /\ chan' = chan
      BY <1>10 DEF ClientBegins, TypeOK
    <2> QED BY <2>1 DEF Readers
  <1>11. CASE Stall \/ Resume \/ Pass
    BY <1>11 DEF Stall, Resume, Pass, Readers, readerVars
  <1>12. CASE UNCHANGED vars
    BY <1>12 DEF vars, Readers, readerVars
  <1> QED BY <1>1, <1>2, <1>3, <1>4, <1>5, <1>6, <1>7, <1>8, <1>9, <1>10, <1>11,
             <1>12 DEF Next, Reader, Monitor

LEMMA StallStep == StallClock /\ TypeOK /\ [Next]_vars => StallClock'
  <1> SUFFICES ASSUME StallClock, TypeOK, [Next]_vars PROVE StallClock'
    OBVIOUS
  <1>1. CASE UNCHANGED linkVars
    BY <1>1 DEF StallClock, linkVars
  <1>2. CASE Stall \/ Resume
    BY <1>2 DEF Stall, Resume, StallClock
  <1>3. CASE Pass
    BY <1>3 DEF Pass, StallClock
  <1>4. ASSUME NEW s \in Sides, Deliver(s) \/ Shutdown(s) PROVE UNCHANGED linkVars
    BY <1>4 DEF Deliver, Shutdown
  <1>5. ASSUME NEW s \in Sides, Reader(s) PROVE UNCHANGED linkVars
    BY <1>5 DEF Reader, ReaderTakes, ReaderFails, ReaderSends
  <1>6. CASE ClientBegins \/ Monitor
    BY <1>6, <1>1 DEF ClientBegins, Monitor, ServerTick, ServerReceives, ClientReceives,
                      ClientTimeout
  <1>7. CASE UNCHANGED vars
    BY <1>7, <1>1 DEF vars
  <1> QED BY <1>1, <1>2, <1>3, <1>4, <1>5, <1>6, <1>7 DEF Next

LEMMA ServerClockStep ==
    TypeOK /\ Readers /\ StallClock /\ ServerClock /\ [Next]_vars => ServerClock'
  <1> SUFFICES ASSUME TypeOK, Readers, StallClock, ServerClock, [Next]_vars
               PROVE  ServerClock'
    OBVIOUS
  <1> USE SidesAre
  <1>t. /\ stalledFor \in Nat /\ tick \in Nat /\ missed \in Nat /\ PingEvery \in Nat
        /\ PingEvery # 0 /\ tick <= PingEvery /\ MaxMissed \in Nat /\ MaxMissed # 0
        /\ Waits \in {0, 1}
    BY TimingAssumption, Limits DEF TypeOK, Waits
  <1>a. ASSUME UNCHANGED <<stalledFor, tick, missed, waitingAck>>,
               mon'["server"] = "run" => mon["server"] = "run",
               mon["server"] = "run" /\ stalledFor > 0 => Quiet("server")'
        PROVE  ServerClock'
    BY <1>a DEF ServerClock, Waits
  <1>1. ASSUME NEW s \in Sides, Deliver(s) PROVE ServerClock'
    <2>1. ~(stalledFor > 0)
      BY <1>1 DEF Deliver, StallClock
    <2> QED BY <1>1, <2>1, <1>a DEF Deliver, linkVars, serverVars
  <1>2. ASSUME NEW s \in Sides, Reader(s) PROVE ServerClock'
    <2>1. UNCHANGED <<stalledFor, tick, missed, waitingAck, mon>>
      BY <1>2 DEF Reader, ReaderTakes, ReaderFails, ReaderSends, linkVars, serverVars
    <2>2. CASE s = "client"
      BY <1>2, <2>1, <2>2, <1>a, QuietKept DEF ServerClock
    <2>3. CASE s = "server" /\ mon["server"] = "run"
      <3>1. ~Quiet("server")
        BY <1>2, <2>3 DEF Reader, ReaderTakes, ReaderFails, ReaderSends, Quiet
      <3> QED BY <2>1, <3>1, <1>a DEF ServerClock
    <2>4. CASE mon["server"] # "run"
      BY <2>1, <2>4 DEF ServerClock
    <2> QED BY <2>2, <2>3, <2>4
  <1>3. ASSUME NEW s \in Sides, Shutdown(s) PROVE ServerClock'
    <2>1. UNCHANGED <<stalledFor, tick, missed, waitingAck>>
      BY <1>3 DEF Shutdown, linkVars, serverVars
    <2>2. mon'["server"] = "run" => mon["server"] = "run"
      BY <1>3, EndsEffect DEF Shutdown
    <2>3. Quiet("server") => Quiet("server")'
      BY <1>3, QuietKept
    <2> QED BY <2>1, <2>2, <2>3, <1>a DEF ServerClock
  <1>4. CASE ServerTick
    <2>1. CASE \E b \in BOOLEAN : Ends("server", b)
      <3>1. mon'["server"] = "done"
        BY <2>1, EndsEffect DEF Ends
      <3> QED BY <3>1 DEF ServerClock
    <2>2. CASE /\ ~(waitingAck /\ TooMany(MissedNow)) /\ waitingAck' = TRUE /\ mon' = mon
      <3>1. /\ mon["server"] = "run" /\ tick = PingEvery /\ tick' = 0
            /\ missed' = MissedNow /\ stalledFor' = stalledFor
        BY <1>4, <1>t DEF ServerTick, linkVars
      <3>2. missed' < MaxMissed
        BY <2>2, <3>1, <1>t DEF ServerClock, TooMany, MissedNow
      <3>3. missed' + Waits' = (missed + Waits) + 1 /\ (missed + Waits) \in Nat
        BY <2>2, <3>1, <1>t DEF MissedNow, Waits
      <3>4. \A n \in Nat : (n + 1) * PingEvery = n * PingEvery + PingEvery
        BY <1>t
      <3>5. (missed' + Waits') * PingEvery = (missed + Waits) * PingEvery + PingEvery
        BY <3>3, <3>4
      <3>6. (missed' + Waits') * PingEvery \in Nat /\ (missed + Waits) * PingEvery \in Nat
        BY <3>3, <1>t
      <3>7. Quiet("server") => Quiet("server")'
        BY <1>4, QuietKept
      <3>8. ASSUME stalledFor > 0 PROVE stalledFor <= (missed' + Waits') * PingEvery + tick'
        <4>1. stalledFor <= (missed + Waits) * PingEvery + tick
          BY <3>1, <3>8 DEF ServerClock
        <4> QED BY <3>1, <3>5, <3>6, <4>1, <1>t
      <3> QED BY <3>1, <3>2, <3>7, <3>8 DEF ServerClock
    <2> QED BY <1>4, <2>1, <2>2 DEF ServerTick
  <1>5. CASE ServerReceives
    <2>1. mon["server"] = "run" /\ ~Quiet("server") /\ stalledFor' = stalledFor
      BY <1>5 DEF ServerReceives, Quiet, linkVars
    <2>2. ~(stalledFor > 0) /\ missed < MaxMissed
      BY <2>1 DEF ServerClock
    <2>3. missed' < MaxMissed
      BY <1>5, <2>2, <1>t DEF ServerReceives
    <2> QED BY <2>1, <2>2, <2>3 DEF ServerClock
  <1>6. CASE ClientReceives \/ ClientTimeout \/ ClientBegins
    <2>1. UNCHANGED <<stalledFor, tick, missed, waitingAck>>
      BY <1>6 DEF ClientReceives, ClientTimeout, ClientBegins, linkVars, serverVars
    <2>2. mon'["server"] = mon["server"]
      <3>1. CASE mon' = mon \/ mon' = [mon EXCEPT !["client"] = "run"]
        BY <3>1 DEF TypeOK
      <3>2. CASE \E b, ks : Returns("client", b, ks)
        BY <3>2, EndsEffect
      <3> QED BY <1>6, <3>1, <3>2
              DEF ClientReceives, ClientTimeout, ClientBegins, Ends
    <2>3. Quiet("server") => Quiet("server")'
      BY <1>6, QuietKept
    <2> QED BY <2>1, <2>2, <2>3, <1>a DEF ServerClock
  <1>7. CASE Stall \/ Resume
    <2>1. stalledFor' = 0 /\ UNCHANGED <<missed, mon>>
      BY <1>7 DEF Stall, Resume, serverVars
    <2> QED BY <2>1 DEF ServerClock
  <1>8. CASE Pass
    <2>1. CASE mon["server"] # "run"
      BY <1>8, <2>1 DEF Pass, ServerClock
    <2>2. CASE mon["server"] = "run"
      <3>1. Quiet("server")
        BY <1>8, <2>2, PassQuiet DEF Pass
      <3>2. Quiet("server")'
        BY <1>8, <3>1, QuietKept
      <3>3. /\ tick' = tick + 1 /\ UNCHANGED <<missed, waitingAck, mon>>
            /\ stalledFor' \in {stalledFor, stalledFor + 1}
        BY <1>8, <2>2 DEF Pass
      <3>4. (missed + Waits) * PingEvery \in Nat
        BY <1>t
      <3>5. stalledFor <= (missed + Waits) * PingEvery + tick
        BY <2>2, <3>4, <1>t DEF ServerClock
      <3>6. stalledFor' <= (missed + Waits) * PingEvery + tick'
        BY <3>3, <3>4, <3>5, <1>t
      <3> QED BY <2>2, <3>2, <3>3, <3>6 DEF ServerClock, Waits
    <2> QED BY <2>1, <2>2
  <1>9. CASE UNCHANGED vars
    BY <1>9, <1>a DEF vars, linkVars, serverVars, readerVars, ServerClock, Quiet
  <1> QED BY <1>1, <1>2, <1>3, <1>4, <1>5, <1>6, <1>7, <1>8, <1>9
          DEF Next, Monitor

LEMMA ClientClockStep ==
    TypeOK /\ Readers /\ StallClock /\ ClientClock /\ [Next]_vars => ClientClock'
  <1> SUFFICES ASSUME TypeOK, Readers, StallClock, ClientClock, [Next]_vars
               PROVE  ClientClock'
    OBVIOUS
  <1> USE SidesAre
  <1>t. /\ stalledFor \in Nat /\ silence \in Nat /\ MaxSkew \in Nat /\ SilenceLimit \in Nat
    BY TimingAssumption, Limits DEF TypeOK
  <1>a. ASSUME UNCHANGED <<stalledFor, silence>>,
               mon'["client"] \in {mon["client"], "done"},
               mon["client"] = "run" /\ stalledFor > 0 /\ silence > 0 => Quiet("client")'
        PROVE  ClientClock'
    BY <1>a DEF ClientClock
  <1>1. ASSUME NEW s \in Sides, Deliver(s) PROVE ClientClock'
    <2>1. ~(stalledFor > 0)
      BY <1>1 DEF Deliver, StallClock
    <2> QED BY <1>1, <2>1, <1>a DEF Deliver, linkVars
  <1>2. ASSUME NEW s \in Sides, Reader(s) PROVE ClientClock'
    <2>1. UNCHANGED <<stalledFor, silence, mon>>
      BY <1>2 DEF Reader, ReaderTakes, ReaderFails, ReaderSends, linkVars
    <2>2. CASE s = "server"
      BY <1>2, <2>1, <2>2, <1>a, QuietKept DEF ClientClock
    <2>3. CASE s = "client" /\ mon["client"] = "run"
      <3>1. ~Quiet("client")
        BY <1>2, <2>3 DEF Reader, ReaderTakes, ReaderFails, ReaderSends, Quiet
      <3> QED BY <2>1, <3>1, <1>a DEF ClientClock
    <2>4. CASE mon["client"] # "run"
      BY <2>1, <2>4, <1>a
    <2> QED BY <2>2, <2>3, <2>4
  <1>3. ASSUME NEW s \in Sides, Shutdown(s) PROVE ClientClock'
    <2>1. UNCHANGED <<stalledFor, silence>>
      BY <1>3 DEF Shutdown, linkVars
    <2>2. mon'["client"] \in {mon["client"], "done"}
      BY <1>3, EndsEffect DEF Shutdown
    <2>3. Quiet("client") => Quiet("client")'
      BY <1>3, QuietKept
    <2> QED BY <2>1, <2>2, <2>3, <1>a DEF ClientClock
  <1>4. CASE ServerTick \/ ServerReceives \/ ClientTimeout
    <2>1. UNCHANGED <<stalledFor, silence>>
      BY <1>4 DEF ServerTick, ServerReceives, ClientTimeout, linkVars
    <2>2. mon'["client"] \in {mon["client"], "done"}
      <3>1. CASE mon' = mon
        BY <3>1
      <3>2. CASE \E s \in Sides : \E b, ks : Returns(s, b, ks)
        BY <3>2, EndsEffect
      <3> QED BY <1>4, <3>1, <3>2 DEF ServerTick, ServerReceives, ClientTimeout, Ends
    <2>3. Quiet("client") => Quiet("client")'
      BY <1>4, QuietKept
    <2> QED BY <2>1, <2>2, <2>3, <1>a DEF ClientClock
  <1>5. CASE ClientReceives
    <2>1. /\ mon["client"] = "run" /\ ~Quiet("client") /\ stalledFor' = stalledFor
          /\ silence' \in {0, silence}
      BY <1>5 DEF ClientReceives, Quiet, linkVars, ResetTo
    <2>2. ~(stalledFor > 0) \/ ~(silence > 0)
      BY <2>1 DEF ClientClock
    <2>3. stalledFor = 0 \/ silence' = silence
      BY <2>1, <2>2, <1>t
    <2>4. mon'["client"] \in {mon["client"], "done"}
      <3>1. CASE mon' = mon
        BY <3>1
      <3>2. CASE \E b, ks : Returns("client", b, ks)
        BY <3>2, EndsEffect
      <3> QED BY <1>5, <3>1, <3>2 DEF ClientReceives, Ends
    <2>5. /\ silence' <= SilenceLimit /\ stalledFor' <= MaxSkew + silence'
          /\ ~(stalledFor' > 0 /\ silence' > 0)
      <3>1. silence <= SilenceLimit /\ stalledFor <= MaxSkew + silence
        BY <2>1 DEF ClientClock
      <3>2. CASE silence' = silence
        BY <2>1, <2>2, <3>1, <3>2, <1>t
      <3>3. CASE silence' = 0 /\ stalledFor = 0
        <4>1. 0 <= SilenceLimit /\ 0 <= MaxSkew + 0
          BY <1>t
        <4> QED BY <2>1, <3>3, <4>1
      <3> QED BY <2>1, <2>3, <3>2, <3>3
    <2>6. mon'["client"] # "off"
      BY <2>1, <2>4
    <2> QED BY <2>5, <2>6 DEF ClientClock
  <1>6. CASE ClientBegins
    <2>1. /\ mon["client"] = "off" /\ mon'["client"] = "run"
          /\ silence' = 0 /\ stalledFor' = stalledFor
      BY <1>6 DEF ClientBegins, TypeOK, linkVars
    <2> QED BY <2>1, <1>t DEF ClientClock
  <1>7. CASE Stall \/ Resume
    <2>1. stalledFor' = 0 /\ UNCHANGED <<silence, mon>>
      BY <1>7 DEF Stall, Resume
    <2> QED BY <2>1, <1>t DEF ClientClock
  <1>8. CASE Pass
    <2>1. mon' = mon /\ stalledFor' \in {stalledFor, stalledFor + 1}
      BY <1>8 DEF Pass
    <2>2. CASE mon["client"] = "off"
      <3>1. silence' = silence + 1 /\ silence < MaxSkew
        BY <1>8, <2>2, <1>t DEF Pass, Urgent
      <3> QED BY <2>1, <2>2, <3>1, <1>t DEF ClientClock
    <2>3. CASE mon["client"] = "run"
      <3>1. silence' = silence + 1 /\ silence < SilenceLimit
        BY <1>8, <2>3, <1>t DEF Pass, Urgent, Silent
      <3>2. Quiet("client")'
        BY <1>8, <2>3, PassQuiet, QuietKept DEF Pass
      <3> QED BY <2>1, <2>3, <3>1, <3>2, <1>t DEF ClientClock
    <2>4. CASE mon["client"] = "done"
      BY <2>1, <2>4 DEF ClientClock
    <2> QED BY <2>2, <2>3, <2>4 DEF TypeOK
  <1>9. CASE UNCHANGED vars
    BY <1>9, <1>a DEF vars, linkVars, readerVars, ClientClock, Quiet
  <1> QED BY <1>1, <1>2, <1>3, <1>4, <1>5, <1>6, <1>7, <1>8, <1>9
          DEF Next, Monitor

-----------------------------------------------------------------------------
(* Theorems *)

\* The invariant the timing rests on: the counters of the server's monitor
\* and the timer of the client's account for the time the link has been gone.
THEOREM ClockInvariant == Spec => []ClockInv
  <1>1. Init => ClockInv
    <2> SUFFICES ASSUME Init PROVE ClockInv
      OBVIOUS
    <2>1. StallClock /\ ServerClock
      BY TimingAssumption DEF Init, StallClock, ServerClock
    <2>2. ClientClock
      BY TimingAssumption, SidesAre DEF Init, ClientClock
    <2> QED BY <2>1, <2>2, ClockTypeInit, ReadersInit DEF ClockInv
  <1>2. ClockInv /\ [Next]_vars => ClockInv'
    BY ClockTypeStep, ReadersStep, StallStep, ServerClockStep, ClientClockStep
       DEF ClockInv
  <1> QED BY <1>1, <1>2, PTL DEF Spec

\* The types of both monitors' state are kept: the channel between reader and
\* monitor holds at most one message, and the server never counts past
\* maxMissed.
THEOREM HeartbeatTypeCorrect == Spec => []TypeOK
  <1>1. ClockInv => TypeOK
    BY DEF ClockInv
  <1> QED BY <1>1, ClockInvariant, PTL

\* A link that is gone is noticed in time, for every ping interval, number of
\* acks that may be missed, timeout, delay and skew: monitorControlStream of
\* the server ends within maxMissed + 1 ping intervals, that of the client
\* within its timer and the time it started late.
THEOREM GoneLinkDetected == Spec => []DetectedInTime
  <1>1. ClockInv => DetectedInTime
    <2> SUFFICES ASSUME ClockInv PROVE DetectedInTime
      OBVIOUS
    <2>t. /\ stalledFor \in Nat /\ tick \in Nat /\ missed \in Nat /\ PingEvery \in Nat
          /\ tick <= PingEvery /\ MaxMissed \in Nat /\ Waits \in {0, 1}
          /\ MaxSkew \in Nat /\ SilenceLimit \in Nat /\ silence \in Nat
      BY TimingAssumption, Limits DEF ClockInv, TypeOK, Waits
    <2>1. ASSUME mon["server"] = "run" PROVE stalledFor <= ServerLimit
      <3>1. CASE stalledFor = 0
        BY <3>1, Limits
      <3>2. CASE stalledFor > 0
        <4>1. missed + Waits <= MaxMissed /\ missed + Waits \in Nat
          BY <2>1, <2>t DEF ClockInv, ServerClock
        <4>2. (missed + Waits) * PingEvery <= MaxMissed * PingEvery
          BY <4>1, <2>t
        <4>3. /\ stalledFor <= (missed + Waits) * PingEvery + tick
              /\ (missed + Waits) * PingEvery \in Nat /\ MaxMissed * PingEvery \in Nat
          BY <2>1, <3>2, <4>1, <2>t DEF ClockInv, ServerClock
        <4>4. ServerLimit = MaxMissed * PingEvery + PingEvery
          BY <2>t DEF ServerLimit
        <4> QED BY <4>2, <4>3, <4>4, <2>t
      <3> QED BY <3>1, <3>2, <2>t
    <2>2. ASSUME mon["client"] = "run" PROVE stalledFor <= ClientLimit
      BY <2>2, <2>t DEF ClockInv, ClientClock, ClientLimit
    <2> QED BY <2>1, <2>2 DEF DetectedInTime
  <1> QED BY <1>1, ClockInvariant, PTL
-----------------------------------------------------------------------------
(* A link that never stalls: the second inductive invariant *)

\* How long the server has waited for the ack of its oldest unanswered ping.
Since == missed * PingEvery + tick

\* The link is good, and no message is on its way for more than MaxDelay.
Delays ==
    /\ link = "good"
    /\ \A s \in Sides : \A i \in 1 .. Len(net[s]) : net[s][i].age <= MaxDelay

\* The end of one side has reached the other or is the last thing sent to it.
Endings ==
    \A s, o \in Sides : (s # o /\ mon[s] = "done" /\ mon[o] # "done") =>
        broken[o] \/ (net[o] # <<>> /\ net[o][Len(net[o])].kind = "fin")

\* While both sides are there, pings are all the client has to read.
PingsOnly ==
    (mon["server"] = "run" /\ mon["client"] # "done") =>
        /\ \A i \in 1 .. Len(net["client"]) : net["client"][i].kind = "ping"
        /\ \A i \in 1 .. Len(inbox["client"]) : inbox["client"][i].kind = "ping"
        /\ ~broken["client"]
        /\ rdr["client"] = "hold" => held["client"] = "ping"
        /\ chan["client"] # <<>> => chan["client"] = <<"ping">>

\* Before the client's monitor starts nothing is answered, and the first ping
\* is not older than the time the client may start late.
Unstarted ==
    mon["client"] = "off" =>
        /\ net["server"] = <<>>
        /\ mon["server"] = "run" =>
              /\ Quiet("server")
              /\ waitingAck => Since + PingEvery <= silence
              /\ ~waitingAck =>
                    /\ tick <= silence
                    /\ net["client"] = <<>> /\ inbox["client"] = <<>>

\* What a monitor's dispatcher holds is fresh, and so never dropped for its
\* age, except for pings that waited for the client's monitor to start: they
\* may have expired, but the timer has only just started then.
AllFresh(s) == \A i \in 1 .. Len(inbox[s]) : inbox[s][i].age = 0

Inboxes ==
    /\ mon["server"] = "run" => AllFresh("server")
    /\ mon["client"] = "run" =>
          \/ AllFresh("client")
          \/ /\ silence = 0
             /\ mon["server"] = "run" =>
                   /\ PingEvery <= MaxSkew
                   /\ waitingAck => Since + PingEvery <= MaxSkew

\* The client's timer lags behind what the next message to it tells, or the
\* server's ticker when none is on its way.
ClientHears ==
    mon["client"] = "run" =>
        /\ silence <= PingEvery + MaxDelay
        /\ Quiet("client") =>
              IF net["client"] # <<>> THEN silence <= PingEvery + Head(net["client"]).age
              ELSE mon["server"] = "run" /\ silence <= tick

\* The server's wait lags behind the next answer to it, or behind the next ping
\* on its way to the client, or behind the ticker.
Answered ==
    IF net["server"] # <<>> THEN Since <= MaxSkew + MaxDelay + Head(net["server"]).age
    ELSE \/ mon["client"] = "off"
         \/ /\ mon["client"] = "run"
            /\ Since <= MaxSkew + MaxDelay
            /\ Quiet("client") =>
                  IF net["client"] # <<>> THEN Since <= MaxSkew + Head(net["client"]).age
                  ELSE Since + PingEvery <= MaxSkew + tick

ServerHears ==
    mon["server"] = "run" =>
        /\ ~waitingAck => missed = 0
        /\ waitingAck => /\ Since <= MaxSkew + 2 * MaxDelay
                         /\ Quiet("server") => Answered

Kept == \A s \in Sides : ~gaveUp[s]

Health == Delays /\ Endings /\ PingsOnly /\ Unstarted /\ Inboxes /\ ClientHears
          /\ ServerHears /\ Kept

HealthInv == stalls = 0 => Health
-----------------------------------------------------------------------------
(* Facts the steps share *)

LEMMA Numbers ==
    ASSUME TypeOK
    PROVE  /\ PingEvery \in Nat /\ PingEvery > 0 /\ MaxMissed \in Nat /\ MaxSkew \in Nat
           /\ MaxDelay \in Nat /\ TTL \in Nat /\ SilenceLimit \in Nat
           /\ tick \in Nat /\ tick <= PingEvery /\ silence \in Nat /\ missed \in Nat
           /\ Since \in Nat /\ tick <= Since /\ (missed = 0 => Since = tick)
  <1>1. /\ PingEvery \in Nat /\ PingEvery > 0 /\ MaxMissed \in Nat /\ MaxSkew \in Nat
        /\ MaxDelay \in Nat /\ TTL \in Nat /\ SilenceLimit \in Nat
        /\ tick \in Nat /\ tick <= PingEvery /\ silence \in Nat /\ missed \in Nat
    BY TimingAssumption DEF TypeOK
  <1>2. missed * PingEvery \in Nat /\ (missed = 0 => missed * PingEvery = 0)
    BY <1>1
  <1> QED BY <1>1, <1>2 DEF Since

\* The age and the kind of a message in transit.
LEMMA Heads ==
    ASSUME TypeOK, NEW s \in Sides, net[s] # <<>>
    PROVE  /\ net[s] \in Seq(Messages) /\ Len(net[s]) \in Nat /\ Len(net[s]) > 0
           /\ Head(net[s]) = net[s][1] /\ Head(net[s]) \in Messages
           /\ Head(net[s]).age \in Nat
           /\ Delays => Head(net[s]).age <= MaxDelay
  <1>1. net[s] \in Seq(Messages)
    BY DEF TypeOK
  <1>2. Len(net[s]) \in Nat /\ Len(net[s]) > 0 /\ Head(net[s]) = net[s][1]
        /\ Head(net[s]) \in Messages
    BY <1>1
  <1>3. Head(net[s]).age \in Nat
    BY <1>2 DEF Messages
  <1>4. Delays => Head(net[s]).age <= MaxDelay
    BY <1>2 DEF Delays
  <1> QED BY <1>1, <1>2, <1>3, <1>4

\* Nothing on its way to a side whose stream works: the other has not ended.
LEMMA QuietAlone ==
    ASSUME TypeOK, Readers, Endings
    PROVE  /\ mon["client"] # "done" /\ ~broken["client"] /\ net["client"] = <<>> =>
                 mon["server"] = "run"
           /\ mon["server"] = "run" /\ ~broken["server"] /\ net["server"] = <<>> =>
                 mon["client"] # "done"
  BY SidesAre DEF Endings, Readers, TypeOK

LEMMA MsgFields == \A k : Msg(k).kind = k /\ Msg(k).age = 0
  BY DEF Msg

Batch(ks) == [i \in 1 .. Len(ks) |-> Msg(ks[i])]
With(q, ks) == q \o Batch(ks)

\* A sequence of messages with new ones appended to it.
LEMMA Appended ==
    ASSUME NEW q \in Seq(Messages), NEW ks \in Seq(Kinds), ks # <<>>
    PROVE  /\ With(q, ks) \in Seq(Messages) /\ With(q, ks) # <<>>
           /\ Len(With(q, ks)) = Len(q) + Len(ks)
           /\ \A i \in 1 .. Len(q) : With(q, ks)[i] = q[i]
           /\ \A i \in Len(q) + 1 .. Len(With(q, ks)) :
                 With(q, ks)[i] = Msg(ks[i - Len(q)])
           /\ With(q, ks)[Len(With(q, ks))].kind = ks[Len(ks)]
           /\ q # <<>> => Head(With(q, ks)) = Head(q)
           /\ q = <<>> => Head(With(q, ks)).age = 0
  <1> DEFINE r == Batch(ks)
             t == With(q, ks)
  <1>1. Len(ks) \in Nat /\ Len(ks) > 0 /\ Len(q) \in Nat
    OBVIOUS
  <1>2. r \in Seq(Messages) /\ Len(r) = Len(ks) /\ \A i \in 1 .. Len(ks) : r[i] = Msg(ks[i])
    <2>1. \A i \in 1 .. Len(ks) : Msg(ks[i]) \in Messages
      BY MsgType
    <2> QED BY <1>1, <2>1 DEF Batch
  <1>c. \A u, v \in Seq(Messages) :
           /\ u \o v \in Seq(Messages) /\ Len(u \o v) = Len(u) + Len(v)
           /\ \A i \in 1 .. Len(u) + Len(v) :
                 (u \o v)[i] = IF i <= Len(u) THEN u[i] ELSE v[i - Len(u)]
    BY ConcatProperties
  <1>3. /\ t \in Seq(Messages) /\ Len(t) = Len(q) + Len(ks)
        /\ \A i \in 1 .. Len(q) : t[i] = q[i]
        /\ \A i \in Len(q) + 1 .. Len(t) : t[i] = r[i - Len(q)]
    <2> HIDE DEF r
    <2>1. /\ q \o r \in Seq(Messages) /\ Len(q \o r) = Len(q) + Len(r)
          /\ \A i \in 1 .. Len(q) + Len(r) :
                (q \o r)[i] = IF i <= Len(q) THEN q[i] ELSE r[i - Len(q)]
      BY <1>2, <1>c
    <2>2. /\ t \in Seq(Messages) /\ Len(t) = Len(q) + Len(r)
          /\ \A i \in 1 .. Len(q) + Len(r) : t[i] = IF i <= Len(q) THEN q[i] ELSE r[i - Len(q)]
      BY <2>1 DEF With, r
    <2> HIDE DEF t
    <2> QED BY <2>2, <1>1, <1>2
  <1> HIDE DEF r, t
  <1>4. \A i \in Len(q) + 1 .. Len(t) : t[i] = Msg(ks[i - Len(q)])
    <2> SUFFICES ASSUME NEW i \in Len(q) + 1 .. Len(t) PROVE t[i] = Msg(ks[i - Len(q)])
      OBVIOUS
    <2>1. i - Len(q) \in 1 .. Len(ks) /\ t[i] = r[i - Len(q)]
      BY <1>1, <1>3
    <2> QED BY <1>2, <2>1
  <1>5. t # <<>> /\ Head(t) = t[1]
    BY <1>1, <1>3
  <1>6. t[Len(t)].kind = ks[Len(ks)]
    <2>0. Len(t) \in Len(q) + 1 .. Len(t) /\ Len(t) - Len(q) = Len(ks)
      BY <1>1, <1>3
    <2>1. t[Len(t)] = Msg(ks[Len(ks)])
      BY <1>4, <2>0
    <2> QED BY <2>1, MsgFields
  <1>7. q # <<>> => Head(t) = Head(q)
    BY <1>1, <1>3, <1>5
  <1>8. ASSUME q = <<>> PROVE Head(t).age = 0
    <2>1. Len(q) = 0 /\ t[1] = Msg(ks[1])
      BY <1>1, <1>3, <1>4, <1>8
    <2> QED BY <1>5, <2>1, MsgFields
  <1> QED BY <1>3, <1>4, <1>5, <1>6, <1>7, <1>8 DEF t

\* What the network carries once s has sent messages of the kinds ks.
LEMMA AfterSent ==
    ASSUME TypeOK, Delays, NEW s \in Sides, NEW o \in Sides, s # o,
           NEW ks \in Seq(Kinds), ks # <<>>,
           NEW n, n = Sent(net, s, ks)
    PROVE  /\ n[s] = net[s]
           /\ mon[o] = "done" => n[o] = <<>>
           /\ mon[o] # "done" =>
                 /\ n[o] # <<>> /\ n[o][Len(n[o])].kind = ks[Len(ks)]
                 /\ net[o] # <<>> => Head(n[o]) = Head(net[o])
                 /\ net[o] = <<>> => Head(n[o]).age = 0
                 /\ \A k \in Kinds :
                       ks = <<k>> /\ (\A i \in 1 .. Len(net[o]) : net[o][i].kind = k) =>
                           \A i \in 1 .. Len(n[o]) : n[o][i].kind = k
           /\ \A i \in 1 .. Len(n[o]) : n[o][i].age <= MaxDelay
  <1>1. o = Other(s) /\ net[o] \in Seq(Messages) /\ MaxDelay \in Nat
    BY TimingAssumption, SidesAre DEF Other, TypeOK
  <1> DEFINE t == With(net[o], ks)
  <1>2. n[s] = net[s] /\ n[o] = IF mon[o] = "done" THEN <<>> ELSE t
    BY <1>1 DEF Sent, Batch, With, TypeOK
  <1>3. /\ t \in Seq(Messages) /\ t # <<>>
        /\ Len(t) = Len(net[o]) + Len(ks)
        /\ \A i \in 1 .. Len(net[o]) : t[i] = net[o][i]
        /\ \A i \in Len(net[o]) + 1 .. Len(t) : t[i] = Msg(ks[i - Len(net[o])])
        /\ t[Len(t)].kind = ks[Len(ks)]
        /\ net[o] # <<>> => Head(t) = Head(net[o])
        /\ net[o] = <<>> => Head(t).age = 0
    BY <1>1, Appended
  <1> HIDE DEF t
  <1>4. Len(net[o]) \in Nat /\ Len(t) \in Nat /\ Len(ks) \in Nat
    BY <1>1, <1>3
  <1>5. \A i \in 1 .. Len(t) : t[i].age <= MaxDelay
    <2> SUFFICES ASSUME NEW i \in 1 .. Len(t) PROVE t[i].age <= MaxDelay
      OBVIOUS
    <2>1. CASE i \in 1 .. Len(net[o])
      BY <1>3, <2>1 DEF Delays
    <2>2. CASE i \in Len(net[o]) + 1 .. Len(t)
      <3>1. t[i].age = 0
        BY <1>3, <2>2, MsgFields
      <3> QED BY <3>1, <1>1
    <2> QED BY <1>4, <2>1, <2>2
  <1>6. ASSUME NEW k \in Kinds, ks = <<k>>, \A i \in 1 .. Len(net[o]) : net[o][i].kind = k,
               NEW i \in 1 .. Len(t)
        PROVE  t[i].kind = k
    <2>1. CASE i \in 1 .. Len(net[o])
      BY <1>3, <1>6, <2>1
    <2>2. CASE i \in Len(net[o]) + 1 .. Len(t)
      <3>1. Len(ks) = 1 /\ ks[1] = k
        BY <1>6
      <3>2. i - Len(net[o]) = 1
        BY <1>3, <1>4, <2>2, <3>1
      <3>3. t[i] = Msg(ks[1])
        BY <1>3, <2>2, <3>2
      <3> QED BY <3>1, <3>3 DEF Msg
    <2> QED BY <1>4, <2>1, <2>2
  <1>7. CASE mon[o] = "done"
    <2>1. Len(n[o]) = 0
      BY <1>2, <1>7
    <2> QED BY <1>2, <1>7, <2>1
  <1>8. CASE mon[o] # "done"
    <2>1. n[o] = t
      BY <1>2, <1>8
    <2> QED BY <1>2, <1>3, <1>5, <1>6, <1>8, <2>1
  <1> QED BY <1>7, <1>8

-----------------------------------------------------------------------------
(* The steps of a link that never stalls *)

\* The other side, when s returns without having given up.
LEMMA AfterReturn ==
    ASSUME TypeOK, Delays, Kept, NEW s \in Sides, NEW o \in Sides, s # o,
           NEW ks \in Seq(Kinds), ks # <<>>, ks[Len(ks)] = "fin",
           Returns(s, FALSE, ks), link' = link
    PROVE  /\ mon'[s] = "done" /\ mon'[o] = mon[o] /\ net'[s] = <<>> /\ Kept' /\ Delays'
           /\ mon[o] # "done" =>
                 /\ net'[o] # <<>> /\ net'[o][Len(net'[o])].kind = "fin"
                 /\ net[o] # <<>> => Head(net'[o]) = Head(net[o])
                 /\ net[o] = <<>> => Head(net'[o]).age = 0
  <1> DEFINE n == Sent(net, s, ks)
  <1>1. /\ mon[o] = "done" => n[o] = <<>>
        /\ mon[o] # "done" =>
              /\ n[o] # <<>> /\ n[o][Len(n[o])].kind = ks[Len(ks)]
              /\ net[o] # <<>> => Head(n[o]) = Head(net[o])
              /\ net[o] = <<>> => Head(n[o]).age = 0
        /\ \A i \in 1 .. Len(n[o]) : n[o][i].age <= MaxDelay
    BY AfterSent
  <1>2. n \in [Sides -> Seq(Messages)]
    BY SentType
  <1>3. net' = [n EXCEPT ![s] = <<>>]
    BY DEF Returns
  <1> HIDE DEF n
  <1>4. net'[s] = <<>> /\ net'[o] = n[o]
    BY <1>2, <1>3
  <1>5. mon'[s] = "done" /\ mon'[o] = mon[o]
    BY EndsEffect
  <1>6. Kept'
    <2>1. gaveUp' = [gaveUp EXCEPT ![s] = FALSE] /\ gaveUp \in [Sides -> BOOLEAN]
      BY DEF Returns, TypeOK
    <2> QED BY <2>1, Zenon DEF Kept
  <1>7. Delays'
    <2>1. Sides = {s, o} /\ Len(<<>>) = 0
      BY SidesAre
    <2>2. \A i \in 1 .. Len(net'[o]) : net'[o][i].age <= MaxDelay
      BY <1>1, <1>4
    <2>3. \A i \in 1 .. Len(net'[s]) : net'[s][i].age <= MaxDelay
      BY <1>4, <2>1
    <2> QED BY <2>1, <2>2, <2>3 DEF Delays
  <1> QED BY <1>1, <1>4, <1>5, <1>6, <1>7

LEMMA HealthServerEnds ==
    ASSUME ClockInv, Health, mon["server"] = "run",
           NEW ks \in Seq(Kinds), ks # <<>>, ks[Len(ks)] = "fin",
           Returns("server", FALSE, ks), UNCHANGED <<link, inbox, broken, rdr, silence>>,
           chan'["client"] = chan["client"]
    PROVE  Health'
  <1> USE SidesAre
  <1>1. TypeOK /\ Delays /\ Kept
    BY DEF ClockInv, Health
  <1>2. /\ mon'["server"] = "done" /\ mon'["client"] = mon["client"] /\ net'["server"] = <<>>
        /\ Kept' /\ Delays'
        /\ mon["client"] # "done" =>
              /\ net'["client"] # <<>> /\ net'["client"][Len(net'["client"])].kind = "fin"
              /\ net["client"] # <<>> => Head(net'["client"]) = Head(net["client"])
              /\ net["client"] = <<>> => Head(net'["client"]).age = 0
    BY <1>1, AfterReturn
  <1>3. Endings'
    BY <1>2 DEF Endings
  <1>4. PingsOnly' /\ ServerHears' /\ Unstarted'
    BY <1>2 DEF PingsOnly, ServerHears, Unstarted
  <1>5. Inboxes'
    BY <1>2 DEF Health, Inboxes, AllFresh
  <1>6. ClientHears'
    <2> SUFFICES ASSUME mon["client"] = "run" PROVE ClientHears'
      BY <1>2 DEF ClientHears
    <2>1. silence' <= PingEvery + MaxDelay
      BY DEF Health, ClientHears
    <2>2. ASSUME Quiet("client")' PROVE silence' <= PingEvery + Head(net'["client"]).age
      <3>1. Quiet("client")
        BY <2>2 DEF Quiet
      <3>2. CASE net["client"] # <<>>
        BY <1>2, <3>1, <3>2 DEF Health, ClientHears
      <3>3. CASE net["client"] = <<>>
        <4>1. silence' = silence /\ silence <= tick /\ Head(net'["client"]).age = 0
          BY <1>2, <3>1, <3>3 DEF Health, ClientHears
        <4> QED BY <4>1, <1>1, Numbers
      <3> QED BY <3>2, <3>3
    <2> QED BY <1>2, <2>1, <2>2 DEF ClientHears
  <1> QED BY <1>2, <1>3, <1>4, <1>5, <1>6 DEF Health

LEMMA HealthClientEnds ==
    ASSUME ClockInv, Health, mon["client"] = "run",
           NEW ks \in Seq(Kinds), ks # <<>>, ks[Len(ks)] = "fin",
           Returns("client", FALSE, ks),
           UNCHANGED <<link, inbox, broken, rdr, tick, missed, waitingAck>>,
           chan'["server"] = chan["server"]
    PROVE  Health'
  <1> USE SidesAre
  <1>1. TypeOK /\ Delays /\ Kept
    BY DEF ClockInv, Health
  <1>2. /\ mon'["client"] = "done" /\ mon'["server"] = mon["server"] /\ net'["client"] = <<>>
        /\ Kept' /\ Delays'
        /\ mon["server"] # "done" =>
              /\ net'["server"] # <<>> /\ net'["server"][Len(net'["server"])].kind = "fin"
              /\ net["server"] # <<>> => Head(net'["server"]) = Head(net["server"])
              /\ net["server"] = <<>> => Head(net'["server"]).age = 0
    BY <1>1, AfterReturn
  <1>3. Endings'
    BY <1>2 DEF Endings
  <1>4. PingsOnly' /\ ClientHears' /\ Unstarted'
    BY <1>2 DEF PingsOnly, ClientHears, Unstarted
  <1>5. Inboxes'
    BY <1>2 DEF Health, Inboxes, AllFresh
  <1>6. ServerHears'
    <2> SUFFICES ASSUME mon["server"] = "run" PROVE ServerHears'
      BY <1>2 DEF ServerHears
    <2>0. Since' = Since
      BY DEF Since
    <2>1. /\ ~waitingAck' => missed' = 0
          /\ waitingAck' => Since' <= MaxSkew + 2 * MaxDelay
      BY <2>0 DEF Health, ServerHears
    <2>2. ASSUME waitingAck', Quiet("server")' PROVE Answered'
      <3>1. Quiet("server") /\ Answered
        BY <2>2 DEF Quiet, Health, ServerHears
      <3>2. CASE net["server"] # <<>>
        BY <1>2, <2>0, <3>1, <3>2 DEF Answered
      <3>3. CASE net["server"] = <<>>
        <4>1. Since <= MaxSkew + MaxDelay /\ Head(net'["server"]).age = 0
          BY <1>2, <3>1, <3>3 DEF Answered
        <4>2. Since' <= MaxSkew + MaxDelay + Head(net'["server"]).age
          BY <4>1, <2>0, <1>1, Numbers
        <4> QED BY <1>2, <4>2 DEF Answered
      <3> QED BY <3>2, <3>3
    <2> QED BY <2>1, <2>2 DEF ServerHears
  <1> QED BY <1>2, <1>3, <1>4, <1>5, <1>6 DEF Health

LEMMA HealthDeliver ==
    ASSUME ClockInv, Health, NEW s \in Sides, Deliver(s)
    PROVE  Health'
  <1> USE SidesAre
  <1>1. TypeOK /\ Delays /\ Readers
    BY DEF ClockInv, Health
  <1>2. /\ link' = link /\ UNCHANGED <<rdr, held, chan, mon, gaveUp, silence>>
        /\ UNCHANGED <<tick, missed, waitingAck>> /\ net[s] # <<>>
        /\ Since' = Since
    BY DEF Deliver, linkVars, serverVars, Since
  <1>3. net'[s] = Tail(net[s]) /\ \A o \in Sides \ {s} : net'[o] = net[o]
    BY <1>1 DEF Deliver, TypeOK
  <1>4. \A o \in Sides \ {s} : inbox'[o] = inbox[o] /\ broken'[o] = broken[o]
    BY <1>1 DEF Deliver, TypeOK
  <1>5. \/ /\ Head(net[s]).kind = "fin" /\ broken'[s] = TRUE /\ inbox'[s] = inbox[s]
        \/ /\ Head(net[s]).kind # "fin" /\ broken'[s] = broken[s]
           /\ inbox'[s] = Append(inbox[s], Msg(Head(net[s]).kind))
    BY <1>1 DEF Deliver, TypeOK
  <1>6. inbox[s] \in Seq(Messages) /\ Msg(Head(net[s]).kind) \in Messages
    BY <1>1, <1>2, Heads, MsgType DEF TypeOK, Messages
  <1>7. /\ Len(net[s]) \in Nat /\ Len(net[s]) > 0 /\ net[s] \in Seq(Messages)
        /\ Head(net[s]) = net[s][1]
    BY <1>1, <1>2, Heads
  <1>8. Len(net'[s]) = Len(net[s]) - 1 /\ \A i \in 1 .. Len(net'[s]) : net'[s][i] = net[s][i + 1]
    BY <1>3, <1>7
  <1>9. ~Quiet(s)'
    <2>1. CASE broken'[s] = TRUE
      BY <2>1 DEF Quiet
    <2>2. CASE inbox'[s] = Append(inbox[s], Msg(Head(net[s]).kind))
      <3>1. inbox'[s] # <<>>
        BY <1>6, <2>2
      <3> QED BY <3>1 DEF Quiet
    <2> QED BY <1>5, <2>1, <2>2
  <1>10. \A o \in Sides \ {s} : Quiet(o)' = Quiet(o)
    BY <1>2, <1>4 DEF Quiet
  <1>11. Delays'
    <2>1. \A i \in 1 .. Len(net'[s]) : net'[s][i].age <= MaxDelay
      <3> SUFFICES ASSUME NEW i \in 1 .. Len(net'[s]) PROVE net'[s][i].age <= MaxDelay
        OBVIOUS
      <3>1. i + 1 \in 1 .. Len(net[s]) /\ net'[s][i] = net[s][i + 1]
        BY <1>7, <1>8
      <3> QED BY <1>1, <3>1 DEF Delays
    <2> QED BY <1>1, <1>2, <1>3, <2>1 DEF Delays
  <1>12. Endings'
    <2> SUFFICES ASSUME NEW d \in Sides, NEW o \in Sides, d # o, mon[d] = "done", mon[o] # "done"
                 PROVE  broken'[o] \/ (net'[o] # <<>> /\ net'[o][Len(net'[o])].kind = "fin")
      BY <1>2 DEF Endings
    <2>1. broken[o] \/ (net[o] # <<>> /\ net[o][Len(net[o])].kind = "fin")
      BY DEF Health, Endings
    <2>2. CASE o # s
      BY <1>3, <1>4, <2>1, <2>2
    <2>3. CASE o = s /\ broken[o]
      BY <1>5, <2>3
    <2>4. CASE o = s /\ net[o][Len(net[o])].kind = "fin"
      <3>1. CASE Len(net[s]) = 1
        BY <1>5, <1>7, <2>4, <3>1
      <3>2. CASE Len(net[s]) # 1
        <4>a. Len(net[s]) \in Nat /\ Len(net[s]) > 0
          BY <1>7
        <4>b. Len(net[s]) > 1
          <5>1. \A n \in Nat : n > 0 /\ n # 1 => n > 1
            OBVIOUS
          <5> QED BY <3>2, <4>a, <5>1
        <4>0. Len(net'[s]) = Len(net[s]) - 1 /\ Len(net[s]) \in Nat /\ Len(net[s]) > 1
          BY <1>8, <4>a, <4>b
        <4>1. /\ Len(net'[s]) \in 1 .. Len(net'[s]) /\ Len(net'[s]) + 1 = Len(net[s])
          BY <4>0
        <4>2. net'[s][Len(net'[s])] = net[s][Len(net[s])]
          BY <1>8, <4>1
        <4>3. net'[s] # <<>>
          BY <4>1
        <4> QED BY <2>4, <4>2, <4>3
      <3> QED BY <3>1, <3>2
    <2> QED BY <2>1, <2>2, <2>3, <2>4
  <1>13. PingsOnly'
    <2> SUFFICES ASSUME mon["server"] = "run", mon["client"] # "done" PROVE PingsOnly'
      BY <1>2 DEF PingsOnly
    <2>1. /\ \A i \in 1 .. Len(net["client"]) : net["client"][i].kind = "ping"
          /\ \A i \in 1 .. Len(inbox["client"]) : inbox["client"][i].kind = "ping"
          /\ ~broken["client"]
          /\ rdr["client"] = "hold" => held["client"] = "ping"
          /\ chan["client"] # <<>> => chan["client"] = <<"ping">>
      BY DEF Health, PingsOnly
    <2>2. CASE s = "server"
      BY <1>2, <1>3, <1>4, <2>1, <2>2 DEF PingsOnly
    <2>3. CASE s = "client"
      <3>1. Head(net[s]).kind = "ping"
        BY <1>7, <2>1, <2>3
      <3>2. inbox'[s] = Append(inbox[s], Msg("ping")) /\ ~broken'[s]
        BY <1>5, <2>1, <2>3, <3>1
      <3>3. \A i \in 1 .. Len(inbox'[s]) : inbox'[s][i].kind = "ping"
        <4> SUFFICES ASSUME NEW i \in 1 .. Len(inbox'[s]) PROVE inbox'[s][i].kind = "ping"
          OBVIOUS
        <4>1. inbox'[s][i] = Msg("ping") \/ (i \in 1 .. Len(inbox[s]) /\ inbox'[s][i] = inbox[s][i])
          BY <1>6, <3>1, <3>2
        <4> QED BY <4>1, <2>1, <2>3, MsgFields
      <3>4. \A i \in 1 .. Len(net'[s]) : net'[s][i].kind = "ping"
        <4> SUFFICES ASSUME NEW i \in 1 .. Len(net'[s]) PROVE net'[s][i].kind = "ping"
          OBVIOUS
        <4>1. i + 1 \in 1 .. Len(net[s]) /\ net'[s][i] = net[s][i + 1]
          BY <1>7, <1>8
        <4> QED BY <2>1, <2>3, <4>1
      <3> QED BY <1>2, <2>1, <2>3, <3>2, <3>3, <3>4 DEF PingsOnly
    <2> QED BY <2>2, <2>3
  <1>14. Unstarted'
    <2> SUFFICES ASSUME mon["client"] = "off" PROVE Unstarted'
      BY <1>2 DEF Unstarted
    <2>1. net["server"] = <<>> /\ s = "client"
      BY <1>2 DEF Health, Unstarted
    <2>2. mon["server"] = "run" => waitingAck /\ Quiet("server") /\ Since + PingEvery <= silence
      BY <1>2, <2>1 DEF Health, Unstarted
    <2> QED BY <1>2, <1>3, <1>10, <2>1, <2>2 DEF Unstarted
  <1>15. Inboxes'
    <2>1. AllFresh(s) => AllFresh(s)'
      <3> SUFFICES ASSUME AllFresh(s), NEW i \in 1 .. Len(inbox'[s]) PROVE inbox'[s][i].age = 0
        BY DEF AllFresh
      <3>1. CASE inbox'[s] = inbox[s]
        BY <3>1 DEF AllFresh
      <3>2. CASE inbox'[s] = Append(inbox[s], Msg(Head(net[s]).kind))
        <4>1. \/ inbox'[s][i] = Msg(Head(net[s]).kind)
              \/ i \in 1 .. Len(inbox[s]) /\ inbox'[s][i] = inbox[s][i]
          BY <1>6, <3>2
        <4> QED BY <4>1, MsgFields DEF AllFresh
      <3> QED BY <1>5, <3>1, <3>2
    <2>2. \A o \in Sides : AllFresh(o) => AllFresh(o)'
      BY <1>4, <2>1 DEF AllFresh
    <2> QED BY <1>2, <2>2 DEF Health, Inboxes
  <1>16. ClientHears'
    <2>1. CASE s = "client"
      BY <1>2, <1>9, <2>1 DEF Health, ClientHears
    <2>2. CASE s = "server"
      BY <1>2, <1>3, <1>10, <2>2 DEF Health, ClientHears
    <2> QED BY <2>1, <2>2
  <1>17. ServerHears'
    <2>1. CASE s = "server"
      BY <1>2, <1>9, <2>1 DEF Health, ServerHears
    <2>2. CASE s = "client"
      <3>1. Answered => Answered'
        BY <1>2, <1>3, <1>9, <2>2 DEF Answered
      <3> QED BY <1>2, <1>10, <2>2, <3>1 DEF Health, ServerHears
    <2> QED BY <2>1, <2>2
  <1>18. Kept'
    BY <1>2 DEF Health, Kept
  <1> QED BY <1>11, <1>12, <1>13, <1>14, <1>15, <1>16, <1>17, <1>18 DEF Health

\* A reader takes a message, fails or hands on: a side that is quiet afterwards
\* was quiet before or has dropped an expired message.
LEMMA AfterReader ==
    ASSUME TypeOK, NEW s \in Sides, Reader(s)
    PROVE  /\ UNCHANGED <<link, net, broken, mon, gaveUp, tick, missed, waitingAck, silence>>
           /\ \A o \in Sides \ {s} : /\ inbox'[o] = inbox[o] /\ rdr'[o] = rdr[o]
                                     /\ held'[o] = held[o] /\ chan'[o] = chan[o]
           /\ \/ inbox'[s] = inbox[s]
              \/ inbox[s] # <<>> /\ inbox'[s] = Tail(inbox[s])
           /\ Quiet(s)' => inbox[s] # <<>> /\ Expired(Head(inbox[s]))
           /\ Quiet(s) => mon[s] = "done"
  <1>1. /\ UNCHANGED <<link, net, broken, mon, gaveUp, tick, missed, waitingAck, silence>>
    BY DEF Reader, ReaderTakes, ReaderFails, ReaderSends, linkVars, serverVars
  <1>2. CASE ReaderTakes(s)
    BY <1>1, <1>2 DEF ReaderTakes, Quiet, TypeOK
  <1>3. CASE ReaderFails(s)
    BY <1>1, <1>3 DEF ReaderFails, Quiet, TypeOK
  <1>4. CASE ReaderSends(s)
    BY <1>1, <1>4 DEF ReaderSends, Quiet, TypeOK
  <1> QED BY <1>2, <1>3, <1>4 DEF Reader

LEMMA HealthReader ==
    ASSUME ClockInv, Health, NEW s \in Sides, Reader(s)
    PROVE  Health'
  <1> USE SidesAre
  <1>1. TypeOK /\ Readers
    BY DEF ClockInv
  <1>2. /\ UNCHANGED <<link, net, broken, mon, gaveUp, tick, missed, waitingAck, silence>>
        /\ \A o \in Sides \ {s} : /\ inbox'[o] = inbox[o] /\ rdr'[o] = rdr[o]
                                  /\ held'[o] = held[o] /\ chan'[o] = chan[o]
        /\ \/ inbox'[s] = inbox[s]
           \/ inbox[s] # <<>> /\ inbox'[s] = Tail(inbox[s])
        /\ Quiet(s)' => inbox[s] # <<>> /\ Expired(Head(inbox[s]))
        /\ Quiet(s) => mon[s] = "done"
    BY <1>1, AfterReader
  <1>3. \A o \in Sides \ {s} : Quiet(o)' = Quiet(o)
    BY <1>2 DEF Quiet
  <1>4. Since' = Since
    BY <1>2 DEF Since
  <1>5. inbox[s] \in Seq(Messages)
    BY <1>1 DEF TypeOK
  <1>6. \A i \in 1 .. Len(inbox'[s]) : \E j \in 1 .. Len(inbox[s]) : inbox'[s][i] = inbox[s][j]
    <2>1. CASE inbox'[s] = inbox[s]
      BY <2>1
    <2>2. CASE inbox[s] # <<>> /\ inbox'[s] = Tail(inbox[s])
      <3> SUFFICES ASSUME NEW i \in 1 .. Len(inbox'[s])
                   PROVE  \E j \in 1 .. Len(inbox[s]) : inbox'[s][i] = inbox[s][j]
        OBVIOUS
      <3>1. i + 1 \in 1 .. Len(inbox[s]) /\ inbox'[s][i] = inbox[s][i + 1]
        BY <1>5, <2>2
      <3> QED BY <3>1
    <2> QED BY <1>2, <2>1, <2>2
  <1>7. ASSUME AllFresh(s) PROVE ~Quiet(s)' /\ AllFresh(s)'
    <2>1. AllFresh(s)'
      BY <1>6, <1>7 DEF AllFresh
    <2>2. ASSUME inbox[s] # <<>> PROVE ~Expired(Head(inbox[s]))
      <3>1. Head(inbox[s]) = inbox[s][1] /\ 1 \in 1 .. Len(inbox[s])
        BY <1>5, <2>2
      <3>2. Head(inbox[s]).age = 0
        BY <1>7, <3>1 DEF AllFresh
      <3> QED BY <3>2, TimingAssumption DEF Expired
    <2> QED BY <1>2, <2>1, <2>2
  <1>8. Delays' /\ Endings' /\ Kept'
    BY <1>2 DEF Health, Delays, Endings, Kept
  <1>9. PingsOnly'
    <2> SUFFICES ASSUME mon["server"] = "run", mon["client"] # "done" PROVE PingsOnly'
      BY <1>2 DEF PingsOnly
    <2>1. /\ \A i \in 1 .. Len(net["client"]) : net["client"][i].kind = "ping"
          /\ \A i \in 1 .. Len(inbox["client"]) : inbox["client"][i].kind = "ping"
          /\ ~broken["client"]
          /\ rdr["client"] = "hold" => held["client"] = "ping"
          /\ chan["client"] # <<>> => chan["client"] = <<"ping">>
      BY DEF Health, PingsOnly
    <2>2. CASE s = "server"
      BY <1>2, <2>1, <2>2 DEF PingsOnly
    <2>3. CASE s = "client"
      <3>1. \A i \in 1 .. Len(inbox'["client"]) : inbox'["client"][i].kind = "ping"
        BY <1>6, <2>1, <2>3
      <3>2. /\ rdr'["client"] = "hold" => held'["client"] = "ping"
            /\ chan'["client"] # <<>> => chan'["client"] = <<"ping">>
        <4>1. CASE ReaderTakes(s)
          <5>1. Head(inbox[s]) = inbox[s][1] /\ 1 \in 1 .. Len(inbox[s])
            BY <1>5, <4>1 DEF ReaderTakes
          <5>2. Head(inbox[s]).kind = "ping"
            BY <2>1, <2>3, <5>1
          <5> QED BY <1>1, <2>1, <2>3, <4>1, <5>2 DEF ReaderTakes, TypeOK
        <4>2. CASE ReaderFails(s)
          BY <2>1, <2>3, <4>2 DEF ReaderFails
        <4>3. CASE ReaderSends(s)
          BY <1>1, <2>1, <2>3, <4>3 DEF ReaderSends, TypeOK
        <4> QED BY <4>1, <4>2, <4>3 DEF Reader
      <3> QED BY <1>2, <2>1, <3>1, <3>2 DEF PingsOnly
    <2> QED BY <2>2, <2>3
  <1>10. Unstarted'
    <2> SUFFICES ASSUME mon["client"] = "off" PROVE Unstarted'
      BY <1>2 DEF Unstarted
    <2>1. CASE s = "server" /\ mon["server"] = "run"
      BY <1>2, <2>1 DEF Health, Unstarted
    <2>2. CASE mon["server"] # "run"
      BY <1>2, <2>2 DEF Health, Unstarted
    <2>3. CASE s = "client" /\ mon["server"] = "run"
      <3>1. inbox["client"] = <<>> => inbox'["client"] = <<>>
        BY <1>2, <2>3
      <3> QED BY <1>2, <1>3, <1>4, <2>3, <3>1 DEF Health, Unstarted
    <2> QED BY <2>1, <2>2, <2>3
  <1>11. Inboxes'
    <2>1. \A o \in Sides : AllFresh(o) => AllFresh(o)'
      BY <1>2, <1>7 DEF AllFresh
    <2> QED BY <1>2, <1>4, <2>1 DEF Health, Inboxes
  <1>12. ClientHears'
    <2>1. CASE s = "server"
      BY <1>2, <1>3, <2>1 DEF Health, ClientHears
    <2> SUFFICES ASSUME s = "client", mon["client"] = "run" PROVE ClientHears'
      BY <1>2, <2>1 DEF ClientHears
    <2>2. ASSUME Quiet("client")'
          PROVE  IF net["client"] # <<>> THEN silence <= PingEvery + Head(net["client"]).age
                 ELSE mon["server"] = "run" /\ silence <= tick
      <3>1. silence = 0
        BY <1>7, <2>2 DEF Health, Inboxes
      <3>2. ~broken["client"]
        BY <1>2, <2>2 DEF Quiet
      <3>3. CASE net["client"] # <<>>
        <4>1. Head(net["client"]).age \in Nat
          BY <1>1, <3>3, Heads
        <4>2. PingEvery \in Nat
          BY <1>1, Numbers
        <4>3. silence <= PingEvery + Head(net["client"]).age
          BY <3>1, <4>1, <4>2
        <4> QED BY <3>3, <4>3
      <3>4. CASE net["client"] = <<>>
        <4>1. mon["server"] = "run"
          BY <1>1, <3>2, <3>4, QuietAlone DEF Health
        <4> QED BY <1>1, <3>1, <3>4, <4>1, Numbers
      <3> QED BY <3>3, <3>4
    <2> QED BY <1>2, <2>2 DEF Health, ClientHears
  <1>13. ServerHears'
    <2> SUFFICES ASSUME mon["server"] = "run" PROVE ServerHears'
      BY <1>2 DEF ServerHears
    <2>1. CASE s = "server"
      <3>1. ~Quiet("server")'
        BY <1>7, <2>1 DEF Health, Inboxes
      <3> QED BY <1>2, <1>4, <3>1 DEF Health, ServerHears
    <2>2. CASE s = "client"
      <3>1. ASSUME waitingAck, Answered PROVE Answered'
        <4>1. CASE net["server"] # <<>> \/ mon["client"] = "off"
          BY <1>2, <1>4, <3>1, <4>1 DEF Answered
        <4>2. CASE net["server"] = <<>> /\ mon["client"] # "off"
          <5>1. mon["client"] = "run" /\ Since <= MaxSkew + MaxDelay
            BY <3>1, <4>2 DEF Answered
          <5>2. ASSUME Quiet("client")'
                PROVE  IF net["client"] # <<>> THEN Since <= MaxSkew + Head(net["client"]).age
                       ELSE Since + PingEvery <= MaxSkew + tick
            <6>1. Since + PingEvery <= MaxSkew
              BY <1>7, <2>2, <3>1, <5>1, <5>2 DEF Health, Inboxes
            <6>2. net["client"] # <<>> => Head(net["client"]).age \in Nat
              BY <1>1, Heads
            <6>3. /\ Since \in Nat /\ PingEvery \in Nat /\ MaxSkew \in Nat /\ tick \in Nat
              BY <1>1, Numbers
            <6>4. CASE net["client"] # <<>>
              BY <6>1, <6>2, <6>3, <6>4
            <6>5. CASE net["client"] = <<>>
              BY <6>1, <6>3, <6>5
            <6> QED BY <6>4, <6>5
          <5> QED BY <1>2, <1>4, <4>2, <5>1, <5>2 DEF Answered
        <4> QED BY <4>1, <4>2
      <3> QED BY <1>2, <1>3, <1>4, <2>2, <3>1 DEF Health, ServerHears
    <2> QED BY <2>1, <2>2
  <1> QED BY <1>8, <1>9, <1>10, <1>11, <1>12, <1>13 DEF Health

\* The network after s has sent one message of kind k and goes on.
LEMMA AfterMessage ==
    ASSUME TypeOK, Delays, NEW s \in Sides, NEW o \in Sides, s # o, NEW k \in Kinds,
           net' = Sent(net, s, <<k>>)
    PROVE  /\ net'[s] = net[s]
           /\ mon[o] = "done" => net'[o] = <<>>
           /\ mon[o] # "done" =>
                 /\ net'[o] # <<>>
                 /\ net[o] # <<>> => Head(net'[o]) = Head(net[o])
                 /\ net[o] = <<>> => Head(net'[o]).age = 0
                 /\ (\A i \in 1 .. Len(net[o]) : net[o][i].kind = k) =>
                       \A i \in 1 .. Len(net'[o]) : net'[o][i].kind = k
           /\ \A i \in 1 .. Len(net'[o]) : net'[o][i].age <= MaxDelay
  <1> DEFINE ks == <<k>>
             n == Sent(net, s, ks)
  <1>1. ks \in Seq(Kinds) /\ ks # <<>>
    OBVIOUS
  <1>2. net' = n /\ ks = <<k>>
    OBVIOUS
  <1> HIDE DEF ks
  <1>3. /\ n[s] = net[s]
        /\ mon[o] = "done" => n[o] = <<>>
        /\ mon[o] # "done" =>
              /\ n[o] # <<>>
              /\ net[o] # <<>> => Head(n[o]) = Head(net[o])
              /\ net[o] = <<>> => Head(n[o]).age = 0
              /\ ks = <<k>> /\ (\A i \in 1 .. Len(net[o]) : net[o][i].kind = k) =>
                     \A i \in 1 .. Len(n[o]) : n[o][i].kind = k
        /\ \A i \in 1 .. Len(n[o]) : n[o][i].age <= MaxDelay
    BY <1>1, AfterSent
  <1> HIDE DEF n
  <1> QED BY <1>2, <1>3

\* The ticker fires in time: on a link that never stalls an ack that is due
\* when the ticker fires for the last time has arrived.
LEMMA TickInTime ==
    ASSUME ClockInv, Health, ServerTick
    PROVE  /\ tick = PingEvery /\ ~(waitingAck /\ TooMany(MissedNow))
           /\ (missed' * PingEvery + tick') \in Nat
           /\ Since' = IF waitingAck THEN Since ELSE 0
  <1>1. TypeOK
    BY DEF ClockInv
  <1>2. /\ PingEvery \in Nat /\ MaxMissed \in Nat /\ MaxSkew \in Nat /\ MaxDelay \in Nat
        /\ missed \in Nat /\ tick \in Nat
    BY <1>1, Numbers
  <1>3. tick = PingEvery /\ tick' = 0 /\ missed' = MissedNow /\ mon["server"] = "run"
    BY <1>1, Numbers DEF ServerTick
  <1>4. missed * PingEvery \in Nat /\ (missed + 1) * PingEvery = missed * PingEvery + PingEvery
    BY <1>2
  <1>5. ~waitingAck => missed = 0
    BY <1>3 DEF Health, ServerHears
  <1>6. Since = (missed + 1) * PingEvery
    BY <1>2, <1>3, <1>4 DEF Since
  <1>7. ASSUME waitingAck, missed + 1 >= MaxMissed PROVE FALSE
    <2>1. Since <= MaxSkew + 2 * MaxDelay
      BY <1>3, <1>7 DEF Health, ServerHears
    <2>2. MaxMissed * PingEvery <= (missed + 1) * PingEvery
      BY <1>2, <1>7
    <2>3. MaxMissed * PingEvery \in Nat /\ (missed + 1) * PingEvery \in Nat
      BY <1>2
    <2>4. MaxSkew + 2 * MaxDelay < MaxMissed * PingEvery
      BY DelayAssumption
    <2> QED BY <1>2, <1>6, <2>1, <2>2, <2>3, <2>4
  <1>8. ~(waitingAck /\ TooMany(MissedNow))
    BY <1>7 DEF TooMany, MissedNow
  <1>9. CASE waitingAck
    <2>1. missed' = missed + 1
      BY <1>3, <1>9 DEF MissedNow
    <2>2. Since' = (missed + 1) * PingEvery
      BY <1>2, <1>3, <1>4, <2>1 DEF Since
    <2>3. (missed + 1) * PingEvery \in Nat
      BY <1>2
    <2> QED BY <1>3, <1>6, <1>8, <1>9, <2>2, <2>3 DEF Since
  <1>10. CASE ~waitingAck
    <2>1. missed' = 0
      BY <1>3, <1>5, <1>10 DEF MissedNow
    <2>2. Since' = 0
      BY <1>2, <1>3, <2>1 DEF Since
    <2> QED BY <1>3, <1>8, <1>10, <2>2 DEF Since
  <1> QED BY <1>9, <1>10

LEMMA HealthServerTick ==
    ASSUME ClockInv, Health, ServerTick
    PROVE  Health'
  <1> USE SidesAre
  <1>1. TypeOK /\ Delays /\ Readers
    BY DEF ClockInv, Health
  <1>2. /\ UNCHANGED <<link, broken, inbox, rdr, held, chan, silence>>
        /\ mon["server"] = "run" /\ tick' = 0
    BY DEF ServerTick, linkVars, readerVars
  <1>3. tick = PingEvery /\ ~(waitingAck /\ TooMany(MissedNow))
        /\ Since' = IF waitingAck THEN Since ELSE 0
    BY TickInTime
  <1>4. CASE Ends("server", FALSE)
    <2>1. <<"fin">> \in Seq(Kinds) /\ <<"fin">> # <<>> /\ Len(<<"fin">>) = 1 /\ <<"fin">>[1] = "fin"
      BY KindSeqs
    <2>2. <<"fin">>[Len(<<"fin">>)] = "fin"
      BY <2>1
    <2> QED BY <1>2, <1>4, <2>1, <2>2, HealthServerEnds DEF Ends
  <1>5. CASE net' = Sent(net, "server", <<"ping">>) /\ waitingAck' = TRUE /\ UNCHANGED <<mon, gaveUp>>
    <2>1. /\ net'["server"] = net["server"]
          /\ mon["client"] = "done" => net'["client"] = <<>>
          /\ mon["client"] # "done" =>
                /\ net'["client"] # <<>>
                /\ net["client"] # <<>> => Head(net'["client"]) = Head(net["client"])
                /\ net["client"] = <<>> => Head(net'["client"]).age = 0
                /\ (\A i \in 1 .. Len(net["client"]) : net["client"][i].kind = "ping") =>
                      \A i \in 1 .. Len(net'["client"]) : net'["client"][i].kind = "ping"
          /\ \A i \in 1 .. Len(net'["client"]) : net'["client"][i].age <= MaxDelay
      <3>1. "ping" \in Kinds /\ "server" \in Sides /\ "client" \in Sides
        BY DEF Kinds
      <3> QED BY <1>1, <1>5, <3>1, AfterMessage
    <2>2. /\ PingEvery \in Nat /\ PingEvery > 0 /\ MaxSkew \in Nat /\ MaxDelay \in Nat
          /\ silence \in Nat /\ Since \in Nat
      BY <1>1, Numbers
    <2>3. \A s \in Sides : Quiet(s)' = Quiet(s)
      BY <1>2 DEF Quiet
    <2>4. Since' \in Nat
      BY <1>3, <2>2
    <2>5. Delays' /\ Kept'
      BY <1>1, <1>2, <1>5, <2>1 DEF Delays, Health, Kept
    <2>6. Endings'
      BY <1>2, <1>5, <2>1 DEF Health, Endings
    <2>7. PingsOnly'
      BY <1>2, <1>5, <2>1 DEF Health, PingsOnly
    <2>8. Unstarted'
      <3> SUFFICES ASSUME mon["client"] = "off" PROVE Unstarted'
        BY <1>5 DEF Unstarted
      <3>1. /\ net["server"] = <<>> /\ Quiet("server")
            /\ waitingAck => Since + PingEvery <= silence
            /\ ~waitingAck => tick <= silence
        BY <1>2 DEF Health, Unstarted
      <3>2. Since' + PingEvery <= silence
        BY <1>3, <2>2, <3>1
      <3> QED BY <1>2, <1>5, <2>1, <2>3, <3>1, <3>2 DEF Unstarted
    <2>9. Inboxes'
      <3>1. \A s \in Sides : AllFresh(s)' = AllFresh(s)
        BY <1>2 DEF AllFresh
      <3>2. /\ AllFresh("server")
            /\ mon["client"] = "run" =>
                  \/ AllFresh("client")
                  \/ /\ silence = 0 /\ PingEvery <= MaxSkew
                     /\ waitingAck => Since + PingEvery <= MaxSkew
        BY <1>2 DEF Health, Inboxes
      <3>3. PingEvery <= MaxSkew /\ (waitingAck => Since + PingEvery <= MaxSkew) =>
               Since' + PingEvery <= MaxSkew
        BY <1>3, <2>2
      <3> QED BY <1>2, <1>5, <3>1, <3>2, <3>3 DEF Inboxes
    <2>10. ClientHears'
      <3> SUFFICES ASSUME mon["client"] = "run" PROVE ClientHears'
        BY <1>5 DEF ClientHears
      <3>1. ASSUME Quiet("client") PROVE silence <= PingEvery + Head(net'["client"]).age
        <4>1. CASE net["client"] # <<>>
          BY <2>1, <3>1, <4>1 DEF Health, ClientHears
        <4>2. CASE net["client"] = <<>>
          <5>1. silence <= tick /\ Head(net'["client"]).age = 0
            BY <2>1, <3>1, <4>2 DEF Health, ClientHears
          <5> QED BY <1>3, <2>2, <5>1
        <4> QED BY <4>1, <4>2
      <3> QED BY <1>2, <1>5, <2>1, <2>3, <3>1 DEF Health, ClientHears
    <2>11. ServerHears'
      <3>1. Since' <= MaxSkew + 2 * MaxDelay
        BY <1>2, <1>3, <2>2 DEF Health, ServerHears
      <3>2. ASSUME Quiet("server") PROVE Answered'
        <4>0. waitingAck => Answered
          BY <1>2, <3>2 DEF Health, ServerHears
        <4>1. CASE net["server"] # <<>>
          <5>1. Head(net["server"]).age \in Nat
            BY <1>1, <4>1, Heads
          <5>2. Since' <= MaxSkew + MaxDelay + Head(net["server"]).age
            <6>1. CASE waitingAck
              BY <1>3, <4>0, <4>1, <6>1 DEF Answered
            <6>2. CASE ~waitingAck
              BY <1>3, <2>2, <5>1, <6>2
            <6> QED BY <6>1, <6>2
          <5> QED BY <2>1, <4>1, <5>2 DEF Answered
        <4>2. CASE net["server"] = <<>> /\ mon["client"] = "off"
          BY <1>5, <2>1, <4>2 DEF Answered
        <4>3. CASE net["server"] = <<>> /\ mon["client"] # "off"
          <5>1. mon["client"] = "run"
            <6>1. ~broken["server"]
              BY <3>2 DEF Quiet
            <6>2. mon["client"] # "done"
              BY <1>1, <1>2, <4>3, <6>1, QuietAlone DEF Health
            <6> QED BY <1>1, <4>3, <6>2 DEF TypeOK
          <5>2. Since' <= MaxSkew + MaxDelay
            <6>1. CASE waitingAck
              BY <1>3, <4>0, <4>3, <6>1 DEF Answered
            <6>2. CASE ~waitingAck
              BY <1>3, <2>2, <6>2
            <6> QED BY <6>1, <6>2
          <5>3. ASSUME Quiet("client") PROVE Since' <= MaxSkew + Head(net'["client"]).age
            <6>1. CASE net["client"] # <<>>
              <7>1. Head(net'["client"]) = Head(net["client"]) /\ Head(net["client"]).age \in Nat
                BY <1>1, <2>1, <5>1, <6>1, Heads
              <7>2. CASE waitingAck
                BY <1>3, <4>0, <4>3, <5>3, <6>1, <7>1, <7>2 DEF Answered
              <7>3. CASE ~waitingAck
                BY <1>3, <2>2, <7>1, <7>3
              <7> QED BY <7>2, <7>3
            <6>2. CASE net["client"] = <<>>
              <7>1. Head(net'["client"]).age = 0
                BY <2>1, <5>1, <6>2
              <7>2. CASE waitingAck
                <8>1. Since + PingEvery <= MaxSkew + tick
                  BY <4>0, <4>3, <5>3, <6>2, <7>2 DEF Answered
                <8> QED BY <1>3, <2>2, <7>1, <7>2, <8>1
              <7>3. CASE ~waitingAck
                BY <1>3, <2>2, <7>1, <7>3
              <7> QED BY <7>2, <7>3
            <6> QED BY <6>1, <6>2
          <5> QED BY <1>5, <2>1, <2>3, <4>3, <5>1, <5>2, <5>3 DEF Answered
        <4> QED BY <4>1, <4>2, <4>3
      <3> QED BY <1>5, <2>3, <3>1, <3>2 DEF ServerHears
    <2> QED BY <2>5, <2>6, <2>7, <2>8, <2>9, <2>10, <2>11 DEF Health
  <1> QED BY <1>3, <1>4, <1>5 DEF ServerTick

LEMMA HealthServerReceives ==
    ASSUME ClockInv, Health, ServerReceives
    PROVE  Health'
  <1> USE SidesAre
  <1>1. TypeOK /\ Delays /\ Readers
    BY DEF ClockInv, Health
  <1>2. /\ UNCHANGED <<link, broken, inbox, rdr, held, tick, silence>>
        /\ mon["server"] = "run" /\ chan["server"] # <<>>
        /\ chan'["server"] = <<>> /\ chan'["client"] = chan["client"]
    BY <1>1 DEF ServerReceives, linkVars, TypeOK
  <1>3. CASE Ends("server", FALSE)
    <2>1. <<"fin">> \in Seq(Kinds) /\ <<"fin">> # <<>> /\ Len(<<"fin">>) = 1 /\ <<"fin">>[1] = "fin"
      BY KindSeqs
    <2>2. <<"fin">>[Len(<<"fin">>)] = "fin"
      BY <2>1
    <2> QED BY <1>2, <1>3, <2>1, <2>2, HealthServerEnds DEF Ends
  <1>4. CASE chan["server"][1] = "pong" /\ UNCHANGED <<mon, gaveUp, net>>
    <2>1. missed' = 0 /\ ~waitingAck'
      <3>1. ~waitingAck => missed = 0
        BY <1>2 DEF Health, ServerHears
      <3>2. /\ missed' = (IF waitingAck THEN 0 ELSE missed)
            /\ waitingAck' = (waitingAck /\ ~waitingAck)
        BY <1>4, Zenon DEF ServerReceives, Acked
      <3> QED BY <3>1, <3>2
    <2>2. Quiet("client")' = Quiet("client") /\ ~Quiet("server")
      BY <1>2 DEF Quiet
    <2>3. mon["client"] # "off"
      BY <1>2, <2>2 DEF Health, Unstarted
    <2>4. \A s \in Sides : AllFresh(s)' = AllFresh(s)
      BY <1>2 DEF AllFresh
    <2>5. Delays' /\ Kept' /\ Endings' /\ PingsOnly'
      BY <1>2, <1>4 DEF Health, Delays, Kept, Endings, PingsOnly
    <2>6. Unstarted'
      BY <1>4, <2>3 DEF Unstarted
    <2>7. Inboxes'
      BY <1>2, <1>4, <2>1, <2>4 DEF Health, Inboxes
    <2>8. ClientHears'
      BY <1>2, <1>4, <2>2 DEF Health, ClientHears
    <2>9. ServerHears'
      BY <2>1 DEF ServerHears
    <2> QED BY <2>5, <2>6, <2>7, <2>8, <2>9 DEF Health
  <1> QED BY <1>3, <1>4 DEF ServerReceives

LEMMA HealthClientReceives ==
    ASSUME ClockInv, Health, ClientReceives
    PROVE  Health'
  <1> USE SidesAre
  <1>1. TypeOK /\ Delays /\ Readers
    BY DEF ClockInv, Health
  <1>2. /\ UNCHANGED <<link, broken, inbox, rdr, held, tick, missed, waitingAck>>
        /\ mon["client"] = "run" /\ chan["client"] # <<>>
        /\ chan'["client"] = <<>> /\ chan'["server"] = chan["server"]
    BY <1>1 DEF ClientReceives, linkVars, serverVars, TypeOK
  <1>3. CASE Ends("client", FALSE)
    <2>1. <<"fin">> \in Seq(Kinds) /\ <<"fin">> # <<>> /\ Len(<<"fin">>) = 1 /\ <<"fin">>[1] = "fin"
      BY KindSeqs
    <2>2. <<"fin">>[Len(<<"fin">>)] = "fin"
      BY <2>1
    <2> QED BY <1>2, <1>3, <2>1, <2>2, HealthClientEnds DEF Ends
  <1>4. CASE chan["client"][1] # "ping" /\ Returns("client", FALSE, <<>>)
    \* Only a server that has ended sends anything but pings.
    <2>1. mon["server"] = "done"
      <3>1. mon["server"] # "run"
        BY <1>2, <1>4 DEF Health, PingsOnly
      <3> QED BY <1>1, <3>1 DEF Readers, TypeOK
    <2>2. mon'["client"] = "done" /\ mon'["server"] = "done"
      BY <1>1, <1>4, <2>1, EndsEffect
    <2>3. net'["client"] = <<>> /\ net'["server"] = <<>>
      <3> DEFINE n == Sent(net, "client", <<>>)
      <3>1. n["server"] = <<>> /\ n \in [Sides -> Seq(Messages)]
        BY <1>1, <2>1, SentType, KindSeqs DEF Sent, Other, TypeOK
      <3>2. net' = [n EXCEPT !["client"] = <<>>]
        BY <1>4 DEF Returns
      <3> HIDE DEF n
      <3> QED BY <3>1, <3>2
    <2>4. Delays'
      <3>1. Len(<<>>) = 0
        OBVIOUS
      <3> QED BY <1>1, <1>2, <2>3, <3>1 DEF Delays
    <2>5. Kept'
      <3>1. gaveUp' = [gaveUp EXCEPT !["client"] = FALSE] /\ gaveUp \in [Sides -> BOOLEAN]
        BY <1>1, <1>4 DEF Returns, TypeOK
      <3> QED BY <3>1, Zenon DEF Health, Kept
    <2> QED BY <2>2, <2>4, <2>5 DEF Health, Endings, PingsOnly, Unstarted, Inboxes,
                                    ClientHears, ServerHears
  <1>5. CASE silence' = 0 /\ net' = Sent(net, "client", <<"pong">>) /\ UNCHANGED <<mon, gaveUp>>
    <2>1. /\ net'["client"] = net["client"]
          /\ mon["server"] # "done" =>
                /\ net'["server"] # <<>>
                /\ net["server"] # <<>> => Head(net'["server"]) = Head(net["server"])
                /\ net["server"] = <<>> => Head(net'["server"]).age = 0
          /\ \A i \in 1 .. Len(net'["server"]) : net'["server"][i].age <= MaxDelay
      <3>1. "pong" \in Kinds /\ "server" \in Sides /\ "client" \in Sides
        BY DEF Kinds
      <3> QED BY <1>1, <1>5, <3>1, AfterMessage
    <2>2. /\ PingEvery \in Nat /\ MaxSkew \in Nat /\ MaxDelay \in Nat /\ tick \in Nat
          /\ Since \in Nat
      BY <1>1, Numbers
    <2>3. Quiet("server")' = Quiet("server") /\ Since' = Since
      BY <1>2 DEF Quiet, Since
    <2>4. \A s \in Sides : AllFresh(s)' = AllFresh(s)
      BY <1>2 DEF AllFresh
    <2>5. Delays' /\ Kept'
      BY <1>1, <1>2, <1>5, <2>1 DEF Delays, Health, Kept
    <2>6. Endings'
      BY <1>2, <1>5, <2>1 DEF Health, Endings
    <2>7. PingsOnly'
      BY <1>2, <1>5, <2>1 DEF Health, PingsOnly
    <2>8. Unstarted'
      BY <1>2, <1>5 DEF Unstarted
    <2>9. Inboxes'
      BY <1>2, <1>5, <2>3, <2>4 DEF Health, Inboxes
    <2>10. ClientHears'
      <3>1. 0 <= PingEvery + MaxDelay
        BY <2>2
      <3>2. ASSUME net["client"] # <<>> PROVE 0 <= PingEvery + Head(net["client"]).age
        <4>1. Head(net["client"]).age \in Nat
          BY <1>1, <3>2, Heads
        <4> QED BY <2>2, <4>1
      <3>3. ASSUME net["client"] = <<>>, Quiet("client")' PROVE mon["server"] = "run" /\ 0 <= tick
        <4>1. ~broken["client"]
          BY <1>2, <3>3 DEF Quiet
        <4>2. mon["server"] = "run"
          BY <1>1, <1>2, <3>3, <4>1, QuietAlone DEF Health
        <4> QED BY <2>2, <4>2
      <3> QED BY <1>2, <1>5, <2>1, <3>1, <3>2, <3>3 DEF ClientHears
    <2>11. ServerHears'
      <3> SUFFICES ASSUME mon["server"] = "run" PROVE ServerHears'
        BY <1>5 DEF ServerHears
      <3>1. ASSUME waitingAck, Quiet("server") PROVE Answered'
        <4>1. Answered
          BY <3>1 DEF Health, ServerHears
        <4>2. CASE net["server"] # <<>>
          BY <2>1, <2>3, <4>1, <4>2 DEF Answered
        <4>3. CASE net["server"] = <<>>
          <5>1. Since <= MaxSkew + MaxDelay /\ Head(net'["server"]).age = 0
            BY <1>2, <2>1, <4>1, <4>3 DEF Answered
          <5>2. Since <= MaxSkew + MaxDelay + Head(net'["server"]).age
            BY <2>2, <5>1
          <5> QED BY <2>1, <2>3, <5>2 DEF Answered
        <4> QED BY <4>2, <4>3
      <3> QED BY <1>2, <1>5, <2>3, <3>1 DEF Health, ServerHears
    <2> QED BY <2>5, <2>6, <2>7, <2>8, <2>9, <2>10, <2>11 DEF Health
  <1> QED BY <1>3, <1>4, <1>5 DEF ClientReceives, ResetTo

LEMMA HealthClientBegins ==
    ASSUME ClockInv, Health, ClientBegins
    PROVE  Health'
  <1> USE SidesAre
  <1>1. TypeOK /\ Delays /\ Readers
    BY DEF ClockInv, Health
  <1>2. /\ UNCHANGED <<link, net, broken, inbox, held, chan, gaveUp, tick, missed, waitingAck>>
        /\ mon["client"] = "off" /\ mon'["client"] = "run" /\ mon'["server"] = mon["server"]
        /\ rdr'["client"] = "wait" /\ rdr'["server"] = rdr["server"] /\ silence' = 0
        /\ Since' = Since
    BY <1>1 DEF ClientBegins, linkVars, serverVars, TypeOK, Since
  <1>3. /\ PingEvery \in Nat /\ MaxSkew \in Nat /\ MaxDelay \in Nat /\ tick \in Nat
        /\ Since \in Nat /\ silence \in Nat /\ silence <= MaxSkew
    BY <1>1, <1>2, Numbers DEF ClockInv, ClientClock
  <1>4. Quiet("server")' = Quiet("server")
    BY <1>2 DEF Quiet
  <1>5. \A s \in Sides : AllFresh(s)' = AllFresh(s)
    BY <1>2 DEF AllFresh
  <1>6. ASSUME mon["server"] = "run", waitingAck PROVE Since + PingEvery <= MaxSkew
    <2>1. Since + PingEvery <= silence
      BY <1>2, <1>6 DEF Health, Unstarted
    <2> QED BY <1>3, <2>1
  <1>7. Delays' /\ Kept'
    BY <1>1, <1>2 DEF Delays, Health, Kept
  <1>8. Endings'
    BY <1>2 DEF Health, Endings
  <1>9. PingsOnly'
    BY <1>2 DEF Health, PingsOnly
  <1>10. Unstarted'
    BY <1>2 DEF Unstarted
  <1>11. Inboxes'
    <2>1. CASE mon["server"] = "run" /\ ~waitingAck
      <3>1. inbox["client"] = <<>> /\ Len(<<>>) = 0
        BY <1>2, <2>1 DEF Health, Unstarted
      <3>2. AllFresh("client")
        BY <3>1 DEF AllFresh
      <3> QED BY <1>2, <1>5, <3>2 DEF Health, Inboxes
    <2>2. CASE mon["server"] = "run" /\ waitingAck
      <3>1. Since + PingEvery <= MaxSkew /\ PingEvery <= MaxSkew
        BY <1>3, <1>6, <2>2
      <3> QED BY <1>2, <1>5, <2>2, <3>1 DEF Health, Inboxes
    <2>3. CASE mon["server"] # "run"
      BY <1>2, <2>3 DEF Inboxes
    <2> QED BY <2>1, <2>2, <2>3
  <1>12. ClientHears'
    <2>1. 0 <= PingEvery + MaxDelay
      BY <1>3
    <2>2. ASSUME net["client"] # <<>> PROVE 0 <= PingEvery + Head(net["client"]).age
      <3>1. Head(net["client"]).age \in Nat
        BY <1>1, <2>2, Heads
      <3> QED BY <1>3, <3>1
    <2>3. ASSUME net["client"] = <<>>, Quiet("client")' PROVE mon["server"] = "run" /\ 0 <= tick
      <3>1. ~broken["client"]
        BY <1>2, <2>3 DEF Quiet
      <3>2. mon["server"] = "run"
        BY <1>1, <1>2, <2>3, <3>1, QuietAlone DEF Health
      <3> QED BY <1>3, <3>2
    <2> QED BY <1>2, <2>1, <2>2, <2>3 DEF ClientHears
  <1>13. ServerHears'
    <2> SUFFICES ASSUME mon["server"] = "run" PROVE ServerHears'
      BY <1>2 DEF ServerHears
    <2>1. ASSUME waitingAck PROVE Answered'
      <3>1. Since + PingEvery <= MaxSkew /\ Since <= MaxSkew + MaxDelay
            /\ Since + PingEvery <= MaxSkew + tick
        BY <1>3, <1>6, <2>1
      <3>2. net["server"] = <<>>
        BY <1>2 DEF Health, Unstarted
      <3>3. ASSUME net["client"] # <<>> PROVE Since <= MaxSkew + Head(net["client"]).age
        <4>1. Head(net["client"]).age \in Nat
          BY <1>1, <3>3, Heads
        <4> QED BY <1>3, <3>1, <4>1
      <3> QED BY <1>2, <3>1, <3>2, <3>3 DEF Answered
    <2> QED BY <1>2, <1>4, <2>1 DEF Health, ServerHears
  <1> QED BY <1>7, <1>8, <1>9, <1>10, <1>11, <1>12, <1>13 DEF Health

\* A sequence of messages after one unit of time.
LEMMA Aged ==
    ASSUME NEW q \in Seq(Messages), NEW limit \in Nat
    PROVE  /\ Len(Older(q, limit)) = Len(q)
           /\ \A i \in 1 .. Len(q) :
                 /\ Older(q, limit)[i].kind = q[i].kind
                 /\ q[i].age <= limit => Older(q, limit)[i].age <= limit
           /\ q = <<>> => Older(q, limit) = <<>>
           /\ q # <<>> /\ Head(q).age < limit =>
                 Older(q, limit) # <<>> /\ Head(Older(q, limit)).age = Head(q).age + 1
  <1>1. Older(q, limit) \in Seq(Messages) /\ Len(Older(q, limit)) = Len(q) /\ Len(q) \in Nat
    BY OlderType
  <1>2. ASSUME NEW i \in 1 .. Len(q)
        PROVE  /\ q[i].age \in Nat
               /\ Older(q, limit)[i].kind = q[i].kind
               /\ Older(q, limit)[i].age = IF q[i].age < limit THEN q[i].age + 1 ELSE q[i].age
    <2>1. q[i] \in Messages
      BY <1>2
    <2>2. Older(q, limit)[i] = [q[i] EXCEPT !.age = IF @ < limit THEN @ + 1 ELSE @]
      BY <1>2 DEF Older
    <2> QED BY <2>1, <2>2 DEF Messages
  <1>3. \A i \in 1 .. Len(q) :
           /\ Older(q, limit)[i].kind = q[i].kind
           /\ q[i].age <= limit => Older(q, limit)[i].age <= limit
    BY <1>2
  <1>4. q = <<>> => Older(q, limit) = <<>>
    BY DEF Older
  <1>5. ASSUME q # <<>>, Head(q).age < limit
        PROVE  Older(q, limit) # <<>> /\ Head(Older(q, limit)).age = Head(q).age + 1
    <2>1. 1 \in 1 .. Len(q) /\ Head(q) = q[1]
      BY <1>1, <1>5
    <2>2. Older(q, limit) # <<>> /\ Head(Older(q, limit)) = Older(q, limit)[1]
      BY <1>1, <2>1
    <2>3. Older(q, limit)[1].age = q[1].age + 1
      BY <1>2, <1>5, <2>1
    <2> QED BY <2>1, <2>2, <2>3
  <1> QED BY <1>1, <1>3, <1>4, <1>5

LEMMA HealthPass ==
    ASSUME ClockInv, Health, Pass
    PROVE  Health'
  <1> USE SidesAre
  <1>1. TypeOK /\ Delays /\ Readers
    BY DEF ClockInv, Health
  <1>2. /\ UNCHANGED <<link, broken, rdr, held, chan, mon, gaveUp, missed, waitingAck>>
        /\ tick' = (IF mon["server"] = "run" THEN tick + 1 ELSE tick)
        /\ silence' = (IF mon["client"] # "done" THEN silence + 1 ELSE silence)
        /\ ~Urgent
    BY DEF Pass
  <1>3. /\ PingEvery \in Nat /\ PingEvery > 0 /\ MaxSkew \in Nat /\ MaxDelay \in Nat
        /\ tick \in Nat /\ Since \in Nat /\ silence \in Nat /\ TTL + 1 \in Nat
    BY <1>1, Numbers
  <1>4. mon["server"] = "run" => Since' = Since + 1 /\ tick < PingEvery
    <2> SUFFICES ASSUME mon["server"] = "run" PROVE Since' = Since + 1 /\ tick < PingEvery
      OBVIOUS
    <2>1. missed * PingEvery \in Int
      BY <1>1, Numbers
    <2>2. tick' = tick + 1 /\ missed' = missed
      BY <1>2
    <2>3. Since' = Since + 1
      BY <1>3, <2>1, <2>2 DEF Since
    <2>4. ~(tick >= PingEvery)
      BY <1>2 DEF Urgent
    <2> QED BY <1>3, <2>3, <2>4
  <1>5. \A s \in Sides : mon[s] = "run" => Quiet(s)
    BY <1>1, <1>2, PassQuiet
  <1>6. \A s \in Sides : Quiet(s) => Quiet(s)'
    BY <1>1, QuietKept
  <1>7. ASSUME NEW s \in Sides
        PROVE  /\ Len(net'[s]) = Len(net[s])
               /\ \A i \in 1 .. Len(net[s]) :
                     net'[s][i].kind = net[s][i].kind /\ net'[s][i].age <= MaxDelay
               /\ net[s] = <<>> => net'[s] = <<>>
               /\ net[s] # <<>> =>
                     /\ net'[s] # <<>> /\ Head(net[s]).age < MaxDelay
                     /\ Head(net[s]).age \in Nat /\ Head(net'[s]).age = Head(net[s]).age + 1
    <2>1. net'[s] = Older(net[s], MaxDelay) /\ net[s] \in Seq(Messages)
      BY <1>1 DEF Pass, TypeOK
    <2>2. \A i \in 1 .. Len(net[s]) : net[s][i].age <= MaxDelay
      BY <1>1 DEF Delays
    <2>3. ASSUME net[s] # <<>> PROVE Head(net[s]).age < MaxDelay /\ Head(net[s]).age \in Nat
      <3>1. ~(Head(net[s]).age >= MaxDelay)
        BY <1>1, <1>2, <2>3 DEF Urgent, Delays
      <3>2. Head(net[s]).age \in Nat
        BY <1>1, <2>3, Heads
      <3> QED BY <1>3, <3>1, <3>2
    <2>4. /\ Len(Older(net[s], MaxDelay)) = Len(net[s])
          /\ \A i \in 1 .. Len(net[s]) :
                /\ Older(net[s], MaxDelay)[i].kind = net[s][i].kind
                /\ net[s][i].age <= MaxDelay => Older(net[s], MaxDelay)[i].age <= MaxDelay
          /\ net[s] = <<>> => Older(net[s], MaxDelay) = <<>>
          /\ net[s] # <<>> /\ Head(net[s]).age < MaxDelay =>
                /\ Older(net[s], MaxDelay) # <<>>
                /\ Head(Older(net[s], MaxDelay)).age = Head(net[s]).age + 1
      BY <1>3, <2>1, Aged
    <2> QED BY <2>1, <2>2, <2>3, <2>4
  <1>8. ASSUME NEW s \in Sides
        PROVE  /\ Len(inbox'[s]) = Len(inbox[s])
               /\ \A i \in 1 .. Len(inbox[s]) : inbox'[s][i].kind = inbox[s][i].kind
               /\ inbox[s] = <<>> => inbox'[s] = <<>>
    <2>1. inbox'[s] = Older(inbox[s], TTL + 1) /\ inbox[s] \in Seq(Messages)
      BY <1>1 DEF Pass, TypeOK
    <2> QED BY <1>3, <2>1, Aged
  <1>9. Delays' /\ Kept'
    <2>1. Delays'
      BY <1>1, <1>2, <1>7 DEF Delays
    <2> QED BY <1>2, <2>1 DEF Health, Kept
  <1>10. Endings'
    <2> SUFFICES ASSUME NEW d \in Sides, NEW o \in Sides, d # o, mon[d] = "done", mon[o] # "done"
                 PROVE  broken'[o] \/ (net'[o] # <<>> /\ net'[o][Len(net'[o])].kind = "fin")
      BY <1>2 DEF Endings
    <2>1. CASE broken[o]
      BY <1>2, <2>1
    <2>2. CASE net[o] # <<>> /\ net[o][Len(net[o])].kind = "fin"
      <3>1. Len(net[o]) \in 1 .. Len(net[o])
        BY <1>1, <2>2, Heads
      <3> QED BY <1>7, <2>2, <3>1
    <2> QED BY <2>1, <2>2 DEF Health, Endings
  <1>11. PingsOnly'
    BY <1>2, <1>7, <1>8 DEF Health, PingsOnly
  <1>12. Unstarted'
    <2> SUFFICES ASSUME mon["client"] = "off" PROVE Unstarted'
      BY <1>2 DEF Unstarted
    <2>1. net'["server"] = <<>>
      BY <1>7 DEF Health, Unstarted
    <2>2. ASSUME mon["server"] = "run"
          PROVE  /\ Quiet("server")'
                 /\ waitingAck => Since' + PingEvery <= silence'
                 /\ ~waitingAck => tick' <= silence' /\ net'["client"] = <<>> /\ inbox'["client"] = <<>>
      <3>1. silence' = silence + 1 /\ tick' = tick + 1 /\ Since' = Since + 1
        BY <1>2, <1>4, <2>2
      <3>2. /\ waitingAck => Since + PingEvery <= silence
            /\ ~waitingAck => tick <= silence /\ net["client"] = <<>> /\ inbox["client"] = <<>>
        BY <2>2 DEF Health, Unstarted
      <3>3. waitingAck => Since' + PingEvery <= silence'
        BY <1>3, <3>1, <3>2
      <3>4. ~waitingAck => tick' <= silence'
        BY <1>3, <3>1, <3>2
      <3> QED BY <1>5, <1>6, <1>7, <1>8, <2>2, <3>2, <3>3, <3>4
    <2> QED BY <1>2, <2>1, <2>2 DEF Unstarted
  <1>13. Inboxes'
    <2>1. ASSUME NEW s \in Sides, mon[s] = "run" PROVE AllFresh(s)'
      <3>1. inbox'[s] = <<>> /\ Len(<<>>) = 0
        BY <1>5, <1>6, <2>1 DEF Quiet
      <3> QED BY <3>1 DEF AllFresh
    <2> QED BY <1>2, <2>1 DEF Inboxes
  <1>14. ClientHears'
    <2> SUFFICES ASSUME mon["client"] = "run" PROVE ClientHears'
      BY <1>2 DEF ClientHears
    <2>1. silence' = silence + 1 /\ Quiet("client")
      BY <1>2, <1>5
    <2>2. CASE net["client"] # <<>>
      <3>1. silence <= PingEvery + Head(net["client"]).age
        BY <2>1, <2>2 DEF Health, ClientHears
      <3>2. /\ net'["client"] # <<>> /\ Head(net["client"]).age < MaxDelay
            /\ Head(net["client"]).age \in Nat
            /\ Head(net'["client"]).age = Head(net["client"]).age + 1
        BY <1>7, <2>2
      <3>3. silence' <= PingEvery + Head(net'["client"]).age /\ silence' <= PingEvery + MaxDelay
        <4>1. \A n, a \in Nat : n <= PingEvery + a /\ a < MaxDelay =>
                 n + 1 <= PingEvery + (a + 1) /\ n + 1 <= PingEvery + MaxDelay
          BY <1>3
        <4>2. /\ silence + 1 <= PingEvery + (Head(net["client"]).age + 1)
              /\ silence + 1 <= PingEvery + MaxDelay
          BY <1>3, <3>1, <3>2, <4>1
        <4> QED BY <2>1, <3>2, <4>2
      <3> QED BY <3>2, <3>3 DEF ClientHears
    <2>3. CASE net["client"] = <<>>
      <3>1. mon["server"] = "run" /\ silence <= tick
        BY <2>1, <2>3 DEF Health, ClientHears
      <3>2. tick' = tick + 1 /\ tick < PingEvery
        BY <1>2, <1>4, <3>1
      <3>3. silence' <= tick' /\ silence' <= PingEvery + MaxDelay
        BY <1>3, <2>1, <3>1, <3>2
      <3>4. net'["client"] = <<>>
        BY <1>7, <2>3
      <3> QED BY <1>2, <3>1, <3>3, <3>4 DEF ClientHears
    <2> QED BY <2>2, <2>3
  <1>15. ServerHears'
    <2> SUFFICES ASSUME mon["server"] = "run", waitingAck PROVE ServerHears'
      BY <1>2 DEF Health, ServerHears
    <2>1. Since' = Since + 1 /\ tick' = tick + 1 /\ tick < PingEvery /\ Answered
      BY <1>2, <1>4, <1>5 DEF Health, ServerHears
    <2>2. CASE net["server"] # <<>>
      <3>1. Since <= MaxSkew + MaxDelay + Head(net["server"]).age
        BY <2>1, <2>2 DEF Answered
      <3>2. /\ net'["server"] # <<>> /\ Head(net["server"]).age < MaxDelay
            /\ Head(net["server"]).age \in Nat
            /\ Head(net'["server"]).age = Head(net["server"]).age + 1
        BY <1>7, <2>2
      <3>3. /\ Since' <= MaxSkew + MaxDelay + Head(net'["server"]).age
            /\ Since' <= MaxSkew + 2 * MaxDelay
        <4>1. \A n, a \in Nat : n <= MaxSkew + MaxDelay + a /\ a < MaxDelay =>
                 n + 1 <= MaxSkew + MaxDelay + (a + 1) /\ n + 1 <= MaxSkew + 2 * MaxDelay
          BY <1>3
        <4>2. /\ Since + 1 <= MaxSkew + MaxDelay + (Head(net["server"]).age + 1)
              /\ Since + 1 <= MaxSkew + 2 * MaxDelay
          BY <1>3, <3>1, <3>2, <4>1
        <4> QED BY <2>1, <3>2, <4>2
      <3> QED BY <1>2, <3>2, <3>3 DEF ServerHears, Answered
    <2>3. CASE net["server"] = <<>> /\ mon["client"] = "off"
      <3>1. Since + PingEvery <= silence /\ silence <= MaxSkew
        BY <2>3 DEF Health, Unstarted, ClockInv, ClientClock
      <3>2. Since' <= MaxSkew + 2 * MaxDelay
        BY <1>3, <2>1, <3>1
      <3>3. net'["server"] = <<>>
        BY <1>7, <2>3
      <3> QED BY <1>2, <2>3, <3>2, <3>3 DEF ServerHears, Answered
    <2>4. CASE net["server"] = <<>> /\ mon["client"] # "off"
      <3>1. mon["client"] = "run"
        BY <2>1, <2>4 DEF Answered
      <3>2. net'["server"] = <<>> /\ Quiet("client")
        BY <1>5, <1>7, <2>4, <3>1
      <3>3. CASE net["client"] # <<>>
        <4>1. Since <= MaxSkew + Head(net["client"]).age
          BY <2>1, <2>4, <3>1, <3>2, <3>3 DEF Answered
        <4>2. /\ net'["client"] # <<>> /\ Head(net["client"]).age < MaxDelay
              /\ Head(net["client"]).age \in Nat
              /\ Head(net'["client"]).age = Head(net["client"]).age + 1
          BY <1>7, <3>3
        <4>a. Since' = Since + 1
          BY <2>1
        <4>b. /\ Since' <= MaxSkew + Head(net'["client"]).age
              /\ Since' <= MaxSkew + MaxDelay
          <5>1. \A n, a \in Nat : n <= MaxSkew + a /\ a < MaxDelay =>
                   n + 1 <= MaxSkew + (a + 1) /\ n + 1 <= MaxSkew + MaxDelay
            BY <1>3
          <5>2. /\ Since + 1 <= MaxSkew + (Head(net["client"]).age + 1)
                /\ Since + 1 <= MaxSkew + MaxDelay
            BY <1>3, <4>1, <4>2, <5>1
          <5> QED BY <4>2, <4>a, <5>2
        <4>c. Since' <= MaxSkew + 2 * MaxDelay
          BY <1>3, <4>a, <4>b
        <4>3. /\ Since' <= MaxSkew + Head(net'["client"]).age
              /\ Since' <= MaxSkew + MaxDelay /\ Since' <= MaxSkew + 2 * MaxDelay
          BY <4>b, <4>c
        <4> QED BY <1>2, <3>1, <3>2, <4>2, <4>3 DEF ServerHears, Answered
      <3>4. CASE net["client"] = <<>>
        <4>1. Since + PingEvery <= MaxSkew + tick
          BY <2>1, <2>4, <3>1, <3>2, <3>4 DEF Answered
        <4>2. net'["client"] = <<>>
          BY <1>7, <3>4
        <4>3. /\ Since' + PingEvery <= MaxSkew + tick'
              /\ Since' <= MaxSkew + MaxDelay /\ Since' <= MaxSkew + 2 * MaxDelay
          BY <1>3, <2>1, <4>1
        <4> QED BY <1>2, <3>1, <3>2, <4>2, <4>3 DEF ServerHears, Answered
      <3> QED BY <3>3, <3>4
    <2> QED BY <2>2, <2>3, <2>4
  <1> QED BY <1>9, <1>10, <1>11, <1>12, <1>13, <1>14, <1>15 DEF Health

LEMMA HealthInit == Init => HealthInv
  <1> SUFFICES ASSUME Init PROVE Health
    BY DEF HealthInv
  <1> USE SidesAre
  <1>1. /\ mon["server"] = "run" /\ mon["client"] = "off" /\ link = "good" /\ ~waitingAck
        /\ net["server"] = <<>> /\ net["client"] = <<>> /\ inbox["server"] = <<>>
        /\ inbox["client"] = <<>> /\ chan["server"] = <<>> /\ chan["client"] = <<>>
        /\ rdr["server"] = "wait" /\ rdr["client"] = "off" /\ tick = 0 /\ silence = 0
        /\ missed = 0 /\ Len(<<>>) = 0
    BY DEF Init
  <1>2. ~broken["server"] /\ ~broken["client"] /\ Kept
    BY Zenon DEF Init, Kept
  <1>3. Delays /\ Endings /\ PingsOnly
    BY <1>1, <1>2 DEF Delays, Endings, PingsOnly
  <1>4. Unstarted
    BY <1>1, <1>2 DEF Unstarted, Quiet
  <1>5. Inboxes /\ ClientHears /\ ServerHears
    BY <1>1 DEF Inboxes, AllFresh, ClientHears, ServerHears
  <1> QED BY <1>2, <1>3, <1>4, <1>5 DEF Health

LEMMA HealthStep == ClockInv /\ HealthInv /\ [Next]_vars => HealthInv'
  <1> SUFFICES ASSUME ClockInv, HealthInv, [Next]_vars, stalls' = 0 PROVE Health'
    BY DEF HealthInv
  <1>1. stalls = 0 /\ ~Stall
    <2>1. stalls \in Nat
      BY TimingAssumption DEF ClockInv, TypeOK
    <2>2. stalls' = stalls \/ (stalls' = stalls + 1 /\ Stall)
      BY DEF Next, Deliver, Reader, ReaderTakes, ReaderFails, ReaderSends, Shutdown, Monitor,
             ServerTick, ServerReceives, ClientReceives, ClientTimeout, ClientBegins,
             Stall, Resume, Pass, vars, linkVars
    <2>3. ~Stall
      BY <2>1 DEF Stall
    <2> QED BY <2>1, <2>2, <2>3
  <1>2. Health
    BY <1>1 DEF HealthInv
  <1>3. ASSUME NEW s \in Sides, Shutdown(s) PROVE Health'
    <2>1. <<"shutdown", "fin">> \in Seq(Kinds) /\ <<"shutdown", "fin">> # <<>>
      BY KindSeqs
    <2>2. <<"shutdown", "fin">>[Len(<<"shutdown", "fin">>)] = "fin"
      OBVIOUS
    <2>3. /\ mon[s] = "run" /\ Returns(s, FALSE, <<"shutdown", "fin">>)
          /\ UNCHANGED <<link, inbox, broken, rdr, chan, silence, tick, missed, waitingAck>>
      BY <1>3 DEF Shutdown, linkVars, readerVars, serverVars
    <2>4. CASE s = "server"
      BY <1>2, <2>1, <2>2, <2>3, <2>4, HealthServerEnds
    <2>5. CASE s = "client"
      BY <1>2, <2>1, <2>2, <2>3, <2>5, HealthClientEnds
    <2> QED BY <2>4, <2>5, SidesAre
  <1>4. CASE ClientTimeout
    \* The timer never fires: a ping has arrived before.
    <2>1. mon["client"] = "run" /\ silence >= SilenceLimit
      BY <1>4 DEF ClientTimeout, Silent
    <2>2. silence <= PingEvery + MaxDelay
      BY <1>2, <2>1 DEF Health, ClientHears
    <2>3. /\ PingEvery \in Nat /\ MaxDelay \in Nat /\ silence \in Nat /\ SilenceLimit \in Nat
          /\ PingEvery + MaxDelay < SilenceLimit
      BY DelayAssumption, TimingAssumption DEF ClockInv, TypeOK
    <2> QED BY <2>1, <2>2, <2>3
  <1>5. CASE Resume
    BY <1>2, <1>5 DEF Resume, Health, Delays
  <1>6. CASE UNCHANGED vars
    <2>1. /\ UNCHANGED <<link, net, inbox, broken, rdr, held, chan, mon, gaveUp>>
          /\ UNCHANGED <<tick, missed, waitingAck, silence>>
      BY <1>6 DEF vars, linkVars, readerVars, serverVars
    <2> QED BY <1>2, <2>1 DEF Health, Delays, Endings, PingsOnly, Unstarted, Inboxes, AllFresh,
                  ClientHears, ServerHears, Answered, Quiet, Since, Kept
  <1> QED BY <1>1, <1>2, <1>3, <1>4, <1>5, <1>6, HealthDeliver, HealthReader, HealthServerTick,
             HealthServerReceives, HealthClientReceives, HealthClientBegins, HealthPass
          DEF Next, Monitor

\* A healthy session is kept, for every ping interval, number of acks that may
\* be missed, timeout and TTL with which the delays of the link agree: on a
\* link that never stalls neither monitorControlStream gives its peer up.
THEOREM HealthySessionKept == Spec => []HealthyKept
  <1>1. ClockInv /\ ClockInv' /\ HealthInv /\ [Next]_vars => HealthInv'
    BY HealthStep
  <1>2. HealthInv => HealthyKept
    BY DEF HealthInv, Health, Kept, HealthyKept
  <1> QED BY <1>1, <1>2, HealthInit, ClockInvariant, PTL DEF Spec
=============================================================================
