----------------------------- MODULE Forwarding -----------------------------
(***************************************************************************)
(* One forwarded connection, end to end: a local application, the client   *)
(* (forward.go, proxy.go), the data stream, the server (handlers_data.go,  *)
(* proxy.go, validateServiceRequest) and the target.  After a one-shot     *)
(* request and response on the stream both processes run pipe.BothWithIdle *)
(* over their two connections.                                             *)
(*                                                                         *)
(*    app --LC--> client --CS--> server --ST--> target                     *)
(*        <-CL--         <-SC--         <-TS--                             *)
(***************************************************************************)
EXTENDS Integers, Sequences

CONSTANTS
    Cap,      \* model bound: chunks in flight on one hop
    MaxUp(_), \* model bound: chunks the local application sends in a case
    MaxDown,  \* model bound: chunks the target sends
    Cases     \* the kinds of connections and requests considered

\* The kind of local connection, stream and framing, and what the server's
\* configuration says of the request.
Case == [udp : BOOLEAN, quic : BOOLEAN, zstd : BOOLEAN,
         known : BOOLEAN, enabled : BOOLEAN, protocol : BOOLEAN,
         password : {"none", "missing", "wrong", "right"}]

ASSUME BoundAssumption ==
    /\ Cap \in Nat \ {0} /\ MaxDown \in Nat
    /\ Cases \subseteq Case
    /\ \A c \in Cases : MaxUp(c) \in Nat

VARIABLES
    case,            \* the case at hand; never changes
    cl, sv,          \* where the two handlers are
    open,            \* which ends of connections are open
    broken,          \* the stream is reset, or its connection lost
    hop,             \* chunks and handshake messages in flight
    loop, buf,       \* the copy loops and what each has read
    done,            \* tokens in the done channels
    watch,           \* the idle watchers
    sentUp, sentDown, gotUp, gotDown  \* last chunk sent, and received

appVars == <<sentUp, sentDown, gotUp, gotDown>>
pipeVars == <<loop, buf, done, watch>>
vars == <<case, cl, sv, open, broken, hop, pipeVars, appVars>>

\* SERVICE_REQUEST and the two SERVICE_RESPONSEs; chunks are numbered from 1.
Req == -1
Ok  == -2
No  == -3

Procs == {"client", "server"}
Loops == {"cUp", "cDown", "sUp", "sDown"}
Hops  == {"LC", "CS", "ST", "TS", "SC", "CL"}
Ends  == {"app", "local", "streamC", "streamS", "target", "peer"}

ProcOf(l) == IF l \in {"cUp", "cDown"} THEN "client" ELSE "server"
EndsOf(p) == IF p = "client" THEN {"local", "streamC"} ELSE {"streamS", "target"}

\* A loop reads hop Src at its end SrcEnd, whose other end is SrcPeer.
Src  == [cUp |-> "LC", sUp |-> "CS", sDown |-> "TS", cDown |-> "SC"]
Dst  == [cUp |-> "CS", sUp |-> "ST", sDown |-> "SC", cDown |-> "CL"]
SrcEnd  == [cUp |-> "local", sUp |-> "streamS", sDown |-> "target",
            cDown |-> "streamC"]
SrcPeer == [cUp |-> "app", sUp |-> "streamC", sDown |-> "peer",
            cDown |-> "streamS"]
DstEnd  == [cUp |-> "streamC", sUp |-> "target", sDown |-> "streamS",
            cDown |-> "local"]
DstPeer == [cUp |-> "streamS", sUp |-> "peer", sDown |-> "streamC",
            cDown |-> "app"]

ReadAt  == [LC |-> "local", CS |-> "streamS", ST |-> "peer",
            TS |-> "target", SC |-> "streamC", CL |-> "app"]

Streams == {"streamC", "streamS"}

Init ==
    /\ case \in Cases
    /\ cl = "open" /\ sv = "none"
    /\ open = [e \in Ends |-> e \in {"app", "local"}]
    /\ broken = FALSE
    /\ hop = [h \in Hops |-> <<>>]
    /\ loop = [l \in Loops |-> "off"]
    /\ buf = [l \in Loops |-> 0]
    /\ done = [p \in Procs |-> 0]
    /\ watch = [p \in Procs |-> FALSE]
    /\ sentUp = 0 /\ sentDown = 0 /\ gotUp = 0 /\ gotDown = 0

-----------------------------------------------------------------------------
(* validateServiceRequest *)

\* The checks in the order of the code; the first that fails is the answer.
ServiceAllowed(r) ==
    IF ~r.known THEN FALSE
    ELSE IF ~r.enabled THEN FALSE
    ELSE IF ~r.protocol THEN FALSE
    ELSE r.password \notin {"missing", "wrong"}

-----------------------------------------------------------------------------
(* The client's handler: handleLocalConnForProtocol *)

\* A closed end cannot be read; Close of a QUIC stream ends only its writing.
Readable(e) == open[e] \/ (case.quic /\ e \in Streams)

\* What has not been read at an end that can no longer be read is gone.
Close(es) ==
    /\ open' = [e \in Ends |-> open[e] /\ e \notin es]
    /\ hop' = [h \in Hops |->
                 IF ReadAt[h] \in es /\ ~(case.quic /\ ReadAt[h] \in Streams)
                 THEN <<>> ELSE hop[h]]

Put(h, m) == hop' = [hop EXCEPT ![h] = Append(@, m)]

\* It returns: the stream is closed if there is one, the local connection by
\* the deferred Close.
ClientReturns == cl' = "done" /\ Close({"local", "streamC"})

\* openDataStream fails, or opens the stream on which the server's handler
\* will start.
ClientOpens ==
    /\ cl = "open"
    /\ \/ ClientReturns
       \/ /\ cl' = "request"
          /\ open' = [open EXCEPT !["streamC"] = TRUE]
          /\ hop' = hop
    /\ UNCHANGED <<case, sv, broken, pipeVars, appVars>>

\* checkServiceAvailability: SendServiceRequest, which fails on a dead stream.
ClientRequests ==
    /\ cl = "request"
    /\ IF broken
       THEN ClientReturns
       ELSE cl' = "await" /\ Put("CS", Req) /\ open' = open
    /\ UNCHANGED <<case, sv, broken, pipeVars, appVars>>

StartLoops(p) ==
    /\ loop' = [l \in Loops |-> IF ProcOf(l) = p THEN "read" ELSE loop[l]]
    /\ watch' = [watch EXCEPT ![p] = TRUE]
    /\ UNCHANGED <<buf, done>>

\* ReceiveOne takes exactly the response; on success proxyConnection starts.
ClientAnswered ==
    /\ cl = "await"
    /\ hop["SC"] # <<>>
    /\ IF Head(hop["SC"]) = Ok
       THEN /\ cl' = "pipe" /\ StartLoops("client") /\ open' = open
            /\ hop' = [hop EXCEPT !["SC"] = Tail(@)]
       ELSE ClientReturns /\ UNCHANGED pipeVars
    /\ UNCHANGED <<case, sv, broken, appVars>>


\* The read fails: a dead stream, EOF, or the deadline of 30 s, which needs a
\* connection that supports deadlines: the zstd wrapper does not.
ClientGivesUp ==
    /\ cl = "await"
    /\ \/ broken
       \/ hop["SC"] = <<>> /\ sv # "none" /\ ~open["streamS"]
       \/ ~case.zstd
    /\ ClientReturns
    /\ UNCHANGED <<case, sv, broken, pipeVars, appVars>>

-----------------------------------------------------------------------------
(* The server's handler: handleDataStream, handleDataConnection *)

\* The stream arrives: reset if the peer is not authenticated, else served.
ServerAccepts ==
    /\ sv = "none"
    /\ cl # "open" /\ hop["CS"] # <<>> /\ ~broken
    /\ \/ /\ sv' = "await"
          /\ open' = [open EXCEPT !["streamS"] = TRUE]
          /\ broken' = broken
       \/ sv' = "done" /\ broken' = TRUE /\ open' = open
    /\ UNCHANGED <<case, cl, hop, pipeVars, appVars>>

\* ReceiveOne reads one message and not a byte more.
RequestRest(q) == Tail(q)

\* handleServiceHandshake: the request, the checks, the response.  A refused
\* request ends the handler; the stream stays open.
ServerAnswers ==
    /\ sv = "await"
    /\ hop["CS"] # <<>>
    /\ IF ServiceAllowed(case) /\ ~broken
       THEN /\ hop' = [hop EXCEPT !["CS"] = RequestRest(@),
                                  !["SC"] = Append(@, Ok)]
            /\ sv' = "dial"
       ELSE /\ hop' = [hop EXCEPT !["CS"] = RequestRest(@),
                                  !["SC"] = Append(@, No)]
            /\ sv' = "done"
    /\ UNCHANGED <<case, cl, open, broken, pipeVars, appVars>>

\* The request does not come: dead stream, EOF, or the deadline.  Nothing is
\* closed.
ServerGivesUp ==
    /\ sv = "await"
    /\ broken \/ ~case.zstd \/ (hop["CS"] = <<>> /\ ~open["streamC"])
    /\ sv' = "done"
    /\ UNCHANGED <<case, cl, open, broken, hop, pipeVars, appVars>>

\* connectAndProxy: the dial succeeds and BothWithIdle starts ...
ServerDials ==
    /\ sv = "dial"
    /\ sv' = "pipe"
    /\ open' = [open EXCEPT !["target"] = TRUE, !["peer"] = TRUE]
    /\ StartLoops("server")
    /\ UNCHANGED <<case, cl, broken, hop, appVars>>

\* ... or fails, and again nothing is closed.
DialFails ==
    /\ sv = "dial"
    /\ sv' = "done"
    /\ UNCHANGED <<case, cl, open, broken, hop, pipeVars, appVars>>

-----------------------------------------------------------------------------
(* BothWithIdle *)

\* The other end's Close is seen as EOF, except that of a UDP application.
SeesEOF(l) ==
    /\ ~open[SrcPeer[l]]
    /\ ~(case.udp /\ SrcPeer[l] \in {"app", "peer"})

Dead(e) == broken /\ e \in Streams

LoopReads(l) ==
    /\ loop[l] = "read"
    /\ Readable(SrcEnd[l]) /\ ~Dead(SrcEnd[l])
    /\ hop[Src[l]] # <<>>
    /\ buf' = [buf EXCEPT ![l] = Head(hop[Src[l]])]
    /\ hop' = [hop EXCEPT ![Src[l]] = Tail(@)]
    /\ loop' = [loop EXCEPT ![l] = "write"]
    /\ UNCHANGED <<case, cl, sv, open, broken, done, watch, appVars>>

PC(p) == IF p = "client" THEN cl ELSE sv

\* Mutant: a channel without slots: a token needs a waiting reader.
MutLoopEnds(l) ==
    /\ PC(ProcOf(l)) = "pipe" /\ done[ProcOf(l)] = 0
    /\ done' = [done EXCEPT ![ProcOf(l)] = @ + 1]
    /\ loop' = [loop EXCEPT ![l] = "ended"]
    /\ buf' = [buf EXCEPT ![l] = 0]
    /\ UNCHANGED <<case, cl, sv, open, broken, hop, watch, appVars>>

\* Mutant: the loop reports its end and reads on.
MutLoopReports(l) ==
    /\ done' = [done EXCEPT ![ProcOf(l)] = @ + 1]
    /\ loop' = [loop EXCEPT ![l] = "read"]
    /\ buf' = [buf EXCEPT ![l] = 0]
    /\ UNCHANGED <<case, cl, sv, open, broken, hop, watch, appVars>>

\* The loop breaks off and sends its token, for which the channel of two
\* slots has room: done <- struct{}{}.
LoopEnds(l) ==
    /\ done[ProcOf(l)] < 2
    /\ done' = [done EXCEPT ![ProcOf(l)] = @ + 1]
    /\ loop' = [loop EXCEPT ![l] = "ended"]
    /\ buf' = [buf EXCEPT ![l] = 0]
    /\ UNCHANGED <<case, cl, sv, open, broken, hop, watch, appVars>>

LoopReadFails(l) ==
    /\ loop[l] = "read"
    /\ \/ ~Readable(SrcEnd[l]) \/ Dead(SrcEnd[l])
       \/ hop[Src[l]] = <<>> /\ SeesEOF(l)
    /\ LoopEnds(l)

\* Mutant: what does not fit is dropped.
MutLoopWrites(l) ==
    /\ loop[l] = "write"
    /\ open[DstEnd[l]] /\ ~Dead(DstEnd[l])
    /\ IF open[DstPeer[l]] /\ Len(hop[Dst[l]]) < Cap
       THEN Put(Dst[l], buf[l]) ELSE hop' = hop
    /\ loop' = [loop EXCEPT ![l] = "read"]
    /\ buf' = [buf EXCEPT ![l] = 0]
    /\ UNCHANGED <<case, cl, sv, open, broken, done, watch, appVars>>

\* What was read is written before anything else is read; what goes to a
\* closed other end may still be accepted, and is lost.
LoopWrites(l) ==
    /\ loop[l] = "write"
    /\ open[DstEnd[l]] /\ ~Dead(DstEnd[l])
    /\ \/ open[DstPeer[l]] /\ Len(hop[Dst[l]]) < Cap /\ Put(Dst[l], buf[l])
       \/ ~open[DstPeer[l]] /\ hop' = hop
    /\ loop' = [loop EXCEPT ![l] = "read"]
    /\ buf' = [buf EXCEPT ![l] = 0]
    /\ UNCHANGED <<case, cl, sv, open, broken, done, watch, appVars>>

LoopWriteFails(l) ==
    /\ loop[l] = "write"
    /\ ~open[DstEnd[l]] \/ ~open[DstPeer[l]] \/ Dead(DstEnd[l])
    /\ LoopEnds(l)

\* Mutant: only the side whose copying ended is closed.
MutClosedBy(p) == {"local", "target"}

ClosedBy(p) == EndsOf(p)

SetPC(p, s) ==
    /\ cl' = IF p = "client" THEN s ELSE cl
    /\ sv' = IF p = "server" THEN s ELSE sv

\* <-done, close(stop), both Closes, and the handler returns.  The token is
\* taken; the second one stays in the channel.
PipeReturns(p) ==
    /\ PC(p) = "pipe"
    /\ done[p] > 0
    /\ done' = [done EXCEPT ![p] = @ - 1]
    /\ watch' = [watch EXCEPT ![p] = FALSE]
    /\ Close(ClosedBy(p))
    /\ SetPC(p, "done")
    /\ UNCHANGED <<case, broken, loop, buf, appVars>>

\* The idle watcher closes both connections and ends.  How long the last
\* read or write lies back is not modelled: the loops may be slow, and the
\* applications silent, for any time.
WatcherFires(p) ==
    /\ watch[p]
    /\ watch' = [watch EXCEPT ![p] = FALSE]
    /\ Close(EndsOf(p))
    /\ UNCHANGED <<case, cl, sv, broken, loop, buf, done, appVars>>

-----------------------------------------------------------------------------
(* The applications and the network *)

AppSends ==
    /\ open["app"]
    /\ sentUp < MaxUp(case) /\ Len(hop["LC"]) < Cap
    /\ sentUp' = sentUp + 1
    /\ Put("LC", sentUp + 1)
    /\ UNCHANGED <<case, cl, sv, open, broken, pipeVars, sentDown, gotUp, gotDown>>

PeerSends ==
    /\ open["peer"]
    /\ sentDown < MaxDown /\ Len(hop["TS"]) < Cap
    /\ sentDown' = sentDown + 1
    /\ Put("TS", sentDown + 1)
    /\ UNCHANGED <<case, cl, sv, open, broken, pipeVars, sentUp, gotUp, gotDown>>

AppReceives ==
    /\ open["app"] /\ hop["CL"] # <<>>
    /\ gotDown' = Head(hop["CL"])
    /\ hop' = [hop EXCEPT !["CL"] = Tail(@)]
    /\ UNCHANGED <<case, cl, sv, open, broken, pipeVars, sentUp, sentDown, gotUp>>

PeerReceives ==
    /\ open["peer"] /\ hop["ST"] # <<>>
    /\ gotUp' = Head(hop["ST"])
    /\ hop' = [hop EXCEPT !["ST"] = Tail(@)]
    /\ UNCHANGED <<case, cl, sv, open, broken, pipeVars, sentUp, sentDown, gotDown>>

AppCloses(e) ==
    /\ e \in {"app", "peer"} /\ open[e]
    /\ Close({e})
    /\ UNCHANGED <<case, cl, sv, broken, pipeVars, appVars>>

StreamBreaks ==
    /\ open["streamC"] /\ ~broken
    /\ broken' = TRUE
    /\ UNCHANGED <<case, cl, sv, open, hop, pipeVars, appVars>>

-----------------------------------------------------------------------------
LoopStep(l) ==
    \/ LoopReads(l) \/ LoopReadFails(l)
    \/ LoopWrites(l) \/ LoopWriteFails(l)

ClientStep == ClientOpens \/ ClientRequests \/ ClientAnswered \/ ClientGivesUp
ServerStep == ServerAnswers \/ ServerGivesUp \/ ServerDials \/ DialFails

\* What the two processes do by themselves.
Run ==
    \/ ClientStep \/ ServerStep
    \/ \E l \in Loops : LoopStep(l)
    \/ \E p \in Procs : PipeReturns(p) \/ WatcherFires(p)

Environment ==
    \/ ServerAccepts
    \/ AppSends \/ PeerSends \/ AppReceives \/ PeerReceives
    \/ \E e \in Ends : AppCloses(e)
    \/ StreamBreaks

Next == Run \/ Environment

\* The processes do not stand still while a goroutine can run or a deadline
\* or an idle timeout can pass.  Applications need not read, send or close,
\* the server need not accept, the network need not fail.
Fairness == WF_vars(Run)

Spec     == Init /\ [][Next]_vars
FairSpec == Spec /\ Fairness

-----------------------------------------------------------------------------
(* Properties *)

Items == (1 .. MaxUp(case)) \cup (1 .. MaxDown) \cup {Req, Ok, No}

\* Type invariant.
TypeOK ==
    /\ case \in Cases
    /\ cl \in {"open", "request", "await", "pipe", "done"}
    /\ sv \in {"none", "await", "dial", "pipe", "done"}
    /\ open \in [Ends -> BOOLEAN] /\ broken \in BOOLEAN
    /\ hop \in [Hops -> Seq(Items)]
    /\ loop \in [Loops -> {"off", "read", "write", "ended"}]
    /\ buf \in [Loops -> Items \cup {0}]
    /\ done \in [Procs -> 0 .. 2]
    /\ watch \in [Procs -> BOOLEAN]
    /\ sentUp \in 0 .. MaxUp(case) /\ sentDown \in 0 .. MaxDown
    /\ gotUp \in 0 .. MaxUp(case) /\ gotDown \in 0 .. MaxDown

\* The reference for validateServiceRequest, and the tunnel the two
\* applications see.
Allowed == /\ case.known /\ case.enabled /\ case.protocol
           /\ case.password \in {"none", "right"}

TunnelOf == INSTANCE Tunnel WITH
    allowed <- Allowed,
    granted <- (loop["sUp"] # "off")

\* Forwarding implements Tunnel: the target is connected only for a request
\* the configuration allows, and neither a handshake message nor a chunk out
\* of order reaches an application, over both pipes and the stream, whatever
\* closes, breaks or times out on the way.
ImplementsTunnel == TunnelOf!Spec


\* A server that got as far as copying closes both its connections, whichever
\* of the two ends, breaks or falls silent.
ServerReleases ==
    (sv = "pipe") ~> (sv = "done" /\ ~open["target"] /\ ~open["streamS"])

\* No copy loop of a libp2p stream outlives its pipe: the second one, too,
\* can report and end.
LoopsEnd ==
    (~case.quic /\ \E l \in Loops : loop[l] # "off") ~>
        (\A l \in Loops : loop[l] \in {"off", "ended"})

=============================================================================
