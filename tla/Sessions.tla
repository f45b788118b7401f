------------------------------ MODULE Sessions ------------------------------
(***************************************************************************)
(* The server's registry of authenticated clients                          *)
(* (internal/server: handlers_control.go, handlers_holepunch.go,           *)
(* handlers_data.go, info.go, server.go).                                  *)
(*                                                                         *)
(* A session is named by its control stream.  Every control stream has a   *)
(* handler goroutine that authenticates it or lets it replace the peer's   *)
(* present session, registers it, and goes on as its monitor; when the     *)
(* monitor ends it cleans up.  One action is one critical section of       *)
(* clientsMutex, or one call that other goroutines can see the effect of.  *)
(* Streams are libp2p streams, which ClosePeer and host.Close cut, or      *)
(* streams of a hole-punched QUIC connection, which they do not.           *)
(***************************************************************************)
EXTENDS Naturals, FiniteSets

CONSTANTS
    Peers,      \* client peer ids
    Streams,    \* control streams, in the order-free supply of the network
    PeerOf,     \* the peer a stream comes from
    Kind,       \* "libp2p" or "quic"
    None        \* no session

ASSUME StreamAssumption ==
    /\ PeerOf \in [Streams -> Peers]
    /\ Kind \in [Streams -> {"libp2p", "quic"}]
    /\ None \notin Streams

VARIABLES
    clients,     \* authenticatedClients: peer -> session or None
    pc,          \* where each stream's handler or monitor goroutine is
    old,         \* the session a replacing handler took out of the map
    alive,       \* streams neither side has closed or lost
    dispClosed,  \* sessions whose dispatcher was closed
    tagged,      \* peers tagged "authenticated-client" in the ConnManager
    stop,        \* where Stop is
    notifying,   \* sessions whose shutdown notification goroutine runs
    greeted,     \* history: streams on which PASSWORD_REQUIRED was sent
    authed,      \* history: peers that passed handleAuthOnControl
    forwarded    \* history: peers a data stream was accepted from

vars == <<clients, pc, old, alive, dispClosed, tagged, stop, notifying,
          greeted, authed, forwarded>>

netVars  == <<alive, dispClosed, tagged>>
stopVars == <<stop, notifying>>
history  == <<greeted, authed, forwarded>>

LibP2P      == { x \in Streams : Kind[x] = "libp2p" }
LibP2POf(p) == { x \in LibP2P : PeerOf[x] = p }

\* ClientSession.controlStream: nil for a QUIC session.
ControlStream(x) == IF Kind[x] = "libp2p" THEN x ELSE None

\* The server's ctx is done: Stop has cancelled it.
ctxDone == stop = "cancelled"

\* runServer has returned: the process is gone, and its goroutines with it.
Exited == stop = "exited"

Init ==
    /\ clients = [p \in Peers |-> None]
    /\ pc = [x \in Streams |-> "new"]
    /\ old = [x \in Streams |-> None]
    /\ alive = {}
    /\ dispClosed = {}
    /\ tagged = {}
    /\ stop = "running"
    /\ notifying = {}
    /\ greeted = {}
    /\ authed = {}
    /\ forwarded = {}

\* A step of the goroutine of stream x.
Goto(x, from, to) == ~Exited /\ pc[x] = from /\ pc' = [pc EXCEPT ![x] = to]

-----------------------------------------------------------------------------
(* The handler of a control stream *)

\* A client opens a control stream (libp2p no longer after host.Close; QUIC
\* no longer once AcceptStream's context is cancelled).
Open(x) ==
    /\ Kind[x] = "libp2p" => stop \notin {"hostClosed", "cancelled"}
    /\ ~ctxDone
    /\ Goto(x, "new", "check")
    /\ alive' = alive \cup {x}
    /\ UNCHANGED <<clients, old, dispClosed, tagged, stopVars, history>>

\* Mutant: an unknown client is registered like a known one.
MutCheckExists(x) ==
    /\ Goto(x, "check", IF clients[PeerOf[x]] = None THEN "insert" ELSE "replace")
    /\ UNCHANGED <<clients, old, netVars, stopVars, history>>

\* The RLock section: is the peer in the map?
CheckExists(x) ==
    /\ Goto(x, "check", IF clients[PeerOf[x]] = None THEN "greet" ELSE "replace")
    /\ UNCHANGED <<clients, old, netVars, stopVars, history>>

\* handleAuthOnControl: SendPasswordRequired.
Greet(x) ==
    /\ Goto(x, "greet", IF x \in alive THEN "auth" ELSE "reject")
    /\ greeted' = IF x \in alive THEN greeted \cup {x} ELSE greeted
    /\ UNCHANGED <<clients, old, netVars, stopVars, authed, forwarded>>

\* AUTH_REQUEST with the right password (or none needed), and the positive
\* response could be sent.
AuthOk(x) ==
    /\ x \in alive
    /\ Goto(x, "auth", "insert")
    /\ authed' = authed \cup {PeerOf[x]}
    /\ UNCHANGED <<clients, old, netVars, stopVars, greeted, forwarded>>

\* Timeout, dispatcher error, CLIENT_SHUTDOWN, wrong password, or the
\* response could not be sent.
AuthFail(x) ==
    /\ Goto(x, "auth", "reject")
    /\ UNCHANGED <<clients, old, netVars, stopVars, history>>

\* disp.Close; a QUIC stream is closed at once, a libp2p peer after 500 ms.
Reject(x) ==
    /\ Goto(x, "reject", IF Kind[x] = "quic" THEN "done" ELSE "expel")
    /\ dispClosed' = dispClosed \cup {x}
    /\ alive' = IF Kind[x] = "quic" THEN alive \ {x} ELSE alive
    /\ UNCHANGED <<clients, old, tagged, stopVars, history>>

\* ClosePeer: every libp2p connection of the peer goes, and with it every
\* libp2p stream of the peer.
Expel(x) ==
    /\ Goto(x, "expel", "done")
    /\ alive' = alive \ LibP2POf(PeerOf[x])
    /\ UNCHANGED <<clients, old, dispClosed, tagged, stopVars, history>>

\* The Lock section of the replacing path; the entry may be gone by now.
Replace(x) ==
    /\ Goto(x, "replace", "closeOld")
    /\ old' = [old EXCEPT ![x] = clients[PeerOf[x]]]
    /\ clients' = [clients EXCEPT ![PeerOf[x]] = None]
    /\ UNCHANGED <<netVars, stopVars, history>>

\* Mutant: the replaced session's dispatcher is left running.
MutCloseOld(x) ==
    /\ Goto(x, "closeOld", "insert")
    /\ old' = [old EXCEPT ![x] = None]
    /\ UNCHANGED <<clients, netVars, stopVars, history>>

\* Mutant: the dispatcher is closed although the map had no session.
MutCloseOldNil(x) ==
    /\ Goto(x, "closeOld", "insert")
    /\ dispClosed' = dispClosed \cup {old[x]}
    /\ alive' = IF old[x] = None THEN alive ELSE alive \ {ControlStream(old[x])}
    /\ old' = [old EXCEPT ![x] = None]
    /\ UNCHANGED <<clients, tagged, stopVars, history>>

\* Close the replaced session's dispatcher, and its stream if it has one.
CloseOld(x) ==
    /\ Goto(x, "closeOld", "insert")
    /\ dispClosed' = dispClosed \cup ({old[x]} \ {None})
    /\ alive' = IF old[x] = None THEN alive ELSE alive \ {ControlStream(old[x])}
    /\ old' = [old EXCEPT ![x] = None]
    /\ UNCHANGED <<clients, tagged, stopVars, history>>

Insert(x) ==
    /\ Goto(x, "insert", "tag")
    /\ clients' = [clients EXCEPT ![PeerOf[x]] = x]
    /\ UNCHANGED <<old, netVars, stopVars, history>>

\* ConnManager().TagPeer, then the monitor starts.
Tag(x) ==
    /\ Goto(x, "tag", "monitor")
    /\ tagged' = tagged \cup {PeerOf[x]}
    /\ UNCHANGED <<clients, old, alive, dispClosed, stopVars, history>>

-----------------------------------------------------------------------------
(* The monitor and its deferred cleanup *)

\* The dispatcher reports the end of the stream or its own closing, or the
\* server's context is done.
MonitorSeesEnd(x) ==
    /\ x \notin alive \/ x \in dispClosed \/ ctxDone
    /\ Goto(x, "monitor", "unregister")
    /\ UNCHANGED <<clients, old, netVars, stopVars, history>>

\* The client said CLIENT_SHUTDOWN, missed two heartbeats, or a ping could
\* not be sent.
MonitorGivesUp(x) ==
    /\ Goto(x, "monitor", "unregister")
    /\ UNCHANGED <<clients, old, netVars, stopVars, history>>

\* Mutant: no comparison, the peer's entry is removed whoever it is.
MutOwnsEntry(x) == clients[PeerOf[x]] # None

\* Mutant: the comparison is the wrong way round.
MutOwnsOther(x) ==
    LET current == clients[PeerOf[x]]
    IN  current # None /\ ControlStream(current) # ControlStream(x)

\* current != nil && current.controlStream == clientSession.controlStream
OwnsEntry(x) ==
    LET current == clients[PeerOf[x]]
    IN  current # None /\ ControlStream(current) = ControlStream(x)

Unregister(x) ==
    /\ Goto(x, "unregister", "untag")
    /\ clients' = IF OwnsEntry(x) THEN [clients EXCEPT ![PeerOf[x]] = None]
                  ELSE clients
    /\ UNCHANGED <<old, netVars, stopVars, history>>

\* Mutant: a session that is no longer registered keeps its peer's tag.
MutUntag(x) ==
    /\ Goto(x, "untag", "close")
    /\ tagged' = IF clients[PeerOf[x]] = None THEN tagged \ {PeerOf[x]} ELSE tagged
    /\ UNCHANGED <<clients, old, alive, dispClosed, stopVars, history>>

Untag(x) ==
    /\ Goto(x, "untag", "close")
    /\ tagged' = tagged \ {PeerOf[x]}
    /\ UNCHANGED <<clients, old, alive, dispClosed, stopVars, history>>

\* Close the session's own libp2p stream and its dispatcher, then ClosePeer.
CleanUp(x) ==
    /\ Goto(x, "close", "done")
    /\ dispClosed' = dispClosed \cup {x}
    /\ alive' = alive \ ({ControlStream(x)} \cup LibP2POf(PeerOf[x]))
    /\ UNCHANGED <<clients, old, tagged, stopVars, history>>

-----------------------------------------------------------------------------
(* Data streams, the network, and Stop *)

\* handleDataStream and handleQUICDataStream: only for registered peers.
DataStream(p) ==
    /\ ~Exited
    /\ clients[p] # None
    /\ forwarded' = forwarded \cup {p}
    /\ UNCHANGED <<clients, pc, old, netVars, stopVars, greeted, authed>>

\* The client closes the stream or the connection under it is lost.
StreamDies(x) ==
    /\ x \in alive
    /\ alive' = alive \ {x}
    /\ UNCHANGED <<clients, pc, old, dispClosed, tagged, stopVars, history>>

\* notifyClientsServerShutdown: the sessions of this moment are copied.
StopNotify ==
    /\ stop = "running"
    /\ stop' = "notifying"
    /\ notifying' = { x \in Streams : \E p \in Peers : clients[p] = x }
    /\ UNCHANGED <<clients, pc, old, netVars, history>>

\* One notification goroutine: send, sleep, close the libp2p stream.
Notified(x) ==
    /\ ~Exited
    /\ x \in notifying
    /\ notifying' = notifying \ {x}
    /\ alive' = alive \ {ControlStream(x)}
    /\ UNCHANGED <<clients, pc, old, dispClosed, tagged, stop, history>>

\* After its 500 ms Stop goes on whether or not the goroutines are done.
StopHost ==
    /\ stop = "notifying"
    /\ stop' = "hostClosed"
    /\ alive' = alive \ LibP2P
    /\ UNCHANGED <<clients, pc, old, dispClosed, tagged, notifying, history>>

StopCancel ==
    /\ stop = "hostClosed"
    /\ stop' = "cancelled"
    /\ UNCHANGED <<clients, pc, old, netVars, notifying, history>>

\* Wait returns as soon as ctx is done and runServer with it: the process
\* ends, however far handlers, monitors and notifications are, and its
\* connections go with it.
Exit ==
    /\ ctxDone
    /\ stop' = "exited"
    /\ alive' = {}
    /\ UNCHANGED <<clients, pc, old, dispClosed, tagged, notifying, history>>

\* The rest is silence.
Terminated == Exited /\ UNCHANGED vars

-----------------------------------------------------------------------------
\* The steps a stream's goroutine takes by itself, waiting included: auth
\* ends by its timeout at the latest.
Progress(x) ==
    \/ CheckExists(x) \/ Greet(x) \/ AuthFail(x) \/ Reject(x) \/ Expel(x)
    \/ Replace(x) \/ CloseOld(x) \/ Insert(x) \/ Tag(x)
    \/ MonitorSeesEnd(x) \/ Unregister(x) \/ Untag(x) \/ CleanUp(x)

StopStep == StopHost \/ StopCancel \/ Exit

Next ==
    \/ \E x \in Streams :
          \/ Open(x) \/ Progress(x) \/ AuthOk(x) \/ MonitorGivesUp(x)
          \/ StreamDies(x) \/ Notified(x)
    \/ \E p \in Peers : DataStream(p)
    \/ StopNotify \/ StopStep
    \/ Terminated

\* A goroutine that can run does, as long as the process lives.  No client
\* need ever open, authenticate or close anything, and the server need never
\* be stopped.
Fairness ==
    /\ \A x \in Streams : WF_vars(Progress(x)) /\ WF_vars(Notified(x))
    /\ WF_vars(StopStep)

Spec     == Init /\ [][Next]_vars
FairSpec == Spec /\ Fairness

-----------------------------------------------------------------------------
(* Properties *)

Registered == {"tag", "monitor", "unregister"}

PCs == {"new", "check", "greet", "auth", "reject", "expel", "replace",
        "closeOld", "insert", "tag", "monitor", "unregister", "untag",
        "close", "done"}

\* Type invariant.
TypeOK ==
    /\ clients \in [Peers -> Streams \cup {None}]
    /\ pc \in [Streams -> PCs]
    /\ old \in [Streams -> Streams \cup {None}]
    /\ alive \in SUBSET Streams
    /\ dispClosed \in SUBSET Streams
    /\ tagged \in SUBSET Peers
    /\ stop \in {"running", "notifying", "hostClosed", "cancelled", "exited"}
    /\ notifying \in SUBSET Streams
    /\ greeted \in SUBSET Streams
    /\ authed \in SUBSET Peers
    /\ forwarded \in SUBSET Peers

\* Only peers that passed the password check are registered or forwarded
\* for, even though a stream that finds its peer registered skips the check
\* and acts on that finding after the lock is released.
AuthBeforeService ==
    /\ \A p \in Peers : clients[p] # None => p \in authed
    /\ forwarded \subseteq authed

\* No zombie entries: a registered session belongs to its peer and its
\* monitor has not yet passed its own unregistering, so somebody will still
\* remove the entry.
EntryHasMonitor ==
    \A p \in Peers :
        clients[p] # None => /\ PeerOf[clients[p]] = p
                             /\ pc[clients[p]] \in Registered

\* No leaked protection: a tagged peer has a session that has yet to untag.
TagHasOwner ==
    \A p \in tagged :
        \E x \in Streams : /\ PeerOf[x] = p
                           /\ pc[x] \in {"monitor", "unregister", "untag"}

\* "Pretend removing the new session": a session of kind k that ends removes
\* no entry but its own.
RemovesOnlyOwn(k) ==
    \A x \in Streams :
        /\ Kind[x] = k
        /\ pc[x] = "unregister" /\ pc'[x] = "untag"
        /\ clients[PeerOf[x]] # x
        => clients'[PeerOf[x]] = clients[PeerOf[x]]

\* It holds for the sessions that have a libp2p stream to compare.
LibP2PRemovesOnlyOwn == [][RemovesOnlyOwn("libp2p")]_vars

\* "Replace old one, close it first", "Pretend removing the new session": the
\* cleanup of an ended session leaves the session that took its place
\* registered, tagged and connected.
ReplacementSurvives ==
    [][\A x, y \in Streams :
          /\ pc[x] \in {"unregister", "untag", "close"} /\ pc'[x] # pc[x]
          /\ y # x /\ clients[PeerOf[x]] = y /\ y \in alive
          => /\ clients'[PeerOf[x]] = y
             /\ PeerOf[x] \in tagged => PeerOf[x] \in tagged'
             /\ y \in alive']_vars

\* "It performs auth handshake and then monitors heartbeat": a monitored
\* stream was sent the PASSWORD_REQUIRED its client waits for.
MonitoredWasGreeted ==
    \A x \in Streams : pc[x] = "monitor" => x \in greeted

\* A registered session whose stream is gone is forgotten, so that its peer
\* has to authenticate again, unless the server itself ends first.
DeadSessionForgotten ==
    \A x \in Streams :
        (clients[PeerOf[x]] = x /\ x \notin alive)
            ~> (clients[PeerOf[x]] # x \/ Exited)

\* A session taken out of the map by a newer stream ends, by itself or with
\* the process.
ReplacedEnds ==
    \A y \in Streams :
        (\E x \in Streams : pc[x] = "closeOld" /\ old[x] = y)
            ~> (pc[y] = "done" \/ Exited)

=============================================================================
