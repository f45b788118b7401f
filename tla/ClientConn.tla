----------------------------- MODULE ClientConn -----------------------------
(***************************************************************************)
(* The client's connection life cycle (internal/client: client.go,         *)
(* connect.go, monitor.go, handshake.go, and runClient of cmd/f2p).        *)
(*                                                                         *)
(* A connection manager goroutine works through FindPeer, Connect, hole    *)
(* punching, authentication and service verification; when it succeeds it  *)
(* starts a monitor goroutine and ends; when the monitor ends it starts a  *)
(* manager again.  Stop, called by the signal handler, and the end of the  *)
(* process when ctx is cancelled, may come at any point.  Goroutines are   *)
(* drawn from the set Gos; one action is one critical section, one network *)
(* call, or one wait.                                                      *)
(***************************************************************************)
EXTENDS Integers, FiniteSets

CONSTANTS
    Gos,                  \* goroutine identities
    MaxHolePunchAttempts, \* maxHolePunchAttempts, 3 in the code
    BackoffMin,           \* initial backoff (1 s)
    BackoffMax            \* backoffMax (60 s)

ASSUME AttemptsAssumption ==
    MaxHolePunchAttempts \in Nat /\ MaxHolePunchAttempts > 0
ASSUME BackoffAssumption ==
    /\ BackoffMin \in Nat /\ BackoffMax \in Nat
    /\ 0 < BackoffMin /\ BackoffMin <= BackoffMax

VARIABLES
    pc,         \* where each goroutine is; "off": not running
    attempt,    \* the hole punch attempt each manager is in
    conns,      \* kinds of libp2p connections to the server
    ctrl,       \* which control stream is set: controlStream, quicCtrlClose
    up,         \* that control stream still works
    disp,       \* controlDispatcher (and controlMessager, set with it)
    direct,     \* directConn # nil
    backoff,    \* c.backoff
    cached,     \* hasCachedServerPassword
    started,    \* startServicesOnce has fired
    reason,     \* shutdownReason
    stopping,   \* c.stopping
    cancelled,  \* c.ctx is cancelled
    stop,       \* where Stop is
    held,       \* Stop's copies of controlStream and quicCtrlClose are not nil
    exited      \* the process has ended

streamVars == <<ctrl, up, disp>>
stopVars   == <<stopping, stop, held, exited>>
endVars    == <<reason, cancelled>>
vars == <<pc, attempt, conns, streamVars, direct, backoff, cached, started,
          endVars, stopVars>>

Init ==
    /\ \E g \in Gos : pc = [h \in Gos |-> IF h = g THEN "loop" ELSE "off"]
    /\ attempt = [g \in Gos |-> 0]
    /\ conns = {}
    /\ ctrl = "none" /\ up = FALSE /\ disp = "none"
    /\ direct = FALSE
    /\ backoff = BackoffMin
    /\ cached = FALSE
    /\ started = FALSE
    /\ reason = "none" /\ cancelled = FALSE
    /\ stopping = FALSE /\ stop = "no" /\ held = FALSE /\ exited = FALSE

Goto(g, from, to) == ~exited /\ pc[g] = from /\ pc' = [pc EXCEPT ![g] = to]

\* g goes on to `to` and starts a goroutine at `new` ("go f()").
Spawn(g, from, to, new) ==
    /\ ~exited /\ pc[g] = from
    /\ \E h \in Gos \ {g} :
          /\ pc[h] = "off"
          /\ pc' = [pc EXCEPT ![g] = to, ![h] = new]

SetReason(r) == reason' = IF reason = "none" THEN r ELSE reason

-----------------------------------------------------------------------------
(* The connection manager *)

\* The loop's select when the context is done.
LoopEnds(g) ==
    /\ cancelled
    /\ Goto(g, "loop", "off")
    /\ SetReason("context")
    /\ UNCHANGED <<attempt, conns, streamVars, direct, backoff, cached, started,
                   cancelled, stopVars>>

\* Mutant: the direct connection of the previous cycle is kept.
MutCleanup(g) ==
    /\ ~cancelled
    /\ Goto(g, "loop", "find")
    /\ ctrl' = "none" /\ up' = FALSE /\ disp' = "none"
    /\ conns' = {}
    /\ UNCHANGED <<attempt, direct, backoff, cached, started, endVars, stopVars>>

\* cleanupPreviousConnection: dispatcher, both kinds of control stream, the
\* direct connection and all libp2p connections of the server go.
Cleanup(g) ==
    /\ ~cancelled
    /\ Goto(g, "loop", "find")
    /\ ctrl' = "none" /\ up' = FALSE /\ disp' = "none"
    /\ direct' = FALSE
    /\ conns' = {}
    /\ UNCHANGED <<attempt, backoff, cached, started, endVars, stopVars>>

\* dht.FindPeer, or any later call of connectToServer that changes nothing
\* before it fails.
StepFails(g) ==
    /\ pc[g] \in {"find", "dial", "ctrl", "quicCtrl"}
    /\ Goto(g, pc[g], "failed")
    /\ UNCHANGED <<attempt, conns, streamVars, direct, backoff, cached, started,
                   endVars, stopVars>>

Found(g) ==
    /\ Goto(g, "find", "dial")
    /\ UNCHANGED <<attempt, conns, streamVars, direct, backoff, cached, started,
                   endVars, stopVars>>

\* host.Connect succeeds over a relay, directly, or both; ResetBackoff.
Dialed(g) ==
    /\ Goto(g, "dial", "route")
    /\ conns' \in (SUBSET {"relay", "direct"}) \ {{}}
    /\ backoff' = BackoffMin
    /\ UNCHANGED <<attempt, streamVars, direct, cached, started, endVars,
                   stopVars>>

isRelayConnection == conns # {} /\ "direct" \notin conns

Route(g) ==
    /\ Goto(g, "route", IF isRelayConnection THEN "wait" ELSE "ctrl")
    /\ UNCHANGED <<attempt, conns, streamVars, direct, backoff, cached, started,
                   endVars, stopVars>>

\* waitForDirectConnection: a poll finds the peer no longer relay-only.
Upgraded(g) ==
    /\ ~isRelayConnection
    /\ Goto(g, "wait", "ctrl")
    /\ UNCHANGED <<attempt, conns, streamVars, direct, backoff, cached, started,
                   endVars, stopVars>>

\* ... its deadline passes or ctx is done: the first punching attempt.
NotUpgraded(g) ==
    /\ Goto(g, "wait", "punch")
    /\ attempt' = [attempt EXCEPT ![g] = 1]
    /\ UNCHANGED <<conns, streamVars, direct, backoff, cached, started, endVars,
                   stopVars>>

\* attemptHolePunch succeeds and sets directConn.
Punched(g) ==
    /\ Goto(g, "punch", "quicCtrl")
    /\ direct' = TRUE
    /\ attempt' = [attempt EXCEPT ![g] = 0]
    /\ UNCHANGED <<conns, streamVars, backoff, cached, started, endVars,
                   stopVars>>

\* It fails: again, up to the limit, then connectToServer fails.
PunchFails(g) ==
    /\ Goto(g, "punch",
            IF attempt[g] < MaxHolePunchAttempts THEN "punch" ELSE "failed")
    /\ attempt' = [attempt EXCEPT ![g] =
          IF @ < MaxHolePunchAttempts THEN @ + 1 ELSE 0]
    /\ UNCHANGED <<conns, streamVars, direct, backoff, cached, started, endVars,
                   stopVars>>

\* setupQUICProtocol: control stream, type byte, messager and dispatcher.
QUICControl(g) ==
    /\ direct
    /\ Goto(g, "quicCtrl", "auth")
    /\ ctrl' = "quic" /\ up' = TRUE /\ disp' = "open"
    /\ UNCHANGED <<attempt, conns, direct, backoff, cached, started, endVars,
                   stopVars>>

\* setupLibp2pProtocol: NewStream, on a direct connection (dialling one if
\* there is none), messager and dispatcher.
LibP2PControl(g) ==
    /\ Goto(g, "ctrl", "auth")
    /\ conns' = conns \cup {"direct"}
    /\ ctrl' = "libp2p" /\ up' = TRUE /\ disp' = "open"
    /\ UNCHANGED <<attempt, direct, backoff, cached, started, endVars, stopVars>>

\* AUTH_RESPONSE says yes; the password is remembered if one was asked for.
\* WaitFor hands out what is queued even if the stream has died since.
AuthOk(g) ==
    /\ disp # "none"
    /\ Goto(g, "auth", "verify")
    /\ cached' \in {cached, TRUE}
    /\ UNCHANGED <<attempt, conns, streamVars, direct, backoff, started, endVars,
                   stopVars>>

\* AUTH_RESPONSE says no: the cached password is forgotten.  Any other
\* failure keeps it.  The control stream is closed.
AuthFails(g) ==
    /\ Goto(g, "auth", "failed")
    /\ cached' \in {cached, FALSE}
    /\ up' = FALSE
    /\ UNCHANGED <<attempt, conns, ctrl, disp, direct, backoff, started, endVars,
                   stopVars>>

\* The password prompt, shown only without a cached password, is interrupted.
AuthInterrupted(g) ==
    /\ ~cached
    /\ Goto(g, "auth", "failed")
    /\ SetReason("interrupt")
    /\ cancelled' = TRUE
    /\ UNCHANGED <<attempt, conns, streamVars, direct, backoff, cached, started,
                   stopVars>>

\* verifyServiceConfiguration fails for whatever reason: the client gives up.
VerifyFails(g) ==
    /\ Goto(g, "verify", "failed")
    /\ up' = FALSE
    /\ SetReason("configuration")
    /\ cancelled' = TRUE
    /\ UNCHANGED <<attempt, conns, ctrl, disp, direct, backoff, cached, started,
                   stopVars>>

\* Mutant: the manager loops on instead of handing over.
MutVerified(g) ==
    /\ disp # "none"
    /\ Spawn(g, "verify", "loop", "begin")
    /\ started' = TRUE
    /\ UNCHANGED <<attempt, conns, streamVars, direct, backoff, cached, endVars, stopVars>>

\* All services verified: local services start once, the monitor starts.
Verified(g) ==
    /\ disp # "none"
    /\ Spawn(g, "verify", "ending", "begin")
    /\ started' = TRUE
    /\ UNCHANGED <<attempt, conns, streamVars, direct, backoff, cached, endVars, stopVars>>

\* connectToServer returned nil: ResetBackoff, and the manager is done.
ManagerDone(g) ==
    /\ Goto(g, "ending", "off")
    /\ backoff' = BackoffMin
    /\ UNCHANGED <<attempt, conns, streamVars, direct, cached, started, endVars,
                   stopVars>>

\* connectToServer failed: return if ctx is done, else wait out the backoff.
AfterFailure(g) ==
    /\ Goto(g, "failed", IF cancelled THEN "off" ELSE "sleep")
    /\ UNCHANGED <<attempt, conns, streamVars, direct, backoff, cached, started,
                   endVars, stopVars>>

\* Mutant: the cap is forgotten.
MutIncreaseBackoff == backoff' = (3 * backoff) \div 2

IncreaseBackoff ==
    LET next == (3 * backoff) \div 2
    IN  backoff' = IF next > BackoffMax THEN BackoffMax ELSE next

SleepOver(g) ==
    /\ Goto(g, "sleep", "loop")
    /\ IncreaseBackoff
    /\ UNCHANGED <<attempt, conns, streamVars, direct, cached, started, endVars,
                   stopVars>>

SleepCut(g) ==
    /\ cancelled
    /\ Goto(g, "sleep", "off")
    /\ UNCHANGED <<attempt, conns, streamVars, direct, backoff, cached, started,
                   endVars, stopVars>>

-----------------------------------------------------------------------------
(* The monitor *)

\* It needs a control stream and a dispatcher to watch.
MonitorBegins(g) ==
    /\ Goto(g, "begin", IF ctrl = "none" \/ disp = "none" THEN "defer" ELSE "watch")
    /\ UNCHANGED <<attempt, conns, streamVars, direct, backoff, cached, started,
                   endVars, stopVars>>

\* Mutant: a broken stream does not end the wait for the next heartbeat.
MutMonitorLoses(g) ==
    /\ disp # "open"
    /\ Goto(g, "watch", "closing")
    /\ UNCHANGED <<attempt, conns, streamVars, direct, backoff, cached, started,
                   endVars, stopVars>>

\* The dispatcher reports an error, or heartbeats stop coming, or the ack
\* cannot be sent.
MonitorLoses(g) ==
    /\ ~up \/ disp # "open"
    /\ Goto(g, "watch", "closing")
    /\ UNCHANGED <<attempt, conns, streamVars, direct, backoff, cached, started,
                   endVars, stopVars>>

\* The 25 s heartbeat timer fires on a stream that looks alive.
HeartbeatTimeout(g) ==
    /\ Goto(g, "watch", "closing")
    /\ UNCHANGED <<attempt, conns, streamVars, direct, backoff, cached, started,
                   endVars, stopVars>>

\* SERVER_SHUTDOWN arrives: nothing is closed.
ServerShutdown(g) ==
    /\ Goto(g, "watch", "deferDown")
    /\ UNCHANGED <<attempt, conns, streamVars, direct, backoff, cached, started,
                   endVars, stopVars>>

MonitorCancelled(g) ==
    /\ cancelled
    /\ Goto(g, "watch", "defer")
    /\ UNCHANGED <<attempt, conns, streamVars, direct, backoff, cached, started,
                   endVars, stopVars>>

\* closeControlStream: the stream, then the direct connection if there is
\* one, else all libp2p connections of the server.
CloseControl(g) ==
    /\ Goto(g, "closing", "defer")
    /\ up' = FALSE
    /\ direct' = FALSE
    /\ conns' = IF direct THEN conns ELSE {}
    /\ UNCHANGED <<attempt, ctrl, disp, backoff, cached, started, endVars,
                   stopVars>>

\* The deferred function looks at stopping first; after a server shutdown it
\* then sleeps 10 s.
Defer(g) ==
    /\ \/ Goto(g, "defer", IF stopping THEN "off" ELSE "respawn")
       \/ Goto(g, "deferDown", IF stopping THEN "off" ELSE "nap")
    /\ UNCHANGED <<attempt, conns, streamVars, direct, backoff, cached, started,
                   endVars, stopVars>>

NapOver(g) ==
    /\ Goto(g, "nap", "respawn")
    /\ UNCHANGED <<attempt, conns, streamVars, direct, backoff, cached, started,
                   endVars, stopVars>>

Respawn(g) ==
    /\ Spawn(g, "respawn", "off", "loop")
    /\ UNCHANGED <<attempt, conns, streamVars, direct, backoff, cached, started,
                   endVars, stopVars>>

-----------------------------------------------------------------------------
(* Stop and the end of the process *)

StopGoto(from, to) == ~exited /\ stop = from /\ stop' = to

\* The signal handler sets the reason; Stop copies the streams under the lock.
StopBegins ==
    /\ StopGoto("no", "flag")
    /\ SetReason("signal")
    /\ held' = (ctrl # "none")
    /\ UNCHANGED <<pc, attempt, conns, streamVars, direct, backoff, cached,
                   started, cancelled, stopping, exited>>

\* stopping.Store(true), then c.controlMessager is tested without the lock.
StopFlags ==
    /\ StopGoto("flag", IF held /\ disp # "none" THEN "send" ELSE "close")
    /\ stopping' = TRUE
    /\ UNCHANGED <<pc, attempt, conns, streamVars, direct, backoff, cached,
                   started, endVars, held, exited>>

\* c.controlMessager is read again and used: nil by now is a panic.
StopSends ==
    /\ StopGoto("send", IF disp = "none" THEN "panic" ELSE "close")
    /\ exited' = (disp = "none")
    /\ UNCHANGED <<pc, attempt, conns, streamVars, direct, backoff, cached,
                   started, endVars, stopping, held>>

\* The copied streams are closed, then the present dispatcher.
StopCloses ==
    /\ StopGoto("close", "cancel")
    /\ up' = (up /\ ~held)
    /\ disp' = IF disp = "none" THEN "none" ELSE "closed"
    /\ UNCHANGED <<pc, attempt, conns, ctrl, direct, backoff, cached, started,
                   endVars, stopping, held, exited>>

\* Mutant: Stop forgets to cancel the context.
MutStopCancels ==
    /\ StopGoto("cancel", "direct")
    /\ UNCHANGED <<pc, attempt, conns, streamVars, direct, backoff, cached,
                   started, endVars, stopping, held, exited>>

StopCancels ==
    /\ StopGoto("cancel", "direct")
    /\ cancelled' = TRUE
    /\ UNCHANGED <<pc, attempt, conns, streamVars, direct, backoff, cached,
                   started, reason, stopping, held, exited>>

\* cleanupDirectConn, dht.Close and host.Close.
StopCleans ==
    /\ StopGoto("direct", "done")
    /\ direct' = FALSE
    /\ conns' = {}
    /\ up' = FALSE
    /\ UNCHANGED <<pc, attempt, ctrl, disp, backoff, cached, started, endVars,
                   stopping, held, exited>>

\* runClient: Wait returns as soon as ctx is done, whoever cancelled it and
\* however far Stop is.
Exit ==
    /\ cancelled /\ ~exited
    /\ exited' = TRUE
    /\ UNCHANGED <<pc, attempt, conns, streamVars, direct, backoff, cached,
                   started, endVars, stopping, stop, held>>

-----------------------------------------------------------------------------
(* The network and the local services *)

\* libp2p connections come (DCUtR) and go; a control stream over libp2p
\* lives on a direct connection.
ConnsChange ==
    /\ ~exited
    /\ \/ conns' = conns \ {"relay"}
       \/ conns' = conns \ {"direct"}
       \/ "relay" \in conns /\ conns' = conns \cup {"direct"}
    /\ conns' # conns
    /\ up' = (up /\ (ctrl = "libp2p" => "direct" \in conns'))
    /\ UNCHANGED <<pc, attempt, ctrl, disp, direct, backoff, cached, started,
                   endVars, stopVars>>

\* The control stream breaks or the server closes it.
ControlDies ==
    /\ ~exited
    /\ up
    /\ up' = FALSE
    /\ UNCHANGED <<pc, attempt, conns, ctrl, disp, direct, backoff, cached,
                   started, endVars, stopVars>>

\* openDataStream changes nothing here; this is what it would use: the
\* direct connection if it is set, else libp2p, limited (relay) connections
\* allowed.
openDataStream ==
    IF direct THEN "quic"
    ELSE IF "direct" \in conns THEN "direct"
    ELSE IF isRelayConnection THEN "relay" ELSE "none"

Ended == exited /\ UNCHANGED vars

-----------------------------------------------------------------------------
\* What the goroutine g does by itself: its own steps and its timers.
Progress(g) ==
    \/ LoopEnds(g) \/ Cleanup(g) \/ Route(g) \/ NotUpgraded(g)
    \/ ManagerDone(g) \/ AfterFailure(g) \/ SleepOver(g) \/ SleepCut(g)
    \/ MonitorBegins(g) \/ MonitorLoses(g) \/ MonitorCancelled(g)
    \/ CloseControl(g) \/ Defer(g) \/ NapOver(g) \/ Respawn(g)

\* What depends on the server, the network or the user, failing included: not
\* every call of a cycle has a deadline (FindPeer, the signalling of an attempt
\* and the password prompt have none).
Luck(g) ==
    \/ StepFails(g) \/ PunchFails(g) \/ AuthFails(g) \/ VerifyFails(g)
    \/ Found(g) \/ Dialed(g) \/ Upgraded(g) \/ Punched(g) \/ QUICControl(g)
    \/ LibP2PControl(g) \/ AuthOk(g) \/ AuthInterrupted(g) \/ Verified(g)
    \/ HeartbeatTimeout(g) \/ ServerShutdown(g)

StopStep == StopFlags \/ StopSends \/ StopCloses \/ StopCancels \/ StopCleans

Next ==
    \/ \E g \in Gos : Progress(g) \/ Luck(g)
    \/ StopBegins \/ StopStep \/ Exit
    \/ ConnsChange \/ ControlDies
    \/ Ended

\* Goroutines that can run do, and timers fire.  No call of a cycle need ever
\* return.
Fairness ==
    /\ \A g \in Gos : WF_vars(Progress(g))
    /\ WF_vars(StopStep)
    /\ WF_vars(Exit)

Spec     == Init /\ [][Next]_vars
FairSpec == Spec /\ Fairness

-----------------------------------------------------------------------------
(* Properties *)

ManagerPCs == {"loop", "find", "dial", "route", "wait", "punch", "quicCtrl",
               "ctrl", "auth", "verify", "failed", "sleep"}
MonitorPCs == {"begin", "watch", "closing", "defer", "deferDown", "nap",
               "respawn"}

\* Goroutines that own the connection: managers and monitors, but not a
\* manager that has handed over.
Owner(g) == pc[g] \in ManagerPCs \cup MonitorPCs

\* Type invariant, with the range of the backoff and of the attempts.
TypeOK ==
    /\ pc \in [Gos -> ManagerPCs \cup MonitorPCs \cup {"ending", "off"}]
    /\ attempt \in [Gos -> 0 .. MaxHolePunchAttempts]
    /\ conns \in SUBSET {"relay", "direct"}
    /\ ctrl \in {"none", "libp2p", "quic"}
    /\ up \in BOOLEAN
    /\ disp \in {"none", "open", "closed"}
    /\ direct \in BOOLEAN
    /\ backoff \in BackoffMin .. BackoffMax
    /\ cached \in BOOLEAN
    /\ started \in BOOLEAN
    /\ reason \in {"none", "context", "interrupt", "configuration", "signal"}
    /\ stopping \in BOOLEAN
    /\ cancelled \in BOOLEAN
    /\ stop \in {"no", "flag", "send", "close", "cancel", "direct", "done",
                 "panic"}
    /\ held \in BOOLEAN
    /\ exited \in BOOLEAN

\* Two goroutines never drive the connection at once: no second manager can
\* clear the fields a cycle is using.
AtMostOneOwner == \A g, h \in Gos : Owner(g) /\ Owner(h) => g = h

\* Until it is stopped or cancelled, somebody always drives the connection:
\* no path through failures, hand-overs and server shutdowns leaves the
\* client disconnected and idle.
SomeOwner == stopping \/ cancelled \/ \E g \in Gos : Owner(g)

\* Exactly one goroutine drives the connection while the client runs: every
\* hand-over between connection manager and monitor starts its successor, and
\* starts it once.
OneOwner == AtMostOneOwner /\ SomeOwner

\* A watched session and the data path agree: data streams use the direct
\* QUIC connection exactly if the control stream is on it.
DataPathMatchesControl ==
    \A g \in Gos :
        pc[g] = "watch" /\ ~cancelled =>
            (openDataStream = "quic" <=> ctrl = "quic")

\* "this project does not use relay for data transfer".
NoDataOverRelay == started => openDataStream # "relay"

\* A monitored control stream that breaks leads to a new connection cycle,
\* or the client is ending.
Reconnects ==
    (\E g \in Gos : pc[g] = "watch" /\ ~up) ~>
        (\/ \E h \in Gos : pc[h] = "loop"
         \/ stopping \/ cancelled \/ exited)

\* A signal ends the process, whatever the goroutines are doing.
StopExits == (stop # "no") ~> exited

=============================================================================
