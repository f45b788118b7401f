-------------------------- MODULE ClientConnProofs --------------------------
(* Proofs about ClientConn, for any supply of goroutines, any number of    *)
(* punching attempts and any range of the backoff.                         *)
EXTENDS ClientConn, TLAPS

Owners == ManagerPCs \cup MonitorPCs
PCs == Owners \cup {"ending", "off"}

\* g, which drives the connection, moves on, and gives up only when the
\* client is being stopped or cancelled.
Moves(g) ==
    \E to \in PCs :
        /\ pc[g] \in Owners
        /\ pc' = [pc EXCEPT ![g] = to]
        /\ to \in Owners \/ (to = "off" /\ (stopping \/ cancelled))

\* g, which drives the connection, hands it to a new goroutine.
HandsOver(g) ==
    \E h \in Gos \ {g} : \E rest \in {"ending", "off"}, new \in Owners :
        /\ pc[g] \in Owners /\ pc[h] = "off"
        /\ pc' = [pc EXCEPT ![g] = rest, ![h] = new]

\* A manager that has handed over ends.
Leaves(g) == pc[g] = "ending" /\ pc' = [pc EXCEPT ![g] = "off"]

\* Nobody takes back a stop or a cancellation.
Forward == (stopping => stopping') /\ (cancelled => cancelled')

LEMMA StepShape ==
    ASSUME [Next]_vars
    PROVE  /\ Forward
           /\ \/ UNCHANGED pc
              \/ \E g \in Gos : Moves(g) \/ HandsOver(g) \/ Leaves(g)
  <1> DEFINE Goal == /\ Forward
                     /\ \/ UNCHANGED pc
                        \/ \E g \in Gos : Moves(g) \/ HandsOver(g) \/ Leaves(g)
  <1> SUFFICES Goal
    OBVIOUS
  <1> USE DEF Forward, endVars, stopVars, Goto, Owners, ManagerPCs, MonitorPCs, PCs
  <1>1. ASSUME NEW g \in Gos, LoopEnds(g) \/ Cleanup(g) \/ Route(g) PROVE Goal
    BY <1>1 DEF LoopEnds, Cleanup, Route, Moves
  <1>2. ASSUME NEW g \in Gos, StepFails(g) PROVE Goal
    BY <1>2 DEF StepFails, Moves
  <1>3. ASSUME NEW g \in Gos, NotUpgraded(g) \/ PunchFails(g) PROVE Goal
    BY <1>3 DEF NotUpgraded, PunchFails, Moves
  <1>4. ASSUME NEW g \in Gos, AuthFails(g) \/ VerifyFails(g) PROVE Goal
    <2>1. Forward
      <3>1. CASE AuthFails(g)
        BY <3>1 DEF AuthFails
      <3>2. CASE VerifyFails(g)
        <4>1. stopping => stopping'
          BY <3>2 DEF VerifyFails
        <4>2. cancelled'
          BY <3>2, Zenon DEF VerifyFails
        <4> QED BY <4>1, <4>2
      <3> QED BY <1>4, <3>1, <3>2
    <2>2. Moves(g)
      BY <1>4 DEF AuthFails, VerifyFails, Moves
    <2> QED BY <2>1, <2>2
  <1>5. ASSUME NEW g \in Gos, ManagerDone(g) PROVE Goal
    BY <1>5 DEF ManagerDone, Leaves
  <1>6. ASSUME NEW g \in Gos, AfterFailure(g) \/ SleepOver(g) \/ SleepCut(g)
        PROVE  Goal
    BY <1>6 DEF AfterFailure, SleepOver, SleepCut, Moves
  <1>7. ASSUME NEW g \in Gos,
               \/ MonitorBegins(g) \/ MonitorLoses(g) \/ MonitorCancelled(g)
               \/ CloseControl(g) \/ NapOver(g)
        PROVE  Goal
    BY <1>7 DEF MonitorBegins, MonitorLoses, MonitorCancelled, CloseControl,
                NapOver, Moves
  <1>8. ASSUME NEW g \in Gos, Defer(g) PROVE Goal
    BY <1>8 DEF Defer, Moves
  <1>9. ASSUME NEW g \in Gos, Respawn(g) PROVE Goal
    BY <1>9 DEF Respawn, Spawn, HandsOver
  <1>10. ASSUME NEW g \in Gos, Verified(g) PROVE Goal
    <2>1. Forward
      BY <1>10, Zenon DEF Verified
    <2>2. HandsOver(g)
      <3>1. PICK h \in Gos \ {g} : /\ pc[h] = "off"
                                   /\ pc' = [pc EXCEPT ![g] = "ending", ![h] = "begin"]
        BY <1>10 DEF Verified, Spawn
      <3>2. pc[g] = "verify"
        BY <1>10 DEF Verified, Spawn
      <3> QED BY <3>1, <3>2 DEF HandsOver
    <2> QED BY <2>1, <2>2
  <1>11. ASSUME NEW g \in Gos, Found(g) \/ Dialed(g) \/ Upgraded(g) \/ Punched(g)
         PROVE  Goal
    BY <1>11 DEF Found, Dialed, Upgraded, Punched, Moves
  <1>12. ASSUME NEW g \in Gos,
                \/ QUICControl(g) \/ LibP2PControl(g) \/ AuthOk(g)
                \/ AuthInterrupted(g) \/ HeartbeatTimeout(g) \/ ServerShutdown(g)
         PROVE  Goal
    <2>1. Forward
      <3>1. CASE \/ QUICControl(g) \/ LibP2PControl(g) \/ AuthOk(g)
                 \/ HeartbeatTimeout(g) \/ ServerShutdown(g)
        <4>1. UNCHANGED <<stopping, cancelled>>
          BY <3>1 DEF QUICControl, LibP2PControl, AuthOk, HeartbeatTimeout,
                      ServerShutdown
        <4> QED BY <4>1
      <3>2. CASE AuthInterrupted(g)
        <4>1. stopping => stopping'
          BY <3>2 DEF AuthInterrupted
        <4>2. cancelled'
          BY <3>2, Zenon DEF AuthInterrupted
        <4> QED BY <4>1, <4>2
      <3> QED BY <1>12, <3>1, <3>2
    <2>2. Moves(g)
      BY <1>12 DEF QUICControl, LibP2PControl, AuthOk, AuthInterrupted,
                 HeartbeatTimeout, ServerShutdown, Moves
    <2> QED BY <2>1, <2>2
  <1>13. CASE StopBegins \/ StopStep \/ Exit
    BY <1>13 DEF StopBegins, StopStep, StopFlags, StopSends, StopCloses,
                 StopCancels, StopCleans, Exit
  <1>14. CASE ConnsChange \/ ControlDies
    BY <1>14 DEF ConnsChange, ControlDies
  <1>15. CASE UNCHANGED vars
    BY <1>15 DEF vars
  <1> HIDE DEF Goal
  <1>16. ASSUME NEW g \in Gos, Progress(g) PROVE Goal
    BY <1>16, <1>1, <1>3, <1>5, <1>6, <1>7, <1>8, <1>9, Zenon
       DEF Progress
  <1>17. ASSUME NEW g \in Gos, Luck(g) PROVE Goal
    BY <1>17, <1>2, <1>3, <1>4, <1>10, <1>11, <1>12, Zenon DEF Luck
  <1> QED BY <1>13, <1>14, <1>15, <1>16, <1>17, Zenon DEF Next, Ended

OwnerInv ==
    /\ pc \in [Gos -> PCs]
    /\ AtMostOneOwner
    /\ SomeOwner

LEMMA OwnerInvInit == Init => OwnerInv
  <1> SUFFICES ASSUME Init PROVE OwnerInv
    OBVIOUS
  <1>1. PICK g \in Gos : pc = [h \in Gos |-> IF h = g THEN "loop" ELSE "off"]
    BY DEF Init
  <1> QED BY <1>1 DEF OwnerInv, AtMostOneOwner, SomeOwner, Owner, PCs, Owners,
                     ManagerPCs, MonitorPCs

LEMMA OwnerInvStep == OwnerInv /\ [Next]_vars => OwnerInv'
  <1> SUFFICES ASSUME OwnerInv, [Next]_vars PROVE OwnerInv'
    OBVIOUS
  <1>0. "ending" \notin Owners /\ "off" \notin Owners
    BY DEF Owners, ManagerPCs, MonitorPCs
  <1> USE DEF OwnerInv, AtMostOneOwner, SomeOwner, Owner, PCs
  <1>a. \A g \in Gos : /\ Owner(g) <=> pc[g] \in Owners
                       /\ Owner(g)' <=> pc'[g] \in Owners
    BY DEF Owners
  <1>1. Forward
    BY StepShape
  <1>2. CASE UNCHANGED pc
    BY <1>1, <1>2 DEF Forward
  <1>3. ASSUME NEW g \in Gos, Moves(g) PROVE OwnerInv'
    <2>1. PICK to \in PCs : /\ pc[g] \in Owners
                            /\ pc' = [pc EXCEPT ![g] = to]
                            /\ to \in Owners \/ (to = "off" /\ (stopping \/ cancelled))
      BY <1>3 DEF Moves
    <2>2. pc' \in [Gos -> PCs] /\ pc'[g] = to
          /\ \A h \in Gos : h # g => pc'[h] = pc[h]
      BY <2>1
    <2>3. AtMostOneOwner'
      BY <1>a, <2>1, <2>2
    <2>4. SomeOwner'
      BY <1>a, <1>1, <2>1, <2>2 DEF Forward
    <2> QED BY <2>2, <2>3, <2>4
  <1>4. ASSUME NEW g \in Gos, HandsOver(g) PROVE OwnerInv'
    <2>1. PICK h \in Gos \ {g} : \E rest \in {"ending", "off"}, new \in Owners :
                /\ pc[g] \in Owners /\ pc[h] = "off"
                /\ pc' = [pc EXCEPT ![g] = rest, ![h] = new]
      BY <1>4 DEF HandsOver
    <2>2. PICK rest \in {"ending", "off"}, new \in Owners :
                /\ pc[g] \in Owners /\ pc[h] = "off"
                /\ pc' = [pc EXCEPT ![g] = rest, ![h] = new]
      BY <2>1
    <2>3. /\ pc' \in [Gos -> PCs] /\ pc'[g] = rest /\ pc'[h] = new
          /\ \A k \in Gos : k # g /\ k # h => pc'[k] = pc[k]
      BY <2>2
    <2>4. AtMostOneOwner'
      BY <1>0, <1>a, <2>2, <2>3
    <2>5. SomeOwner'
      BY <1>a, <2>2, <2>3
    <2> QED BY <2>3, <2>4, <2>5
  <1>5. ASSUME NEW g \in Gos, Leaves(g) PROVE OwnerInv'
    <2>1. /\ pc[g] = "ending" /\ pc' \in [Gos -> PCs] /\ pc'[g] = "off"
          /\ \A h \in Gos : h # g => pc'[h] = pc[h]
      BY <1>5 DEF Leaves
    <2>2. \A h \in Gos : pc'[h] \in Owners <=> pc[h] \in Owners
      BY <1>0, <2>1
    <2> QED BY <1>a, <1>1, <2>1, <2>2 DEF Forward
  <1> QED BY <1>2, <1>3, <1>4, <1>5, StepShape

LEMMA OwnerInvariant == Spec => []OwnerInv
  BY OwnerInvInit, OwnerInvStep, PTL DEF Spec

\* Exactly one goroutine drives the connection until the client is stopped or
\* cancelled: through every hand-over between connection manager and monitor
\* two never do, and no failure path forgets to start the next one.
THEOREM OneOwnerAlways == Spec => []OneOwner
  <1>1. OwnerInv => OneOwner
    BY DEF OwnerInv, OneOwner
  <1> QED BY <1>1, OwnerInvariant, PTL

-----------------------------------------------------------------------------
(* Types *)

\* TypeOK, without the places of the goroutines, which OwnerInv has.
Rest ==
    /\ attempt \in [Gos -> 0 .. MaxHolePunchAttempts]
    /\ conns \in SUBSET {"relay", "direct"}
    /\ ctrl \in {"none", "libp2p", "quic"}
    /\ up \in BOOLEAN
    /\ disp \in {"none", "open", "closed"}
    /\ direct \in BOOLEAN
    /\ backoff \in BackoffMin .. BackoffMax
    /\ cached \in BOOLEAN
    /\ started \in BOOLEAN
    /\ reason \in {"none", "context", "interrupt", "configuration", "signal"}
    /\ stopping \in BOOLEAN
    /\ cancelled \in BOOLEAN
    /\ stop \in {"no", "flag", "send", "close", "cancel", "direct", "done",
                 "panic"}
    /\ held \in BOOLEAN
    /\ exited \in BOOLEAN

\* The backoff never leaves its range, whatever the rounding.
LEMMA BackoffRange ==
    ASSUME backoff \in BackoffMin .. BackoffMax, IncreaseBackoff
    PROVE  backoff' \in BackoffMin .. BackoffMax
  <1>1. BackoffMin \in Nat /\ BackoffMax \in Nat /\ BackoffMin <= BackoffMax
    BY BackoffAssumption
  <1> DEFINE next == (3 * backoff) \div 2
  <1>2. next \in Int /\ next >= backoff
    BY <1>1
  <1>3. backoff' = IF next > BackoffMax THEN BackoffMax ELSE next
    BY DEF IncreaseBackoff
  <1> HIDE DEF next
  <1>4. CASE next > BackoffMax
    BY <1>1, <1>3, <1>4
  <1>5. CASE ~(next > BackoffMax)
    BY <1>1, <1>2, <1>3, <1>5
  <1> QED BY <1>4, <1>5

LEMMA RestStep ==
    ASSUME Rest, [Next]_vars
    PROVE  Rest'
  <1>0. MaxHolePunchAttempts \in Nat /\ MaxHolePunchAttempts > 0
    BY AttemptsAssumption
  <1>m. BackoffMin \in BackoffMin .. BackoffMax
    BY BackoffAssumption
  <1> USE DEF streamVars, stopVars, endVars
  <1>1. ASSUME NEW g \in Gos,
               \/ StepFails(g) \/ Found(g) \/ Route(g) \/ Upgraded(g)
               \/ AfterFailure(g) \/ SleepCut(g)
        PROVE  Rest'
    <2>1. UNCHANGED <<attempt, conns, ctrl, up, disp, direct, backoff, cached, started,
                     reason, stopping, cancelled, stop, held, exited>>
      BY <1>1 DEF StepFails, Found, Route, Upgraded, AfterFailure, SleepCut
    <2> QED BY <2>1 DEF Rest
  <1>2. ASSUME NEW g \in Gos,
               \/ MonitorBegins(g) \/ MonitorLoses(g) \/ HeartbeatTimeout(g)
               \/ ServerShutdown(g) \/ MonitorCancelled(g) \/ Defer(g)
               \/ NapOver(g) \/ Respawn(g)
        PROVE  Rest'
    <2>1. UNCHANGED <<attempt, conns, ctrl, up, disp, direct, backoff, cached, started,
                     reason, stopping, cancelled, stop, held, exited>>
      BY <1>2 DEF MonitorBegins, MonitorLoses, HeartbeatTimeout,
                  ServerShutdown, MonitorCancelled, Defer, NapOver, Respawn
    <2> QED BY <2>1 DEF Rest
  <1>3. ASSUME NEW g \in Gos, LoopEnds(g) PROVE Rest'
    BY <1>3 DEF Rest, LoopEnds, SetReason
  <1>4. ASSUME NEW g \in Gos, Cleanup(g) PROVE Rest'
    <2>1. ctrl' = "none" /\ disp' = "none" /\ conns' = {}
      BY <1>4 DEF Cleanup
    <2>2. up' \in BOOLEAN /\ direct' \in BOOLEAN
      BY <1>4, Zenon DEF Cleanup
    <2>3. UNCHANGED <<attempt, backoff, cached, started, reason, stopping,
                     cancelled, stop, held, exited>>
      BY <1>4 DEF Cleanup
    <2> QED BY <2>1, <2>2, <2>3 DEF Rest
  <1>5. ASSUME NEW g \in Gos, Dialed(g) PROVE Rest'
    BY <1>5, <1>m DEF Rest, Dialed
  <1>6. ASSUME NEW g \in Gos, NotUpgraded(g) PROVE Rest'
    <2>1. attempt' = [attempt EXCEPT ![g] = 1] /\ 1 \in 0 .. MaxHolePunchAttempts
      BY <1>0, <1>6 DEF NotUpgraded
    <2> QED BY <1>6, <2>1 DEF Rest, NotUpgraded
  <1>7. ASSUME NEW g \in Gos, Punched(g) PROVE Rest'
    <2>1. attempt' = [attempt EXCEPT ![g] = 0] /\ 0 \in 0 .. MaxHolePunchAttempts
      BY <1>0, <1>7 DEF Punched
    <2> QED BY <1>7, <2>1 DEF Rest, Punched
  <1>8. ASSUME NEW g \in Gos, PunchFails(g) PROVE Rest'
    <2> DEFINE n == IF attempt[g] < MaxHolePunchAttempts THEN attempt[g] + 1 ELSE 0
    <2>1. attempt' = [attempt EXCEPT ![g] = n]
      BY <1>8 DEF PunchFails
    <2>2. attempt[g] \in 0 .. MaxHolePunchAttempts
      BY DEF Rest
    <2>3. n \in 0 .. MaxHolePunchAttempts
      BY <1>0, <2>2
    <2> HIDE DEF n
    <2> QED BY <1>8, <2>1, <2>3 DEF Rest, PunchFails
  <1>9. ASSUME NEW g \in Gos, QUICControl(g) \/ LibP2PControl(g) PROVE Rest'
    <2>1. CASE QUICControl(g)
      <3>1. ctrl' = "quic" /\ disp' = "open"
        BY <2>1 DEF QUICControl
      <3>2. up' \in BOOLEAN
        BY <2>1, Zenon DEF QUICControl
      <3>3. UNCHANGED <<attempt, conns, direct, backoff, cached, started, reason,
                       stopping, cancelled, stop, held, exited>>
        BY <2>1 DEF QUICControl
      <3> QED BY <3>1, <3>2, <3>3 DEF Rest
    <2>2. CASE LibP2PControl(g)
      <3>1. conns' \in SUBSET {"relay", "direct"}
        BY <2>2 DEF Rest, LibP2PControl
      <3>2. ctrl' = "libp2p" /\ disp' = "open"
        BY <2>2 DEF LibP2PControl
      <3>3. up' \in BOOLEAN
        BY <2>2, Zenon DEF LibP2PControl
      <3>4. UNCHANGED <<attempt, direct, backoff, cached, started, reason, stopping,
                       cancelled, stop, held, exited>>
        BY <2>2 DEF LibP2PControl
      <3> QED BY <3>1, <3>2, <3>3, <3>4 DEF Rest
    <2> QED BY <1>9, <2>1, <2>2
  <1>10. ASSUME NEW g \in Gos, AuthOk(g) \/ AuthFails(g) PROVE Rest'
    <2>1. cached' \in BOOLEAN /\ up' \in BOOLEAN
      BY <1>10 DEF Rest, AuthOk, AuthFails
    <2>2. UNCHANGED <<attempt, conns, ctrl, disp, direct, backoff, started,
                     reason, stopping, cancelled, stop, held, exited>>
      BY <1>10 DEF AuthOk, AuthFails
    <2> QED BY <2>1, <2>2 DEF Rest
  <1>11. ASSUME NEW g \in Gos, AuthInterrupted(g) \/ VerifyFails(g) PROVE Rest'
    <2>1. cancelled' \in BOOLEAN /\ up' \in BOOLEAN
      BY <1>11, Zenon DEF Rest, AuthInterrupted, VerifyFails
    <2>2. reason' \in {"none", "context", "interrupt", "configuration", "signal"}
      BY <1>11 DEF Rest, AuthInterrupted, VerifyFails, SetReason
    <2>3. UNCHANGED <<attempt, conns, ctrl, disp, direct, backoff, cached, started,
                     stopping, stop, held, exited>>
      BY <1>11 DEF AuthInterrupted, VerifyFails
    <2> QED BY <2>1, <2>2, <2>3 DEF Rest
  <1>12. ASSUME NEW g \in Gos, Verified(g) PROVE Rest'
    BY <1>12 DEF Rest, Verified
  <1>13. ASSUME NEW g \in Gos, ManagerDone(g) PROVE Rest'
    BY <1>13, <1>m DEF Rest, ManagerDone
  <1>14. ASSUME NEW g \in Gos, SleepOver(g) PROVE Rest'
    <2>1. backoff' \in BackoffMin .. BackoffMax
      BY <1>14, BackoffRange DEF SleepOver, Rest
    <2> QED BY <1>14, <2>1 DEF Rest, SleepOver
  <1>15. ASSUME NEW g \in Gos, CloseControl(g) PROVE Rest'
    <2>1. conns' \in SUBSET {"relay", "direct"}
      BY <1>15 DEF Rest, CloseControl
    <2>2. up' \in BOOLEAN /\ direct' \in BOOLEAN
      BY <1>15, Zenon DEF CloseControl
    <2>3. UNCHANGED <<attempt, ctrl, disp, backoff, cached, started, reason,
                     stopping, cancelled, stop, held, exited>>
      BY <1>15 DEF CloseControl
    <2> QED BY <2>1, <2>2, <2>3 DEF Rest
  <1>16. CASE StopBegins
    BY <1>16 DEF Rest, StopBegins, StopGoto, SetReason
  <1>17. CASE StopFlags \/ StopSends
    <2>1. stop' \in {"no", "flag", "send", "close", "cancel", "direct", "done",
                     "panic"}
      BY <1>17 DEF Rest, StopFlags, StopSends, StopGoto
    <2>2. stopping' \in BOOLEAN /\ exited' \in BOOLEAN
      BY <1>17, Zenon DEF Rest, StopFlags, StopSends
    <2>3. UNCHANGED <<attempt, conns, ctrl, up, disp, direct, backoff, cached,
                     started, reason, cancelled, held>>
      BY <1>17 DEF StopFlags, StopSends
    <2> QED BY <2>1, <2>2, <2>3 DEF Rest
  <1>18. CASE StopCloses
    BY <1>18 DEF Rest, StopCloses, StopGoto
  <1>19. CASE StopCancels \/ StopCleans \/ Exit
    <2>1. CASE StopCancels
      <3>1. cancelled' \in BOOLEAN /\ stop' = "direct"
        BY <2>1, Zenon DEF StopCancels, StopGoto
      <3>2. UNCHANGED <<attempt, conns, ctrl, up, disp, direct, backoff, cached,
                       started, reason, stopping, held, exited>>
        BY <2>1 DEF StopCancels
      <3> QED BY <3>1, <3>2 DEF Rest
    <2>2. CASE StopCleans
      <3>1. conns' \in SUBSET {"relay", "direct"}
        BY <2>2 DEF StopCleans
      <3>2. stop' = "done"
        BY <2>2 DEF StopCleans, StopGoto
      <3>3. up' \in BOOLEAN /\ direct' \in BOOLEAN
        BY <2>2, Zenon DEF StopCleans
      <3>4. UNCHANGED <<attempt, ctrl, disp, backoff, cached, started, reason,
                       stopping, cancelled, held, exited>>
        BY <2>2 DEF StopCleans
      <3> QED BY <3>1, <3>2, <3>3, <3>4 DEF Rest
    <2>3. CASE Exit
      <3>1. exited' \in BOOLEAN
        BY <2>3, Zenon DEF Exit
      <3>2. UNCHANGED <<attempt, conns, ctrl, up, disp, direct, backoff, cached,
                       started, reason, stopping, cancelled, stop, held>>
        BY <2>3 DEF Exit
      <3> QED BY <3>1, <3>2 DEF Rest
    <2> QED BY <1>19, <2>1, <2>2, <2>3
  <1>20. CASE ConnsChange
    <2>1. conns' \in SUBSET {"relay", "direct"}
      BY <1>20 DEF Rest, ConnsChange
    <2>2. up' \in BOOLEAN
      BY <1>20 DEF Rest, ConnsChange
    <2>3. UNCHANGED <<attempt, ctrl, disp, direct, backoff, cached, started,
                     reason, stopping, cancelled, stop, held, exited>>
      BY <1>20 DEF ConnsChange
    <2> QED BY <2>1, <2>2, <2>3 DEF Rest
  <1>21. CASE ControlDies
    <2>1. up' \in BOOLEAN
      BY <1>21, Zenon DEF ControlDies
    <2>2. UNCHANGED <<attempt, conns, ctrl, disp, direct, backoff, cached, started,
                     reason, stopping, cancelled, stop, held, exited>>
      BY <1>21 DEF ControlDies
    <2> QED BY <2>1, <2>2 DEF Rest
  <1>22. CASE UNCHANGED vars
    BY <1>22 DEF Rest, vars
  <1>23. ASSUME NEW g \in Gos, Progress(g) PROVE Rest'
    BY <1>23, <1>1, <1>2, <1>3, <1>4, <1>6, <1>8, <1>10, <1>11, <1>13, <1>14,
       <1>15, Zenon DEF Progress
  <1>24. ASSUME NEW g \in Gos, Luck(g) PROVE Rest'
    BY <1>24, <1>1, <1>2, <1>5, <1>7, <1>8, <1>9, <1>10, <1>11, <1>12, Zenon
       DEF Luck
  <1> QED BY <1>16, <1>17, <1>18, <1>19, <1>20, <1>21, <1>22, <1>23, <1>24, Zenon
          DEF Next, StopStep, Ended

LEMMA RestInit == Init => Rest
  <1> SUFFICES ASSUME Init PROVE Rest
    OBVIOUS
  <1>1. 0 \in 0 .. MaxHolePunchAttempts
    BY AttemptsAssumption
  <1>2. attempt \in [Gos -> 0 .. MaxHolePunchAttempts]
    BY <1>1 DEF Init
  <1>3. BackoffMin \in BackoffMin .. BackoffMax
    BY BackoffAssumption
  <1> QED BY <1>2, <1>3 DEF Init, Rest

LEMMA RestInvariant == Spec => []Rest
  BY RestInit, RestStep, PTL DEF Spec

\* The backoff stays between its first value and backoffMax, and no attempt
\* is made beyond maxHolePunchAttempts.
THEOREM ClientConnTypeCorrect == Spec => []TypeOK
  <1>1. OwnerInv /\ Rest => TypeOK
    BY Zenon DEF OwnerInv, Rest, TypeOK, PCs, Owners
  <1> QED BY <1>1, OwnerInvariant, RestInvariant, PTL

-----------------------------------------------------------------------------
(* The data path *)

\* Where a manager is that has not punched a hole in this cycle.
Dialing == {"find", "dial", "route", "wait", "punch", "ctrl"}

\* Where a control stream has been chosen and is in use.
Live == {"auth", "verify", "begin", "watch"}

\* The connection is not punched, or the control stream is on it.  A client
\* whose context is cancelled may have closed it under a live control stream.
PathInv ==
    /\ stop = "direct" => cancelled
    /\ \A g \in Gos :
          /\ pc[g] \in Dialing => ~direct
          /\ pc[g] \in Live => cancelled \/ (direct <=> ctrl = "quic")

\* A step that changes neither connection nor control stream, and brings no
\* goroutine to a place that none was at.
LEMMA SamePath ==
    ASSUME PathInv, Forward, UNCHANGED <<direct, ctrl>>,
           stop' = "direct" => cancelled',
           \A h \in Gos : /\ pc'[h] \in Dialing => \E g \in Gos : pc[g] \in Dialing
                          /\ pc'[h] \in Live => \E g \in Gos : pc[g] \in Live
    PROVE  PathInv'
  BY DEF PathInv, Forward

\* A step after which g, the only one to drive the connection, is at `to`.
LEMMA OnlyOwner ==
    ASSUME AtMostOneOwner', stop' = "direct" => cancelled', NEW g \in Gos,
           Owner(g)',
           pc'[g] \in Dialing => ~direct',
           pc'[g] \in Live => cancelled' \/ (direct' <=> ctrl' = "quic")
    PROVE  PathInv'
  <1>1. \A h \in Gos : pc'[h] \in Dialing \cup Live => Owner(h)'
    BY DEF Dialing, Live, Owner, ManagerPCs, MonitorPCs
  <1> QED BY <1>1 DEF PathInv, AtMostOneOwner

LEMMA PathStep ==
    ASSUME PathInv, OwnerInv, [Next]_vars
    PROVE  PathInv'
  <1>1. Forward
    BY StepShape
  <1>2. pc \in [Gos -> PCs] /\ AtMostOneOwner'
    BY OwnerInvStep DEF OwnerInv
  <1>3. stop' = "direct" => cancelled'
    <2>1. CASE StopStep \/ StopBegins
      <3>1. CASE StopCancels
        <4>1. cancelled'
          BY <3>1, Zenon DEF StopCancels
        <4> QED BY <4>1
      <3>2. CASE StopFlags \/ StopSends \/ StopCloses \/ StopCleans \/ StopBegins
        <4>1. stop' # "direct"
          BY <3>2 DEF StopFlags, StopSends, StopCloses, StopCleans, StopBegins,
                      StopGoto
        <4> QED BY <4>1
      <3> QED BY <2>1, <3>1, <3>2 DEF StopStep
    <2>2. CASE stop' = stop
      BY <1>1, <2>2 DEF PathInv, Forward
    <2>3. ASSUME NEW g \in Gos, Progress(g) PROVE stop' = stop
      BY <2>3 DEF Progress, LoopEnds, Cleanup, Route, NotUpgraded,
             ManagerDone, AfterFailure,
             SleepOver, SleepCut, MonitorBegins, MonitorLoses, MonitorCancelled,
             CloseControl, Defer, NapOver, Respawn, stopVars
    <2>4. ASSUME NEW g \in Gos, Luck(g) PROVE stop' = stop
      BY <2>4 DEF Luck, StepFails, PunchFails, AuthFails, VerifyFails, Found, Dialed, Upgraded, Punched, QUICControl,
             LibP2PControl, AuthOk, AuthInterrupted, Verified, HeartbeatTimeout,
             ServerShutdown, stopVars
    <2>5. CASE Exit \/ ConnsChange \/ ControlDies \/ UNCHANGED vars
      <3>1. stop' = stop
        BY <2>5 DEF Exit, ConnsChange, ControlDies, vars, stopVars
      <3> QED BY <2>2, <3>1
    <2> QED BY <2>1, <2>2, <2>3, <2>4, <2>5 DEF Next, Ended
  <1> DEFINE Stays == \A h \in Gos :
                         /\ pc'[h] \in Dialing => \E g \in Gos : pc[g] \in Dialing
                         /\ pc'[h] \in Live => \E g \in Gos : pc[g] \in Live
  <1> USE DEF Dialing, Live
  <1>4. ASSUME NEW g \in Gos, NEW to \in PCs, pc' = [pc EXCEPT ![g] = to],
               to \in Dialing => pc[g] \in Dialing, to \in Live => pc[g] \in Live
        PROVE  Stays
    <2>1. pc'[g] = to /\ \A h \in Gos : h # g => pc'[h] = pc[h]
      BY <1>2, <1>4
    <2> HIDE DEF Dialing, Live
    <2> QED BY <1>4, <2>1
  <1>5. ASSUME UNCHANGED <<direct, ctrl>>, Stays PROVE PathInv'
    BY <1>1, <1>3, <1>5, SamePath
  <1> HIDE DEF Stays
  <1> USE DEF Goto, PCs, Owners, ManagerPCs, MonitorPCs
  <1>6. ASSUME NEW g \in Gos,
               \/ LoopEnds(g) \/ StepFails(g) \/ Route(g) \/ NotUpgraded(g)
               \/ PunchFails(g) \/ AuthFails(g) \/ VerifyFails(g) \/ ManagerDone(g)
        PROVE  PathInv'
    <2>1. UNCHANGED <<direct, ctrl>>
      BY <1>6 DEF LoopEnds, StepFails, Route, NotUpgraded, PunchFails, AuthFails,
                  VerifyFails, ManagerDone, streamVars
    <2>2. PICK to \in PCs : /\ pc' = [pc EXCEPT ![g] = to]
                            /\ to \in Dialing => pc[g] \in Dialing
                            /\ to \in Live => pc[g] \in Live
      BY <1>6 DEF LoopEnds, StepFails, Route, NotUpgraded, PunchFails, AuthFails,
                  VerifyFails, ManagerDone
    <2> QED BY <1>4, <1>5, <2>1, <2>2
  <1>7. ASSUME NEW g \in Gos,
               \/ AfterFailure(g) \/ SleepOver(g) \/ SleepCut(g)
               \/ MonitorBegins(g) \/ MonitorLoses(g) \/ MonitorCancelled(g)
               \/ Defer(g) \/ NapOver(g)
        PROVE  PathInv'
    <2>1. UNCHANGED <<direct, ctrl>>
      BY <1>7 DEF AfterFailure, SleepOver, SleepCut, MonitorBegins, MonitorLoses,
                  MonitorCancelled, Defer, NapOver, streamVars
    <2>2. PICK to \in PCs : /\ pc' = [pc EXCEPT ![g] = to]
                            /\ to \in Dialing => pc[g] \in Dialing
                            /\ to \in Live => pc[g] \in Live
      BY <1>7 DEF AfterFailure, SleepOver, SleepCut, MonitorBegins, MonitorLoses,
                  MonitorCancelled, Defer, NapOver
    <2> QED BY <1>4, <1>5, <2>1, <2>2
  <1>8. ASSUME NEW g \in Gos,
               \/ Found(g) \/ Dialed(g) \/ Upgraded(g) \/ AuthOk(g)
               \/ AuthInterrupted(g) \/ HeartbeatTimeout(g) \/ ServerShutdown(g)
        PROVE  PathInv'
    <2>1. UNCHANGED <<direct, ctrl>>
      BY <1>8 DEF Found, Dialed, Upgraded, AuthOk, AuthInterrupted,
                  HeartbeatTimeout, ServerShutdown, streamVars
    <2>2. PICK to \in PCs : /\ pc' = [pc EXCEPT ![g] = to]
                            /\ to \in Dialing => pc[g] \in Dialing
                            /\ to \in Live => pc[g] \in Live
      BY <1>8 DEF Found, Dialed, Upgraded, AuthOk, AuthInterrupted,
                  HeartbeatTimeout, ServerShutdown
    <2> QED BY <1>4, <1>5, <2>1, <2>2
  <1>9. ASSUME NEW g \in Gos, Verified(g) \/ Respawn(g) PROVE PathInv'
    <2>1. UNCHANGED <<direct, ctrl>>
      BY <1>9 DEF Verified, Respawn, streamVars
    <2>2. PICK h \in Gos \ {g} : \E to \in {"ending", "off"} :
              \/ pc[g] = "verify" /\ pc' = [pc EXCEPT ![g] = to, ![h] = "begin"]
              \/ pc' = [pc EXCEPT ![g] = to, ![h] = "loop"]
      BY <1>9 DEF Verified, Respawn, Spawn
    <2>3. Stays
      BY <1>2, <2>2 DEF Stays
    <2> QED BY <1>5, <2>1, <2>3
  <1>10. ASSUME NEW g \in Gos, Cleanup(g) PROVE PathInv'
    <2>1. pc'[g] = "find"
      BY <1>2, <1>10 DEF Cleanup
    <2>2. ~direct'
      BY <1>10, Zenon DEF Cleanup
    <2>3. Owner(g)'
      BY <2>1 DEF Owner
    <2> QED BY <1>2, <1>3, <2>1, <2>2, <2>3, OnlyOwner
  <1>11. ASSUME NEW g \in Gos, Punched(g) PROVE PathInv'
    <2>1. pc'[g] = "quicCtrl"
      BY <1>2, <1>11 DEF Punched
    <2>2. Owner(g)'
      BY <2>1 DEF Owner
    <2> QED BY <1>2, <1>3, <2>1, <2>2, OnlyOwner
  <1>12. ASSUME NEW g \in Gos, CloseControl(g) PROVE PathInv'
    <2>1. pc'[g] = "defer"
      BY <1>2, <1>12 DEF CloseControl
    <2>2. Owner(g)'
      BY <2>1 DEF Owner
    <2> QED BY <1>2, <1>3, <2>1, <2>2, OnlyOwner
  <1>13. ASSUME NEW g \in Gos, QUICControl(g) PROVE PathInv'
    <2>1. pc'[g] = "auth"
      BY <1>2, <1>13 DEF QUICControl
    <2>2. direct /\ direct' = direct /\ ctrl' = "quic"
      BY <1>13, Zenon DEF QUICControl
    <2>3. Owner(g)'
      BY <2>1 DEF Owner
    <2> QED BY <1>2, <1>3, <2>1, <2>2, <2>3, OnlyOwner
  <1>14. ASSUME NEW g \in Gos, LibP2PControl(g) PROVE PathInv'
    <2>1. pc[g] = "ctrl" /\ pc'[g] = "auth"
      BY <1>2, <1>14 DEF LibP2PControl
    <2>2. direct' = direct /\ ctrl' = "libp2p"
      BY <1>14 DEF LibP2PControl
    <2>3. ~direct
      BY <2>1 DEF PathInv
    <2>4. Owner(g)'
      BY <2>1 DEF Owner
    <2> QED BY <1>2, <1>3, <2>1, <2>2, <2>3, <2>4, OnlyOwner
  <1>15. CASE StopCleans
    <2>1. stop = "direct" /\ cancelled' = cancelled /\ pc' = pc
      BY <1>15 DEF StopCleans, StopGoto, endVars
    <2>2. ~direct'
      BY <1>15, Zenon DEF StopCleans
    <2>3. cancelled'
      BY <2>1 DEF PathInv
    <2> QED BY <1>3, <2>2, <2>3 DEF PathInv
  <1>16. CASE \/ StopBegins \/ StopFlags \/ StopSends \/ StopCloses \/ StopCancels
              \/ Exit \/ ConnsChange \/ ControlDies \/ UNCHANGED vars
    <2>1. UNCHANGED <<pc, direct, ctrl>>
      BY <1>16 DEF StopBegins, StopFlags, StopSends, StopCloses, StopCancels, Exit,
                   ConnsChange, ControlDies, vars, streamVars
    <2>2. Stays
      BY <2>1 DEF Stays
    <2> QED BY <1>5, <2>1, <2>2
  <1>17. ASSUME NEW g \in Gos, Progress(g) PROVE PathInv'
    BY <1>17, <1>6, <1>7, <1>9, <1>10, <1>12, Zenon DEF Progress
  <1>18. ASSUME NEW g \in Gos, Luck(g) PROVE PathInv'
    BY <1>18, <1>6, <1>8, <1>9, <1>11, <1>13, <1>14, Zenon DEF Luck
  <1> QED BY <1>15, <1>16, <1>17, <1>18, Zenon DEF Next, StopStep, Ended

\* While a session is watched, data streams take the punched connection exactly
\* if the control stream does: openDataStream looks at directConn, set in one
\* place, and the control stream was chosen in another.
THEOREM DataPathFollowsControl == Spec => []DataPathMatchesControl
  <1>1. Init => PathInv
    <2> SUFFICES ASSUME Init PROVE PathInv
      OBVIOUS
    <2>1. \A g \in Gos : pc[g] \in {"loop", "off"}
      BY DEF Init
    <2> QED BY <2>1 DEF Init, PathInv, Dialing, Live
  <1>2. PathInv => DataPathMatchesControl
    <2> SUFFICES ASSUME PathInv, NEW g \in Gos, pc[g] = "watch", ~cancelled
                 PROVE  openDataStream = "quic" <=> ctrl = "quic"
      BY DEF DataPathMatchesControl
    <2>1. direct <=> ctrl = "quic"
      BY DEF PathInv, Live
    <2>2. openDataStream = "quic" <=> direct
      BY DEF openDataStream
    <2> QED BY <2>1, <2>2
  <1>3. PathInv /\ OwnerInv /\ [Next]_vars => PathInv'
    BY PathStep
  <1> QED BY <1>1, <1>2, <1>3, OwnerInvariant, PTL DEF Spec
=============================================================================
