--------------------------- MODULE SessionsProofs ---------------------------
(* Proofs about Sessions, for any number of peers and control streams of   *)
(* either kind.                                                            *)
EXTENDS Sessions, TLAPS

\* A step of the goroutine of stream x that changes nothing but the fields
\* named in its action moves only x.
LEMMA GotoFacts ==
    ASSUME TypeOK, NEW x \in Streams, NEW from, NEW to \in PCs, Goto(x, from, to)
    PROVE  /\ pc[x] = from /\ pc'[x] = to
           /\ pc' \in [Streams -> PCs]
           /\ \A y \in Streams : y # x => pc'[y] = pc[y]
  BY DEF TypeOK, Goto

LEMMA StreamFacts ==
    /\ \A x \in Streams : /\ PeerOf[x] \in Peers
                          /\ Kind[x] \in {"libp2p", "quic"}
                          /\ x # None
                          /\ ControlStream(x) \in {x, None}
    /\ \A p : LibP2POf(p) \subseteq Streams
  BY StreamAssumption DEF ControlStream, LibP2POf, LibP2P

LEMMA TypeOKStep == TypeOK /\ [Next]_vars => TypeOK'
  <1> SUFFICES ASSUME TypeOK, [Next]_vars PROVE TypeOK'
    OBVIOUS
  <1> USE StreamFacts DEF TypeOK, Goto, PCs, netVars, stopVars, history
  <1>1. ASSUME NEW x \in Streams, Open(x) PROVE TypeOK'
    BY <1>1 DEF Open
  <1>2. ASSUME NEW x \in Streams, CheckExists(x) PROVE TypeOK'
    BY <1>2 DEF CheckExists
  <1>3. ASSUME NEW x \in Streams, Greet(x) PROVE TypeOK'
    BY <1>3 DEF Greet
  <1>4. ASSUME NEW x \in Streams, AuthOk(x) PROVE TypeOK'
    BY <1>4 DEF AuthOk
  <1>5. ASSUME NEW x \in Streams, AuthFail(x) PROVE TypeOK'
    BY <1>5 DEF AuthFail
  <1>6. ASSUME NEW x \in Streams, Reject(x) PROVE TypeOK'
    BY <1>6 DEF Reject
  <1>7. ASSUME NEW x \in Streams, Expel(x) PROVE TypeOK'
    BY <1>7 DEF Expel
  <1>8. ASSUME NEW x \in Streams, Replace(x) PROVE TypeOK'
    BY <1>8 DEF Replace
  <1>9. ASSUME NEW x \in Streams, CloseOld(x) PROVE TypeOK'
    BY <1>9 DEF CloseOld
  <1>10. ASSUME NEW x \in Streams, Insert(x) PROVE TypeOK'
    BY <1>10 DEF Insert
  <1>11. ASSUME NEW x \in Streams, Tag(x) PROVE TypeOK'
    BY <1>11 DEF Tag
  <1>12. ASSUME NEW x \in Streams, MonitorSeesEnd(x) \/ MonitorGivesUp(x)
         PROVE  TypeOK'
    BY <1>12 DEF MonitorSeesEnd, MonitorGivesUp
  <1>13. ASSUME NEW x \in Streams, Unregister(x) PROVE TypeOK'
    BY <1>13 DEF Unregister
  <1>14. ASSUME NEW x \in Streams, Untag(x) PROVE TypeOK'
    BY <1>14 DEF Untag
  <1>15. ASSUME NEW x \in Streams, CleanUp(x) PROVE TypeOK'
    BY <1>15 DEF CleanUp
  <1>16. ASSUME NEW p \in Peers, DataStream(p) PROVE TypeOK'
    BY <1>16 DEF DataStream
  <1>17. ASSUME NEW x \in Streams, StreamDies(x) PROVE TypeOK'
    BY <1>17 DEF StreamDies
  <1>18. ASSUME NEW x \in Streams, Notified(x) PROVE TypeOK'
    BY <1>18 DEF Notified
  <1>19. CASE StopNotify
    BY <1>19 DEF StopNotify
  <1>20. CASE StopStep
    BY <1>20 DEF StopStep, StopHost, StopCancel, Exit
  <1>21. CASE UNCHANGED vars
    BY <1>21 DEF vars
  <1> QED
    BY <1>1, <1>2, <1>3, <1>4, <1>5, <1>6, <1>7, <1>8, <1>9, <1>10, <1>11,
       <1>12, <1>13, <1>14, <1>15, <1>16, <1>17, <1>18, <1>19, <1>20, <1>21
       DEF Next, Progress, Terminated

\* The registry and the goroutines of its streams keep their types.
THEOREM TypeCorrect == Spec => []TypeOK
  <1>1. Init => TypeOK
    BY StreamAssumption DEF Init, TypeOK, PCs
  <1> QED BY <1>1, TypeOKStep, PTL DEF Spec

-----------------------------------------------------------------------------
(* The steps that matter to the registry, and the others *)

\* Moves of one stream's goroutine that leave registry, tags and passwords be.
QuietEdges ==
    {<<"new", "check">>, <<"check", "greet">>, <<"greet", "auth">>,
     <<"greet", "reject">>, <<"auth", "reject">>, <<"reject", "done">>,
     <<"reject", "expel">>, <<"expel", "done">>, <<"closeOld", "insert">>,
     <<"monitor", "unregister">>, <<"close", "done">>}

QuietMove(x) ==
    /\ <<pc[x], pc'[x]>> \in QuietEdges
    /\ \A y \in Streams : y # x => pc'[y] = pc[y]
    /\ UNCHANGED <<clients, tagged, authed, forwarded>>

\* CheckExists when it finds the peer registered.
FoundRegistered(x) == CheckExists(x) /\ clients[PeerOf[x]] # None

LEMMA StepShape ==
    ASSUME TypeOK, [Next]_vars
    PROVE  \/ UNCHANGED <<clients, pc, tagged, authed, forwarded>>
           \/ \E p \in Peers : DataStream(p)
           \/ \E x \in Streams : \/ QuietMove(x) \/ FoundRegistered(x)
                                 \/ AuthOk(x) \/ Replace(x) \/ Insert(x)
                                 \/ Tag(x) \/ Unregister(x) \/ Untag(x)
  <1> DEFINE Goal == \/ UNCHANGED <<clients, pc, tagged, authed, forwarded>>
                     \/ \E p \in Peers : DataStream(p)
                     \/ \E x \in Streams : \/ QuietMove(x) \/ FoundRegistered(x)
                                 \/ AuthOk(x) \/ Replace(x) \/ Insert(x)
                                 \/ Tag(x) \/ Unregister(x) \/ Untag(x)
  <1> SUFFICES Goal
    OBVIOUS
  <1>1. ASSUME NEW x \in Streams, NEW from \in PCs, NEW to \in PCs,
               Goto(x, from, to), <<from, to>> \in QuietEdges,
               UNCHANGED <<clients, tagged, authed, forwarded>>
        PROVE  QuietMove(x)
    <2>1. /\ pc[x] = from /\ pc'[x] = to
          /\ \A y \in Streams : y # x => pc'[y] = pc[y]
      BY <1>1, GotoFacts
    <2> QED BY <1>1, <2>1 DEF QuietMove
  <1> USE DEF netVars, stopVars, history, PCs
  <1>2. ASSUME NEW x \in Streams,
               \/ Open(x) \/ Greet(x) \/ AuthFail(x) \/ Reject(x) \/ Expel(x)
               \/ CloseOld(x) \/ MonitorSeesEnd(x) \/ MonitorGivesUp(x)
               \/ CleanUp(x)
        PROVE  QuietMove(x)
    <2>1. CASE Open(x)
      BY <1>1, <2>1 DEF Open, QuietEdges
    <2>2. CASE Greet(x)
      BY <1>1, <2>2 DEF Greet, QuietEdges
    <2>3. CASE AuthFail(x)
      BY <1>1, <2>3 DEF AuthFail, QuietEdges
    <2>4. CASE Reject(x)
      BY <1>1, <2>4 DEF Reject, QuietEdges
    <2>5. CASE Expel(x)
      BY <1>1, <2>5 DEF Expel, QuietEdges
    <2>6. CASE CloseOld(x)
      BY <1>1, <2>6 DEF CloseOld, QuietEdges
    <2>7. CASE MonitorSeesEnd(x) \/ MonitorGivesUp(x)
      BY <1>1, <2>7 DEF MonitorSeesEnd, MonitorGivesUp, QuietEdges
    <2>8. CASE CleanUp(x)
      BY <1>1, <2>8 DEF CleanUp, QuietEdges
    <2> QED BY <1>2, <2>1, <2>2, <2>3, <2>4, <2>5, <2>6, <2>7, <2>8
  <1>3. ASSUME NEW x \in Streams, CheckExists(x)
        PROVE  QuietMove(x) \/ FoundRegistered(x)
    <2>1. CASE clients[PeerOf[x]] = None
      BY <1>1, <1>3, <2>1 DEF CheckExists, QuietEdges
    <2>2. CASE clients[PeerOf[x]] # None
      BY <1>3, <2>2 DEF FoundRegistered
    <2> QED BY <2>1, <2>2
  <1>4. ASSUME NEW x \in Streams, StreamDies(x) \/ Notified(x) PROVE Goal
    BY <1>4 DEF StreamDies, Notified
  <1>5. CASE StopNotify \/ StopStep \/ Terminated \/ UNCHANGED vars
    BY <1>5 DEF StopNotify, StopStep, StopHost, StopCancel, Exit, Terminated, vars
  <1> QED
    BY <1>2, <1>3, <1>4, <1>5, Zenon DEF Next, Progress

\* The strengthening of AuthBeforeService: a handler past the password check,
\* or past finding its peer registered, belongs to a peer that authenticated.
Trusted == {"replace", "closeOld", "insert"}

TrustedAuthed == \A x \in Streams : pc[x] \in Trusted => PeerOf[x] \in authed

RegistryInv == TypeOK /\ EntryHasMonitor /\ AuthBeforeService /\ TrustedAuthed
               /\ TagHasOwner

LEMMA EntryStep == TypeOK /\ EntryHasMonitor /\ [Next]_vars => EntryHasMonitor'
  <1> SUFFICES ASSUME TypeOK, EntryHasMonitor, [Next]_vars,
                      NEW p \in Peers, clients'[p] # None
               PROVE  /\ PeerOf[clients'[p]] = p
                      /\ pc'[clients'[p]] \in Registered
    BY DEF EntryHasMonitor
  <1> DEFINE y == clients'[p]
  <1>1. clients[p] # None => /\ clients[p] \in Streams
                             /\ PeerOf[clients[p]] = p
                             /\ pc[clients[p]] \in Registered
    BY DEF EntryHasMonitor, TypeOK
  <1> USE StreamFacts DEF Registered
  <1>2. CASE UNCHANGED <<clients, pc>>
    BY <1>1, <1>2
  <1>3. ASSUME NEW q \in Peers, DataStream(q)
        PROVE  UNCHANGED <<clients, pc>>
    BY <1>3 DEF DataStream
  <1>4. ASSUME NEW x \in Streams, QuietMove(x)
        PROVE  PeerOf[y] = p /\ pc'[y] \in Registered
    BY <1>1, <1>4 DEF QuietMove, QuietEdges
  <1>5. ASSUME NEW x \in Streams, FoundRegistered(x)
        PROVE  PeerOf[y] = p /\ pc'[y] \in Registered
    <2>1. pc[x] = "check" /\ \A z \in Streams : z # x => pc'[z] = pc[z]
      BY <1>5 DEF FoundRegistered, CheckExists, Goto, TypeOK
    <2> QED BY <1>1, <1>5, <2>1 DEF FoundRegistered, CheckExists
  <1>6. ASSUME NEW x \in Streams, AuthOk(x)
        PROVE  PeerOf[y] = p /\ pc'[y] \in Registered
    BY <1>1, <1>6 DEF AuthOk, Goto, TypeOK
  <1>7. ASSUME NEW x \in Streams, Replace(x)
        PROVE  PeerOf[y] = p /\ pc'[y] \in Registered
    BY <1>1, <1>7 DEF Replace, Goto, TypeOK
  <1>8. ASSUME NEW x \in Streams, Insert(x)
        PROVE  PeerOf[y] = p /\ pc'[y] \in Registered
    BY <1>1, <1>8 DEF Insert, Goto, TypeOK
  <1>9. ASSUME NEW x \in Streams, Tag(x)
        PROVE  PeerOf[y] = p /\ pc'[y] \in Registered
    BY <1>1, <1>9 DEF Tag, Goto, TypeOK
  <1>10. ASSUME NEW x \in Streams, Unregister(x)
         PROVE  PeerOf[y] = p /\ pc'[y] \in Registered
    <2>1. clients[PeerOf[x]] = x => clients'[PeerOf[x]] = None
      BY <1>10 DEF Unregister, OwnsEntry, TypeOK
    <2>2. y = clients[p]
      BY <1>10 DEF Unregister, TypeOK
    <2>3. y # x
      BY <1>1, <2>1, <2>2
    <2> QED BY <1>1, <1>10, <2>2, <2>3 DEF Unregister, Goto, TypeOK
  <1>11. ASSUME NEW x \in Streams, Untag(x)
         PROVE  PeerOf[y] = p /\ pc'[y] \in Registered
    BY <1>1, <1>11 DEF Untag, Goto, TypeOK
  <1> QED BY <1>2, <1>3, <1>4, <1>5, <1>6, <1>7, <1>8, <1>9, <1>10, <1>11,
             StepShape, Zenon

LEMMA AuthStep ==
    TypeOK /\ AuthBeforeService /\ TrustedAuthed /\ [Next]_vars
      => AuthBeforeService' /\ TrustedAuthed'
  <1> SUFFICES ASSUME TypeOK, AuthBeforeService, TrustedAuthed, [Next]_vars
               PROVE  AuthBeforeService' /\ TrustedAuthed'
    OBVIOUS
  <1> USE StreamFacts DEF AuthBeforeService, TrustedAuthed, Trusted
  <1>1. CASE UNCHANGED <<clients, pc, tagged, authed, forwarded>>
    BY <1>1
  <1>2. ASSUME NEW p \in Peers, DataStream(p)
        PROVE  AuthBeforeService' /\ TrustedAuthed'
    BY <1>2 DEF DataStream
  <1>3. ASSUME NEW x \in Streams, QuietMove(x)
        PROVE  AuthBeforeService' /\ TrustedAuthed'
    BY <1>3 DEF QuietMove, QuietEdges
  <1>4. ASSUME NEW x \in Streams, FoundRegistered(x)
        PROVE  AuthBeforeService' /\ TrustedAuthed'
    BY <1>4 DEF FoundRegistered, CheckExists, Goto, TypeOK, netVars, history
  <1>5. ASSUME NEW x \in Streams, AuthOk(x)
        PROVE  AuthBeforeService' /\ TrustedAuthed'
    BY <1>5 DEF AuthOk, Goto, TypeOK
  <1>6. ASSUME NEW x \in Streams, Replace(x)
        PROVE  AuthBeforeService' /\ TrustedAuthed'
    BY <1>6 DEF Replace, Goto, TypeOK, history
  <1>7. ASSUME NEW x \in Streams, Insert(x)
        PROVE  AuthBeforeService' /\ TrustedAuthed'
    BY <1>7 DEF Insert, Goto, TypeOK, history
  <1>8. ASSUME NEW x \in Streams, Tag(x) \/ Untag(x)
        PROVE  AuthBeforeService' /\ TrustedAuthed'
    BY <1>8 DEF Tag, Untag, Goto, TypeOK, history
  <1>9. ASSUME NEW x \in Streams, Unregister(x)
        PROVE  AuthBeforeService' /\ TrustedAuthed'
    BY <1>9 DEF Unregister, Goto, TypeOK, history
  <1> QED BY <1>1, <1>2, <1>3, <1>4, <1>5, <1>6, <1>7, <1>8, <1>9,
             StepShape, Zenon

LEMMA TagStep == TypeOK /\ TagHasOwner /\ [Next]_vars => TagHasOwner'
  <1> SUFFICES ASSUME TypeOK, TagHasOwner, [Next]_vars, NEW p \in tagged'
               PROVE  \E z \in Streams :
                         /\ PeerOf[z] = p
                         /\ pc'[z] \in {"monitor", "unregister", "untag"}
    BY DEF TagHasOwner
  <1> DEFINE Owned == \E z \in Streams :
                         /\ PeerOf[z] = p
                         /\ pc'[z] \in {"monitor", "unregister", "untag"}
  <1>1. p \in tagged => \E z \in Streams :
                            /\ PeerOf[z] = p
                            /\ pc[z] \in {"monitor", "unregister", "untag"}
    BY DEF TagHasOwner
  <1>2. CASE UNCHANGED <<clients, pc, tagged, authed, forwarded>>
    BY <1>1, <1>2
  <1>3. ASSUME NEW q \in Peers, DataStream(q) PROVE Owned
    BY <1>1, <1>3 DEF DataStream, netVars
  <1>4. ASSUME NEW x \in Streams, QuietMove(x) PROVE Owned
    BY <1>1, <1>4 DEF QuietMove, QuietEdges
  <1>5. ASSUME NEW x \in Streams, FoundRegistered(x) PROVE Owned
    BY <1>1, <1>5 DEF FoundRegistered, CheckExists, Goto, TypeOK, netVars
  <1>6. ASSUME NEW x \in Streams, AuthOk(x) PROVE Owned
    BY <1>1, <1>6 DEF AuthOk, Goto, TypeOK, netVars
  <1>7. ASSUME NEW x \in Streams, Replace(x) PROVE Owned
    BY <1>1, <1>7 DEF Replace, Goto, TypeOK, netVars
  <1>8. ASSUME NEW x \in Streams, Insert(x) PROVE Owned
    BY <1>1, <1>8 DEF Insert, Goto, TypeOK, netVars
  <1>9. ASSUME NEW x \in Streams, Tag(x) PROVE Owned
    BY <1>1, <1>9 DEF Tag, Goto, TypeOK
  <1>10. ASSUME NEW x \in Streams, Unregister(x) PROVE Owned
    BY <1>1, <1>10 DEF Unregister, Goto, TypeOK, netVars
  <1>11. ASSUME NEW x \in Streams, Untag(x) PROVE Owned
    BY <1>1, <1>11 DEF Untag, Goto, TypeOK
  <1> QED BY <1>2, <1>3, <1>4, <1>5, <1>6, <1>7, <1>8, <1>9, <1>10, <1>11,
             StepShape, Zenon

LEMMA RegistryInvariant == Spec => []RegistryInv
  <1>1. Init => RegistryInv
    <2> SUFFICES ASSUME Init PROVE RegistryInv
      OBVIOUS
    <2>1. TypeOK
      BY StreamAssumption DEF Init, TypeOK, PCs
    <2>2. EntryHasMonitor /\ AuthBeforeService /\ TrustedAuthed /\ TagHasOwner
      BY DEF Init, EntryHasMonitor, AuthBeforeService, TrustedAuthed, Trusted,
             TagHasOwner
    <2> QED BY <2>1, <2>2 DEF RegistryInv
  <1>2. RegistryInv /\ [Next]_vars => RegistryInv'
    BY TypeOKStep, EntryStep, AuthStep, TagStep DEF RegistryInv
  <1> QED BY <1>1, <1>2, PTL DEF Spec

\* Only peers that passed the password check are registered or forwarded for,
\* although a stream that finds its peer registered skips the check.
THEOREM AuthBeforeServiceAlways == Spec => []AuthBeforeService
  <1>1. RegistryInv => AuthBeforeService
    BY DEF RegistryInv
  <1> QED BY <1>1, RegistryInvariant, PTL

\* A registered session belongs to its peer and has a monitor that has yet to
\* remove it: the registry holds no zombies.
THEOREM EntryHasMonitorAlways == Spec => []EntryHasMonitor
  <1>1. RegistryInv => EntryHasMonitor
    BY DEF RegistryInv
  <1> QED BY <1>1, RegistryInvariant, PTL

\* A connection-manager tag never outlives the sessions of its peer.
THEOREM TagHasOwnerAlways == Spec => []TagHasOwner
  <1>1. RegistryInv => TagHasOwner
    BY DEF RegistryInv
  <1> QED BY <1>1, RegistryInvariant, PTL

\* A libp2p session that ends removes no entry but its own.
THEOREM LibP2PRemovesOnlyOwnAlways == Spec => LibP2PRemovesOnlyOwn
  <1>1. TypeOK /\ [Next]_vars => [RemovesOnlyOwn("libp2p")]_vars
    <2> SUFFICES ASSUME TypeOK, [Next]_vars, NEW x \in Streams,
                        Kind[x] = "libp2p", pc[x] = "unregister",
                        pc'[x] = "untag", clients[PeerOf[x]] # x
                 PROVE  clients'[PeerOf[x]] = clients[PeerOf[x]]
      BY DEF RemovesOnlyOwn
    <2> USE DEF Goto, TypeOK
    <2>1. CASE Unregister(x)
      <3>1. clients[PeerOf[x]] \in Streams \cup {None} /\ None \notin Streams
        BY StreamFacts
      <3>2. ~OwnsEntry(x)
        BY <3>1 DEF OwnsEntry, ControlStream
      <3> QED BY <2>1, <3>2 DEF Unregister
    <2>2. ASSUME NEW y \in Streams, Unregister(y), y # x PROVE FALSE
      BY <2>2 DEF Unregister
    <2>3. ASSUME NEW y \in Streams, QuietMove(y) PROVE FALSE
      BY <2>3 DEF QuietMove, QuietEdges
    <2>4. ASSUME NEW y \in Streams, FoundRegistered(y) PROVE FALSE
      BY <2>4 DEF FoundRegistered, CheckExists
    <2>5. ASSUME NEW y \in Streams, AuthOk(y) PROVE FALSE
      BY <2>5 DEF AuthOk
    <2>6. ASSUME NEW y \in Streams, Replace(y) PROVE FALSE
      BY <2>6 DEF Replace
    <2>7. ASSUME NEW y \in Streams, Insert(y) PROVE FALSE
      BY <2>7 DEF Insert
    <2>8. ASSUME NEW y \in Streams, Tag(y) \/ Untag(y) PROVE FALSE
      BY <2>8 DEF Tag, Untag
    <2>9. ASSUME NEW p \in Peers, DataStream(p) PROVE FALSE
      BY <2>9 DEF DataStream
    <2>10. CASE UNCHANGED <<clients, pc, tagged, authed, forwarded>>
      BY <2>10
    <2> HIDE DEF Goto, TypeOK
    <2> QED BY <2>1, <2>2, <2>3, <2>4, <2>5, <2>6, <2>7, <2>8, <2>9, <2>10,
               StepShape, Zenon
  <1> QED BY <1>1, TypeCorrect, PTL DEF Spec, LibP2PRemovesOnlyOwn

=============================================================================
