--------------------------- MODULE HolePunchProofs --------------------------
(***************************************************************************)
(* Proofs about HolePunch: its type invariant, the fit of the two halves   *)
(* of a punching strategy, that an attempt's paths and sockets are its     *)
(* own, for any number of attempts and any socket arrays, and that the NAT *)
(* types DetectNAT finds fit the NATs, for any servers, ports and limits.  *)
(***************************************************************************)
EXTENDS MCHolePunch, Recursion, FiniteSetTheorems, TLAPS

CPCs == {"idle", "asked", "punch", "confirm", "dial", "direct", "failed"}
SPCs == {"idle", "refused", "answered", "punch", "confirm", "listen", "accept",
         "serving", "failed"}
Methods == {"none", "coneToCone", "symToCone", "easyToEasy"}

LEMMA SocketFacts ==
    /\ NoSocket \in Sockets
    /\ \A s \in Sides : Probe(s) \in Sockets
    /\ \A s \in Sides, a \in Attempts : SocketsOf(s, a) \subseteq Sockets
    /\ \A s \in Sides, a \in Attempts :
          \A x \in SocketsOf(s, a) : x.side = s /\ x.att = a
    /\ \A s \in Sides, a \in Attempts : NoSocket \notin SocketsOf(s, a)
  <1>1. 0 \notin Attempts
    BY AttemptAssumption DEF Attempts
  <1>2. ASSUME NEW s \in Sides, NEW a \in Attempts
        PROVE  /\ SocketsOf(s, a) \subseteq Sockets
               /\ \A x \in SocketsOf(s, a) : x.side = s /\ x.att = a
    <2> SUFFICES ASSUME NEW x \in SocketsOf(s, a)
                 PROVE  x \in Sockets /\ x.side = s /\ x.att = a
      OBVIOUS
    <2>1. PICK m \in {"sock"} \cup Members : x = Socket(s, a, m)
      BY DEF SocketsOf, Array
    <2> QED BY <2>1 DEF Socket, Sockets
  <1>3. NoSocket.att = 0 /\ NoSocket \in Sockets
    BY DEF NoSocket, Socket, Sockets, Sides, Client
  <1>4. \A s \in Sides : Probe(s) \in Sockets
    BY DEF Probe, Socket, Sockets
  <1> QED BY <1>1, <1>2, <1>3, <1>4

\* A side punches with sockets of the attempt.
LEMMA PunchSocketsOwn ==
    \A s \in Sides, a \in Attempts : PunchSockets(s, a) \subseteq SocketsOf(s, a)
  BY DEF PunchSockets, SocketsOf

LEMMA TypeInit == Init => TypeOK
  BY SocketFacts DEF Init, TypeOK

LEMMA TypeStep == TypeOK /\ [Next]_vars => TypeOK'
  <1> SUFFICES ASSUME TypeOK, [Next]_vars PROVE TypeOK'
    OBVIOUS
  <1> USE SocketFacts, PunchSocketsOwn
  <1>s. Client \in Sides /\ Server \in Sides
    BY DEF Sides
  <1>1. CASE UNCHANGED vars
    BY <1>1 DEF TypeOK, vars, pathVars
  <1>2. ASSUME NEW a \in Attempts, SendNATInfo(a) PROVE TypeOK'
    BY <1>2, <1>s DEF TypeOK, SendNATInfo, CGoto, pathVars
  <1>3. ASSUME NEW a \in Attempts,
               NoSignalling(a) \/ SignallingFails(a) \/ StreamLost(a)
        PROVE TypeOK'
    <2>1. CASE NoSignalling(a)
      BY <2>1 DEF TypeOK, NoSignalling, CGoto, pathVars
    <2>2. CASE SignallingFails(a)
      BY <2>2 DEF TypeOK, SignallingFails, CGoto, pathVars
    <2>3. CASE StreamLost(a)
      BY <2>3 DEF TypeOK, StreamLost, CGoto, pathVars
    <2> QED BY <1>3, <2>1, <2>2, <2>3
  <1>4. ASSUME NEW a \in Attempts, Refuse(a) \/ AnswerLost(a) PROVE TypeOK'
    <2>1. CASE Refuse(a)
      BY <2>1 DEF TypeOK, Refuse, SGoto, pathVars
    <2>2. CASE AnswerLost(a)
      BY <2>2 DEF TypeOK, AnswerLost, SGoto, pathVars
    <2> QED BY <1>4, <2>1, <2>2
  <1>5. ASSUME NEW a \in Attempts, Answer(a) PROVE TypeOK'
    <2>1. Socket(Server, a, "sock") \in Sockets
      BY <1>s DEF SocketsOf
    <2>2. DeterminePunchMethod(nat[Client], nat[Server]) \in Methods
      BY DEF DeterminePunchMethod, Methods
    <2> QED BY <1>5, <1>s, <2>1, <2>2 DEF TypeOK, Answer, SGoto, pathVars, Methods
  <1>6. ASSUME NEW a \in Attempts, ServerPunches(a) PROVE TypeOK'
    <2>1. PunchSockets(Server, a) \subseteq Sockets /\ <<Server, a>> \in Sides \X Attempts
      BY <1>s
    <2> QED BY <1>6, <2>1 DEF TypeOK, ServerPunches, SGoto, pathVars
  <1>7. ASSUME NEW a \in Attempts, ClientPunches(a) PROVE TypeOK'
    <2>1. PunchSockets(Client, a) \subseteq Sockets /\ <<Client, a>> \in Sides \X Attempts
      BY <1>s
    <2> QED BY <1>7, <2>1 DEF TypeOK, ClientPunches, CGoto, pathVars
  <1>8. ASSUME NEW a \in Attempts, SendReady(a) PROVE TypeOK'
    BY <1>8 DEF TypeOK, SendReady, pathVars
  <1>9. ASSUME NEW a \in Attempts, NEW b \in Attempts,
               NEW x \in PunchSockets(Client, a), NEW y \in PunchSockets(Server, b),
               ClientHears(a, x, y, b)
        PROVE TypeOK'
    <2>1. x \in Sockets /\ y \in Sockets
      BY <1>s
    <2> QED BY <1>9, <1>s, <2>1 DEF TypeOK, ClientHears, TakePath, CGoto
  <1>10. ASSUME NEW a \in Attempts, NEW b \in Attempts,
                NEW x \in PunchSockets(Server, a), NEW y \in PunchSockets(Client, b),
                ServerHears(a, x, y, b)
         PROVE TypeOK'
    <2>1. x \in Sockets /\ y \in Sockets
      BY <1>s
    <2> QED BY <1>10, <1>s, <2>1 DEF TypeOK, ServerHears, TakePath, SGoto
  <1>11. ASSUME NEW a \in Attempts, Confirmed(a) PROVE TypeOK'
    <2>1. CASE cpc[a] = "confirm" /\ cpc' = [cpc EXCEPT ![a] = "dial"] /\ spc' = spc
      BY <1>11, <2>1 DEF TypeOK, Confirmed, pathVars
    <2>2. CASE spc[a] = "confirm" /\ spc' = [spc EXCEPT ![a] = "listen"] /\ cpc' = cpc
      BY <1>11, <2>2 DEF TypeOK, Confirmed, pathVars
    <2> QED BY <1>11, <2>1, <2>2 DEF Confirmed, CGoto, SGoto
  <1>12. ASSUME NEW a \in Attempts, ClientPunchTimeout(a) \/ DialFails(a)
         PROVE TypeOK'
    <2>1. CASE ClientPunchTimeout(a)
      BY <2>1 DEF TypeOK, ClientPunchTimeout, CGoto, pathVars
    <2>2. CASE DialFails(a)
      BY <2>2 DEF TypeOK, DialFails, CGoto, pathVars
    <2> QED BY <1>12, <2>1, <2>2
  <1>13. ASSUME NEW a \in Attempts,
                ServerPunchTimeout(a) \/ ListenFails(a) \/ AcceptFails(a)
         PROVE TypeOK'
    <2>1. CASE ServerPunchTimeout(a)
      BY <2>1 DEF TypeOK, ServerPunchTimeout, SGoto, pathVars
    <2>2. CASE ListenFails(a)
      BY <2>2 DEF TypeOK, ListenFails, SGoto, pathVars
    <2>3. CASE AcceptFails(a)
      BY <2>3 DEF TypeOK, AcceptFails, SGoto, pathVars
    <2> QED BY <1>13, <2>1, <2>2, <2>3
  <1>14. ASSUME NEW a \in Attempts, Listen(a) \/ AcceptToken(a) PROVE TypeOK'
    <2>1. CASE Listen(a)
      BY <2>1 DEF TypeOK, Listen, SGoto, pathVars
    <2>2. CASE AcceptToken(a)
      BY <2>2 DEF TypeOK, AcceptToken, SGoto, pathVars
    <2> QED BY <1>14, <2>1, <2>2
  <1>15. ASSUME NEW a \in Attempts, Dial(a) PROVE TypeOK'
    BY <1>15 DEF TypeOK, Dial
  <1>16. ASSUME NEW a \in Attempts, Direct(a) PROVE TypeOK'
    BY <1>16 DEF TypeOK, Direct, CGoto, pathVars
  <1>17. CASE Settled
    BY <1>17, <1>1 DEF Settled
  <1> QED BY <1>1, <1>2, <1>3, <1>4, <1>5, <1>6, <1>7, <1>8, <1>9, <1>10, <1>11,
             <1>12, <1>13, <1>14, <1>15, <1>16, <1>17 DEF Next, TimeOut

\* Signalling, punching and dialling keep the fields of every attempt in
\* shape, and no attempt goes on without a method.
THEOREM TypeCorrect == Spec => []TypeOK
  BY TypeInit, TypeStep, PTL DEF Spec

-----------------------------------------------------------------------------
(* The halves of a strategy *)

\* The server chooses the method from the two detected NAT types, before
\* either side sends, and nothing changes it.
MethodInv ==
    /\ TypeOK
    /\ \A a \in Attempts : cpc[a] = "asked" => nat[Client] # "unknown"
    /\ \A a \in Attempts : method[a] # "none" =>
          /\ nat[Client] # "unknown" /\ nat[Server] # "unknown"
          /\ method[a] = DeterminePunchMethod(nat[Client], nat[Server])
    /\ \A a \in ready : spc[a] \notin {"idle", "refused", "answered"}
    /\ \A a \in Attempts, s \in Sides : <<s, a>> \in sent => method[a] # "none"

LEMMA MethodInit == Init => MethodInv
  BY TypeInit DEF Init, MethodInv

LEMMA MethodStep == MethodInv /\ [Next]_vars => MethodInv'
  <1> SUFFICES ASSUME MethodInv, [Next]_vars PROVE MethodInv'
    OBVIOUS
  <1>t. TypeOK /\ TypeOK'
    BY TypeStep DEF MethodInv
  <1>n. /\ cpc \in [Attempts -> CPCs] /\ spc \in [Attempts -> SPCs]
        /\ method \in [Attempts -> Methods] /\ ready \subseteq Attempts
        /\ \A a \in Attempts : method[a] = "none" => spc[a] \in {"idle", "refused"}
    BY <1>t DEF TypeOK, CPCs, SPCs, Methods
  <1> DEFINE Quiet == /\ UNCHANGED <<nat, method, sent, ready>>
                      /\ \A a \in Attempts : cpc'[a] = "asked" => cpc[a] = "asked"
                      /\ \A a \in Attempts :
                            \/ spc'[a] = spc[a]
                            \/ spc'[a] \notin {"idle", "refused", "answered"}
                            \/ a \notin ready
  <1>q. ASSUME Quiet PROVE MethodInv'
    BY <1>q, <1>t, <1>n DEF MethodInv
  <1>1. CASE UNCHANGED vars
    BY <1>1, <1>q DEF vars, pathVars
  <1>2. ASSUME NEW a \in Attempts, SendNATInfo(a) PROVE MethodInv'
    BY <1>2, <1>t, <1>n DEF MethodInv, SendNATInfo, CGoto, pathVars
  <1>3. ASSUME NEW a \in Attempts,
               (TimeOut(a) /\ ~ServerPunches(a)) \/ StreamLost(a)
        PROVE MethodInv'
    <2>1. Quiet
      BY <1>3, <1>n DEF TimeOut, NoSignalling, SignallingFails, StreamLost, ClientPunchTimeout,
         ServerPunchTimeout, AcceptFails, DialFails, Confirmed, Listen, CGoto, SGoto,
         pathVars, CPCs, SPCs
    <2> QED BY <2>1, <1>q
  <1>4. ASSUME NEW a \in Attempts, Refuse(a) \/ AnswerLost(a) PROVE MethodInv'
    <2>1. a \notin ready
      BY <1>4, <1>n DEF MethodInv, Refuse, AnswerLost, SGoto
    <2> QED BY <1>4, <1>n, <1>q, <2>1 DEF Refuse, AnswerLost, SGoto, pathVars
  <1>5. ASSUME NEW a \in Attempts, Answer(a) PROVE MethodInv'
    <2>1. a \notin ready
      BY <1>5, <1>n DEF MethodInv, Answer, SGoto
    <2> QED BY <1>5, <1>t, <1>n, <2>1 DEF MethodInv, Answer, SGoto, pathVars
  <1>6. ASSUME NEW a \in Attempts, ServerPunches(a) PROVE MethodInv'
    <2>1. method[a] # "none"
      BY <1>6, <1>n DEF ServerPunches, SGoto
    <2> QED BY <1>6, <1>t, <1>n, <2>1 DEF MethodInv, ServerPunches, SGoto, pathVars
  <1>7. ASSUME NEW a \in Attempts, ClientPunches(a) PROVE MethodInv'
    <2>1. method[a] # "none"
      BY <1>7, <1>n DEF MethodInv, ClientPunches
    <2> QED BY <1>7, <1>t, <1>n, <2>1 DEF MethodInv, ClientPunches, CGoto, pathVars
  <1>8. ASSUME NEW a \in Attempts, SendReady(a) PROVE MethodInv'
    BY <1>8, <1>t, <1>n DEF MethodInv, SendReady, pathVars
  <1>9. ASSUME NEW a \in Attempts, NEW b \in Attempts, NEW x, NEW y,
               ClientHears(a, x, y, b) \/ ServerHears(a, x, y, b)
        PROVE MethodInv'
    BY <1>9, <1>n, <1>q DEF ClientHears, ServerHears, CGoto, SGoto, CPCs, SPCs
  <1>10. ASSUME NEW a \in Attempts,
                ListenFails(a) \/ Dial(a) \/ AcceptToken(a) \/ Direct(a)
         PROVE MethodInv'
    BY <1>10, <1>n, <1>q DEF ListenFails, Dial, AcceptToken, Direct, CGoto, SGoto,
       pathVars, CPCs, SPCs
  <1>11. CASE Settled
    BY <1>11, <1>1 DEF Settled
  <1> QED BY <1>1, <1>2, <1>3, <1>4, <1>5, <1>6, <1>7, <1>8, <1>9, <1>10, <1>11
          DEF Next

\* Whatever the NAT types, the function ExecutePunch picks on the client and
\* the one it picks on the server are the two halves of one strategy.
THEOREM RolesComplementaryAlways == Spec => []RolesComplementary
  <1>1. MethodInv => RolesComplementary
    <2> SUFFICES ASSUME MethodInv, NEW a \in Attempts,
                        <<Client, a>> \in sent
                 PROVE  /\ <<Strategy(Client, a), Strategy(Server, a)>> \in Complementary
                        /\ Strategy(Client, a) = "punchBothEasySym" =>
                              IsEasySymmetric(nat[Client]) /\ IsEasySymmetric(nat[Server])
      BY DEF RolesComplementary
    <2>1. /\ nat[Client] \in NATTypes /\ nat[Server] \in NATTypes
          /\ method[a] # "none"
          /\ method[a] = DeterminePunchMethod(nat[Client], nat[Server])
      BY DEF MethodInv, TypeOK, Sides
    <2> QED BY <2>1 DEF Strategy, ExecutePunch, DeterminePunchMethod, Complementary,
                NATTypes, IsCone, IsSymmetric, IsEasySymmetric
  <1> QED BY <1>1, MethodInit, MethodStep, PTL DEF Spec

-----------------------------------------------------------------------------
(* Paths and sockets *)

\* While a side holds a path its socket is open and the attempt's own; the
\* sockets of a client that has not begun or has given up are closed; and a
\* server serves the client that dialled the socket it listens on.
Own(a) ==
    /\ cpc[a] \in {"idle", "asked", "failed"} =>
          open \cap SocketsOf(Client, a) = {}
    /\ cpc[a] \in {"confirm", "dial", "direct"} =>
          picked[Client][a] \in open \cap SocketsOf(Client, a)
    /\ spc[a] \in {"confirm", "listen", "accept", "serving"} =>
          picked[Server][a] \in open \cap SocketsOf(Server, a)
    /\ a \in dialed => cpc[a] \in {"dial", "direct", "failed"}
    /\ spc[a] = "serving" => a \in dialed /\ remote[Client][a] = picked[Server][a]
    /\ cpc[a] = "direct" => spc[a] = "serving"

PathInv == TypeOK /\ PathOfOneAttempt /\ \A a \in Attempts : Own(a)

\* Sockets of different sides or attempts differ.
LEMMA SocketsDisjoint ==
    ASSUME NEW s \in Sides, NEW u \in Sides, NEW a \in Attempts, NEW b \in Attempts,
           s # u \/ a # b
    PROVE  SocketsOf(s, a) \cap SocketsOf(u, b) = {}
  BY SocketFacts

LEMMA PathInit == Init => PathInv
  <1> SUFFICES ASSUME Init PROVE PathInv
    OBVIOUS
  <1>1. TypeOK
    BY TypeInit
  <1>2. PathOfOneAttempt
    BY DEF Init, PathOfOneAttempt
  <1>3. \A a \in Attempts : Own(a)
    BY DEF Init, Own
  <1> QED BY <1>1, <1>2, <1>3 DEF PathInv

LEMMA PathStep == PathInv /\ [Next]_vars => PathInv'
  <1> SUFFICES ASSUME PathInv, [Next]_vars PROVE PathInv'
    OBVIOUS
  <1>s. Client \in Sides /\ Server \in Sides /\ Client # Server
    BY DEF Sides, Client, Server
  <1>t. TypeOK /\ TypeOK'
    BY TypeStep DEF PathInv
  <1>o. \A a \in Attempts : Own(a)
    BY DEF PathInv
  <1>p. PathOfOneAttempt
    BY DEF PathInv
  <1>n. /\ cpc \in [Attempts -> CPCs] /\ spc \in [Attempts -> SPCs]
        /\ picked \in [Sides -> [Attempts -> Sockets]]
        /\ remote \in [Sides -> [Attempts -> Sockets]]
    BY <1>t DEF TypeOK, CPCs, SPCs
  <1>q. ASSUME PathOfOneAttempt', \A e \in Attempts : Own(e)' PROVE PathInv'
    BY <1>q, <1>t DEF PathInv
  <1>u. ASSUME UNCHANGED <<picked, remote>> PROVE PathOfOneAttempt'
    BY <1>u, <1>p DEF PathOfOneAttempt
  <1>d. \A a, e \in Attempts : /\ SocketsOf(Client, a) \cap SocketsOf(Server, e) = {}
                               /\ a # e => SocketsOf(Client, a) \cap SocketsOf(Client, e) = {}
                               /\ a # e => SocketsOf(Server, a) \cap SocketsOf(Server, e) = {}
    BY <1>s, SocketsDisjoint
  <1>w. \A a \in Attempts : /\ PunchSockets(Client, a) \subseteq SocketsOf(Client, a)
                            /\ PunchSockets(Server, a) \subseteq SocketsOf(Server, a)
                            /\ Socket(Server, a, "sock") \in SocketsOf(Server, a)
    BY <1>s, PunchSocketsOwn DEF SocketsOf
  <1>1. CASE UNCHANGED vars
    BY <1>1, <1>o, <1>q, <1>u DEF vars, pathVars, Own
  <1>2. ASSUME NEW a \in Attempts, SendNATInfo(a) PROVE PathInv'
    <2>1. ASSUME NEW e \in Attempts PROVE Own(e)'
      BY <1>2, <1>o, <1>n DEF Own, SendNATInfo, CGoto, pathVars
    <2> QED BY <1>2, <2>1, <1>q, <1>u DEF SendNATInfo, pathVars
  <1>3. ASSUME NEW a \in Attempts,
               NoSignalling(a) \/ SignallingFails(a) \/ StreamLost(a)
        PROVE PathInv'
    <2>1. ASSUME NEW e \in Attempts PROVE Own(e)'
      BY <1>3, <1>o, <1>n DEF Own, NoSignalling, SignallingFails, StreamLost, CGoto,
                               pathVars
    <2> QED BY <1>3, <2>1, <1>q, <1>u DEF NoSignalling, SignallingFails, StreamLost,
                                          pathVars
  <1>4. ASSUME NEW a \in Attempts, Refuse(a) PROVE PathInv'
    <2>1. ASSUME NEW e \in Attempts PROVE Own(e)'
      BY <1>4, <1>o, <1>n DEF Own, Refuse, SGoto, pathVars
    <2> QED BY <1>4, <2>1, <1>q, <1>u DEF Refuse, pathVars
  <1>5. ASSUME NEW a \in Attempts,
               AnswerLost(a) \/ ServerPunchTimeout(a) \/ ListenFails(a)
        PROVE PathInv'
    <2>1. PICK from \in {"answered", "punch", "listen"}, to \in {"refused", "failed"} :
            /\ spc[a] = from /\ spc' = [spc EXCEPT ![a] = to]
            /\ open' = open \ SocketsOf(Server, a)
            /\ UNCHANGED <<cpc, picked, remote, dialed>>
      BY <1>5 DEF AnswerLost, ServerPunchTimeout, ListenFails, SGoto, pathVars
    <2>2. ASSUME NEW e \in Attempts PROVE Own(e)'
      BY <2>1, <1>o, <1>n, <1>d DEF Own
    <2> QED BY <2>1, <2>2, <1>q, <1>u
  <1>6. ASSUME NEW a \in Attempts, Answer(a) \/ ServerPunches(a) PROVE PathInv'
    <2>1. PICK from \in {"idle", "answered"}, to \in {"answered", "punch"},
               new \in SUBSET SocketsOf(Server, a) :
            /\ spc[a] = from /\ spc' = [spc EXCEPT ![a] = to]
            /\ open' = open \cup new
            /\ UNCHANGED <<cpc, picked, remote, dialed>>
      <3>1. CASE Answer(a)
        <4>1. \/ open' = open \cup {Socket(Server, a, "sock")}
              \/ open' = open \cup {}
          BY <3>1 DEF Answer
        <4> QED BY <3>1, <4>1, <1>w DEF Answer, SGoto, pathVars
      <3>2. CASE ServerPunches(a)
        BY <3>2, <1>w DEF ServerPunches, SGoto, pathVars
      <3> QED BY <1>6, <3>1, <3>2
    <2>2. ASSUME NEW e \in Attempts PROVE Own(e)'
      BY <2>1, <1>o, <1>n, <1>d DEF Own
    <2> QED BY <2>1, <2>2, <1>q, <1>u
  <1>7. ASSUME NEW a \in Attempts, ClientPunches(a) PROVE PathInv'
    <2>1. ASSUME NEW e \in Attempts PROVE Own(e)'
      BY <1>7, <1>o, <1>n, <1>d, <1>w DEF Own, ClientPunches, CGoto, pathVars
    <2> QED BY <1>7, <2>1, <1>q, <1>u DEF ClientPunches, pathVars
  <1>8. ASSUME NEW a \in Attempts, SendReady(a) PROVE PathInv'
    <2>1. ASSUME NEW e \in Attempts PROVE Own(e)'
      BY <1>8, <1>o DEF Own, SendReady, pathVars
    <2> QED BY <1>8, <2>1, <1>q, <1>u DEF SendReady, pathVars
  <1>9. ASSUME NEW a \in Attempts, NEW b \in Attempts,
               NEW x \in PunchSockets(Client, a), NEW y \in PunchSockets(Server, b),
               ClientHears(a, x, y, b)
        PROVE PathInv'
    <2>1. /\ b = a
          /\ x \in SocketsOf(Client, a) /\ x \in open /\ y \in SocketsOf(Server, a)
      BY <1>9, <1>w DEF ClientHears, Hears, Accepts
    <2>2. /\ x.att = a /\ y.att = a
      BY <2>1, <1>s, SocketFacts
    <2>3. /\ picked' = [picked EXCEPT ![Client][a] = x]
          /\ remote' = [remote EXCEPT ![Client][a] = y]
          /\ open' = (open \ SocketsOf(Client, a)) \cup {x}
          /\ spc' = spc /\ dialed' = dialed
          /\ cpc[a] = "punch"
      BY <1>9 DEF ClientHears, TakePath, CGoto
    <2>4. PICK to \in {"confirm", "dial"} : cpc' = [cpc EXCEPT ![a] = to]
      BY <1>9 DEF ClientHears, CGoto
    <2>5. PathOfOneAttempt'
      BY <1>p, <1>n, <1>s, <2>2, <2>3 DEF PathOfOneAttempt
    <2>6. ASSUME NEW e \in Attempts PROVE Own(e)'
      <3>1. picked'[Server][e] = picked[Server][e]
        BY <1>n, <1>s, <2>3
      <3>2. CASE e = a
        <4>1. picked'[Client][a] = x /\ cpc'[a] = to
          BY <1>n, <1>s, <2>3, <2>4
        <4>2. a \notin dialed /\ spc[a] # "serving"
          BY <1>o, <2>3 DEF Own
        <4> QED BY <1>o, <1>d, <2>1, <2>3, <2>4, <3>1, <3>2, <4>1, <4>2 DEF Own
      <3>3. CASE e # a
        <4>1. /\ picked'[Client][e] = picked[Client][e]
              /\ remote'[Client][e] = remote[Client][e]
              /\ cpc'[e] = cpc[e]
          BY <1>n, <1>s, <2>3, <2>4, <3>3
        <4> QED BY <1>o, <1>d, <2>1, <2>3, <3>1, <3>3, <4>1 DEF Own
      <3> QED BY <3>2, <3>3
    <2> QED BY <2>5, <2>6, <1>q
  <1>10. ASSUME NEW a \in Attempts, NEW b \in Attempts,
                NEW x \in PunchSockets(Server, a), NEW y \in PunchSockets(Client, b),
                ServerHears(a, x, y, b)
         PROVE PathInv'
    <2>1. /\ b = a
          /\ x \in SocketsOf(Server, a) /\ x \in open /\ y \in SocketsOf(Client, a)
      BY <1>10, <1>w DEF ServerHears, Hears, Accepts
    <2>2. /\ x.att = a /\ y.att = a
      BY <2>1, <1>s, SocketFacts
    <2>3. /\ picked' = [picked EXCEPT ![Server][a] = x]
          /\ remote' = [remote EXCEPT ![Server][a] = y]
          /\ open' = (open \ SocketsOf(Server, a)) \cup {x}
          /\ cpc' = cpc /\ dialed' = dialed
          /\ spc[a] = "punch"
      BY <1>10 DEF ServerHears, TakePath, SGoto
    <2>4. PICK to \in {"confirm", "listen"} : spc' = [spc EXCEPT ![a] = to]
      BY <1>10 DEF ServerHears, SGoto
    <2>5. PathOfOneAttempt'
      BY <1>p, <1>n, <1>s, <2>2, <2>3 DEF PathOfOneAttempt
    <2>6. ASSUME NEW e \in Attempts PROVE Own(e)'
      <3>1. /\ picked'[Client][e] = picked[Client][e]
            /\ remote'[Client][e] = remote[Client][e]
        BY <1>n, <1>s, <2>3
      <3>2. CASE e = a
        <4>1. picked'[Server][a] = x /\ spc'[a] = to
          BY <1>n, <1>s, <2>3, <2>4
        <4> QED BY <1>o, <1>d, <2>1, <2>3, <2>4, <3>1, <3>2, <4>1 DEF Own
      <3>3. CASE e # a
        <4>1. picked'[Server][e] = picked[Server][e] /\ spc'[e] = spc[e]
          BY <1>n, <1>s, <2>3, <2>4, <3>3
        <4> QED BY <1>o, <1>d, <2>1, <2>3, <3>1, <3>3, <4>1 DEF Own
      <3> QED BY <3>2, <3>3
    <2> QED BY <2>5, <2>6, <1>q
  <1>11. ASSUME NEW a \in Attempts, Confirmed(a) PROVE PathInv'
    <2>1. ASSUME NEW e \in Attempts PROVE Own(e)'
      <3>1. CASE CGoto(a, "confirm", "dial") /\ spc' = spc
        BY <1>11, <3>1, <1>o, <1>n DEF Own, Confirmed, CGoto, pathVars
      <3>2. CASE SGoto(a, "confirm", "listen") /\ cpc' = cpc
        BY <1>11, <3>2, <1>o, <1>n DEF Own, Confirmed, SGoto, pathVars
      <3> QED BY <1>11, <3>1, <3>2 DEF Confirmed
    <2> QED BY <1>11, <2>1, <1>q, <1>u DEF Confirmed, pathVars
  <1>12. ASSUME NEW a \in Attempts, ClientPunchTimeout(a) \/ DialFails(a)
         PROVE PathInv'
    <2>1. /\ cpc[a] \in {"punch", "dial"} /\ cpc' = [cpc EXCEPT ![a] = "failed"]
          /\ open' = open \ SocketsOf(Client, a)
          /\ UNCHANGED <<spc, picked, remote, dialed>>
      BY <1>12 DEF ClientPunchTimeout, DialFails, CGoto, pathVars
    <2>2. ASSUME NEW e \in Attempts PROVE Own(e)'
      BY <2>1, <1>o, <1>n, <1>d DEF Own
    <2> QED BY <2>1, <2>2, <1>q, <1>u
  <1>13. ASSUME NEW a \in Attempts, Listen(a) \/ AcceptFails(a) PROVE PathInv'
    <2>1. PICK from \in {"listen", "accept"}, to \in {"accept", "failed"} :
            /\ spc[a] = from /\ spc' = [spc EXCEPT ![a] = to]
            /\ UNCHANGED <<open, cpc, picked, remote, dialed>>
      BY <1>13 DEF Listen, AcceptFails, SGoto, pathVars
    <2>2. ASSUME NEW e \in Attempts PROVE Own(e)'
      BY <2>1, <1>o, <1>n DEF Own
    <2> QED BY <2>1, <2>2, <1>q, <1>u
  <1>14. ASSUME NEW a \in Attempts, AcceptToken(a) PROVE PathInv'
    <2>1. ASSUME NEW e \in Attempts PROVE Own(e)'
      BY <1>14, <1>o, <1>n DEF Own, AcceptToken, SGoto, pathVars
    <2> QED BY <1>14, <2>1, <1>q, <1>u DEF AcceptToken, pathVars
  <1>15. ASSUME NEW a \in Attempts, Dial(a) PROVE PathInv'
    <2>1. ASSUME NEW e \in Attempts PROVE Own(e)'
      BY <1>15, <1>o, <1>n DEF Own, Dial
    <2> QED BY <1>15, <2>1, <1>q, <1>u DEF Dial
  <1>16. ASSUME NEW a \in Attempts, Direct(a) PROVE PathInv'
    <2>1. ASSUME NEW e \in Attempts PROVE Own(e)'
      BY <1>16, <1>o, <1>n DEF Own, Direct, CGoto, pathVars
    <2> QED BY <1>16, <2>1, <1>q, <1>u DEF Direct, pathVars
  <1>17. CASE Settled
    BY <1>17, <1>1 DEF Settled
  <1> QED BY <1>1, <1>2, <1>3, <1>4, <1>5, <1>6, <1>7, <1>8, <1>9, <1>10, <1>11,
             <1>12, <1>13, <1>14, <1>15, <1>16, <1>17 DEF Next, TimeOut

LEMMA PathInvariant == Spec => []PathInv
  BY PathInit, PathStep, PTL DEF Spec

\* Both ends of a path belong to the attempt that punched it, however long
\* the packets of earlier attempts are under way.
THEOREM PathOfOneAttemptAlways == Spec => []PathOfOneAttempt
  <1>1. PathInv => PathOfOneAttempt
    BY DEF PathInv
  <1> QED BY <1>1, PathInvariant, PTL

\* A client that goes direct is served by the server's goroutine of the same
\* attempt, over sockets both still hold.
THEOREM DirectIsServedAlways == Spec => []DirectIsServed
  <1>1. PathInv => DirectIsServed
    BY DEF PathInv, Own, DirectIsServed
  <1> QED BY <1>1, PathInvariant, PTL

\* A failed attempt has closed every socket it opened on the client.
THEOREM ClientFreesSocketsAlways == Spec => []ClientFreesSockets
  <1>1. PathInv => ClientFreesSockets
    BY DEF PathInv, Own, ClientFreesSockets
  <1> QED BY <1>1, PathInvariant, PTL

-----------------------------------------------------------------------------
(* NAT detection *)

Span == HighPort - LowPort + 1

LEMMA SpanFacts ==
    /\ LowPort \in Nat /\ HighPort \in Nat /\ Span \in Nat /\ Span > 1
    /\ StunServers \in Nat /\ StunServers >= 1 /\ PortLimit \in Nat
    /\ HighPort = LowPort + Span - 1
BY PortAssumption DEF Span

\* The remainder of what one step leaves the range by.
LEMMA WrapUp ==
    ASSUME NEW B \in Nat, B > 1, NEW x \in 0 .. (B - 1), NEW g \in 0 .. (B - 1)
    PROVE  (x + g) % B \in 0 .. (B - 1) /\ (x + g) % B \in {x + g, x + g - B}
<1> DEFINE y == x + g
           q == y \div B
           r == y % B
<1>1. q \in Nat /\ r \in 0 .. (B - 1) /\ y = r + B * q
  <2>1. y \in Nat
      OBVIOUS
  <2> HIDE DEF y
  <2> QED  BY <2>1, DivMod, Zenon
<1>2. y \in Nat /\ y < 2 * B
    OBVIOUS
<1> HIDE DEF q, r, y
<1>3. ~(q >= 2)
  <2> SUFFICES ASSUME q >= 2 PROVE FALSE
      OBVIOUS
  <2>1. B * q >= B * 2
      BY <1>1
  <2> QED  BY <1>1, <1>2, <2>1
<1>4. q = 0 \/ q = 1
    BY <1>1, <1>3
<1>5. y = r \/ y = r + B
    BY <1>1, <1>4
<1> QED  BY <1>1, <1>2, <1>5 DEF y, r

LEMMA WrapDown ==
    ASSUME NEW B \in Nat, B > 1, NEW x \in 0 .. (B - 1), NEW g \in 0 .. (B - 1)
    PROVE  (x - g) % B \in 0 .. (B - 1) /\ (x - g) % B \in {x - g, x - g + B}
<1> DEFINE y == x - g
           q == y \div B
           r == y % B
<1>1. q \in Int /\ r \in 0 .. (B - 1) /\ y = r + B * q
  <2>1. y \in Int
      OBVIOUS
  <2> HIDE DEF y
  <2> QED  BY <2>1
<1>2. y \in Int /\ y < B /\ y > -B
    OBVIOUS
<1> HIDE DEF q, r, y
<1>3. ~(q >= 1)
  <2> SUFFICES ASSUME q >= 1 PROVE FALSE
      OBVIOUS
  <2>1. B * q >= B
      BY <1>1
  <2> QED  BY <1>1, <1>2, <2>1
<1>4. ~(q <= -2)
  <2> SUFFICES ASSUME q <= -2 PROVE FALSE
      OBVIOUS
  <2>1. B * q <= B * (-2)
      BY <1>1
  <2>2. B * (-2) = -(B + B)
      OBVIOUS
  <2> QED  BY <1>1, <1>2, <2>1, <2>2
<1>5. q = 0 \/ q = -1
    BY <1>1, <1>3, <1>4
<1>6. y = r \/ y = r - B
  <2>1. B * 0 = 0 /\ B * (-1) = -B
      OBVIOUS
  <2> QED  BY <1>1, <1>5, <2>1
<1> QED  BY <1>1, <1>2, <1>6 DEF y, r

\* The gaps, and what becomes of the queries, as sequences.
LEMMA ServerSequence ==
    ASSUME NEW S, NEW q \in [1 .. StunServers -> S]
    PROVE  q \in Seq(S) /\ Len(q) = StunServers
<1>1. StunServers \in Nat /\ q = [i \in 1 .. StunServers |-> q[i]]
      /\ \A i \in 1 .. StunServers : q[i] \in S
    BY SpanFacts
<1> QED  BY <1>1

LEMMA AllocationDef ==
    ASSUME NEW G \in Nat, NEW gaps \in [1 .. StunServers -> 1 .. G],
           NEW start \in LowPort .. HighPort, NEW dir \in {1, -1}
    PROVE  LET m == Allocation(dir, start, gaps)
           IN  /\ m \in [1 .. StunServers + 1 -> LowPort .. HighPort]
               /\ m[1] = start
               /\ \A k \in 1 .. StunServers :
                     m[k + 1] = LowPort + ((m[k] - LowPort + dir * gaps[k]) % Span)
<1> DEFINE D == 1 .. Len(gaps) + 1
           V == LowPort .. HighPort
           N(k, x) == LowPort + ((x - LowPort + dir * gaps[k - 1]) % (HighPort - LowPort + 1))
           Sat(v) == v = [k \in D |-> IF k = 1 THEN start ELSE N(k, v[k - 1])]
           v0 == CHOOSE v : Sat(v)
           b  == [k \in D |-> start]
           nx == [k \in D |-> k - 1]
           F  == [k \in D |-> [x \in V |-> N(k, x)]]
           mm == [k \in D |-> k]
<1>1. Len(gaps) = StunServers /\ StunServers \in Nat /\ D = 1 .. StunServers + 1
    BY ServerSequence, SpanFacts
<1>2. ASSUME NEW k \in D, k \notin {1}, NEW x \in V
      PROVE  N(k, x) \in V
  <2>1. k - 1 \in 1 .. StunServers
      BY <1>1, <1>2
  <2>2. gaps[k - 1] \in Nat
      BY <2>1
  <2>3. dir * gaps[k - 1] \in Int
      BY <2>2
  <2>4. x - LowPort + dir * gaps[k - 1] \in Int
      BY <2>3, SpanFacts
  <2>5. \A y \in Int : y % Span \in 0 .. (Span - 1)
      BY SpanFacts
  <2>6. (x - LowPort + dir * gaps[k - 1]) % Span \in 0 .. (Span - 1)
      BY <2>4, <2>5, Zenon
  <2>7. \A y \in 0 .. (Span - 1) : LowPort + y \in V
      BY SpanFacts
  <2> QED  BY <2>6, <2>7, Zenon DEF Span
<1>0. Descends(D, V, {1}, b, nx, F, mm)
  <2>1. b \in [D -> V] /\ mm \in [D -> Nat]
      BY <1>1
  <2>2. ASSUME NEW k \in D, k \notin {1}
        PROVE  nx[k] \in D /\ mm[nx[k]] < mm[k] /\ F[k] \in [V -> V]
    <3>1. nx[k] \in D /\ mm[nx[k]] < mm[k]
        BY <1>1, <2>2
    <3>2. \A x \in V : N(k, x) \in V
        BY <1>2, <2>2
    <3> HIDE DEF N, V, D
    <3> QED  BY <3>1, <3>2
  <2> HIDE DEF D, b, nx, F, mm
  <2> QED  BY <2>1, <2>2 DEF Descends
<1>3. \A k \in D : k # 1 => k - 1 \in D
    BY <1>1
<1>4. PICK v \in [D -> V] : Obeys(v, D, V, {1}, b, nx, F)
  <2> HIDE DEF D, V, b, nx, F, mm
  <2> QED  BY <1>0, RecursionExists
<1>5. Sat(v)
  <2> HIDE DEF D, V, N
  <2> QED  BY <1>3, <1>4 DEF Obeys
<1>6. Sat(v0)
    BY <1>5, Zenon
<1>7. Obeys(v0, D, V, {1}, b, nx, F)
  <2> HIDE DEF v0, D, V, N
  <2> QED  BY <1>3, <1>6 DEF Obeys
<1>8. v0 \in [D -> V]
  <2> HIDE DEF D, V, b, nx, F, mm, v0
  <2> QED  BY <1>0, <1>7, RecursionType
<1>9. Allocation(dir, start, gaps) = v0
    BY DEF Allocation
<1>10. v0[1] = start
  <2>1. 1 \in D
      BY <1>1
  <2> HIDE DEF v0, D, N
  <2> QED  BY <1>6, <2>1
<1>11. ASSUME NEW k \in 1 .. StunServers
       PROVE  v0[k + 1] = LowPort + ((v0[k] - LowPort + dir * gaps[k]) % Span)
  <2>1. k + 1 \in D /\ k + 1 # 1 /\ (k + 1) - 1 = k
      BY <1>1
  <2>2. v0[k + 1] = N(k + 1, v0[(k + 1) - 1])
    <3> HIDE DEF v0, D, N
    <3> QED  BY <1>6, <2>1
  <2> HIDE DEF v0, D
  <2> QED  BY <2>1, <2>2 DEF Span
<1> HIDE DEF v0
<1> QED  BY <1>1, <1>8, <1>9, <1>10, <1>11

\* To get from port x to port y, d further in direction dir, at most once
\* around the range.
Leads(dir, x, d, y) == y - x = dir * d \/ y - x = dir * (d - Span)

\* One mapping lies its gap behind the one before it.
LEMMA MappingStep ==
    ASSUME NEW dir \in {1, -1}, NEW x \in LowPort .. HighPort, NEW g \in 0 .. (Span - 1)
    PROVE  Leads(dir, x, g, LowPort + ((x - LowPort + dir * g) % Span))
<1> DEFINE z == x - LowPort
<1>1. z \in 0 .. (Span - 1) /\ x = LowPort + z /\ z \in Int
    BY SpanFacts
<1>2. g \in Int /\ Span \in Int /\ LowPort \in Int /\ x \in Int
    BY SpanFacts
<1> HIDE DEF z
<1>3. CASE dir = 1
  <2>1. dir * g = g /\ dir * (g - Span) = g - Span
      BY <1>2, <1>3
  <2>2. (z + g) % Span \in 0 .. (Span - 1) /\ (z + g) % Span \in {z + g, z + g - Span}
      BY <1>1, SpanFacts, WrapUp
  <2> DEFINE r == (z + g) % Span
  <2> HIDE DEF r
  <2>3. r \in Int /\ (r = z + g \/ r = z + g - Span)
      BY <1>2, <2>2 DEF r
  <2>4. (LowPort + r) - x = g \/ (LowPort + r) - x = g - Span
      BY <1>1, <1>2, <2>3
  <2>5. x - LowPort + dir * g = z + g
      BY <2>1 DEF z
  <2> QED  BY <2>1, <2>4, <2>5, Zenon DEF Leads, r
<1>4. CASE dir = -1
  <2>1. dir * g = -g /\ dir * (g - Span) = Span - g
      BY <1>2, <1>4
  <2>2. (z - g) % Span \in 0 .. (Span - 1) /\ (z - g) % Span \in {z - g, z - g + Span}
      BY <1>1, SpanFacts, WrapDown
  <2> DEFINE r == (z - g) % Span
  <2> HIDE DEF r
  <2>3. r \in Int /\ (r = z - g \/ r = z - g + Span)
      BY <1>2, <2>2 DEF r
  <2>4. (LowPort + r) - x = -g \/ (LowPort + r) - x = Span - g
      BY <1>1, <1>2, <2>3
  <2>5. x - LowPort + dir * g = z - g
      BY <1>1, <1>2, <2>1 DEF z
  <2> QED  BY <2>1, <2>4, <2>5, Zenon DEF Leads, r
<1> QED  BY <1>3, <1>4

\* Two ways after each other, which together do not come round.
LEMMA LeadsOn ==
    ASSUME NEW dir \in {1, -1},
           NEW x \in LowPort .. HighPort, NEW y \in LowPort .. HighPort,
           NEW z \in LowPort .. HighPort,
           NEW d \in Nat, NEW g \in Nat, d + g < Span,
           Leads(dir, x, d, y), Leads(dir, y, g, z)
    PROVE  Leads(dir, x, d + g, z)
<1>1. x \in Int /\ y \in Int /\ z \in Int /\ d \in Int /\ g \in Int /\ Span \in Int
      /\ LowPort \in Int /\ HighPort \in Int /\ HighPort = LowPort + Span - 1
    BY SpanFacts
<1>2. CASE dir = 1
    BY <1>1, <1>2 DEF Leads
<1>3. CASE dir = -1
    BY <1>1, <1>3 DEF Leads
<1> QED  BY <1>2, <1>3

\* Mappings j and k of an allocation with gaps up to G: k - j gaps lie between
\* them.
Between(m, dir, G) ==
    \A j, k \in 1 .. StunServers + 1 : j <= k =>
        \E d \in (k - j) .. (StunServers * G) : Leads(dir, m[j], d, m[k])

LEMMA Products ==
    ASSUME NEW G \in Nat
    PROVE  /\ 0 * G = 0
           /\ \A i \in Nat : i * G \in Nat /\ (i + 1) * G = i * G + G
           /\ \A i, n \in Nat : i <= n => i * G <= n * G
<1>1. 0 * G = 0 /\ \A i \in Nat : i * G \in Nat /\ (i + 1) * G = i * G + G
    OBVIOUS
<1>2. ASSUME NEW i \in Nat, NEW n \in Nat, i <= n PROVE i * G <= n * G
  <2>1. PICK c \in Nat : n = i + c
    <3>1. n - i \in Nat /\ n = i + (n - i)
        BY <1>2
    <3> QED  BY <3>1
  <2>2. n * G = i * G + c * G /\ c * G \in Nat /\ i * G \in Nat
      BY <2>1
  <2> QED  BY <2>2
<1> QED  BY <1>1, <1>2

LEMMA AllocationBetween ==
    ASSUME NEW G \in Nat, NEW gaps \in [1 .. StunServers -> 1 .. G],
           NEW start \in LowPort .. HighPort, NEW dir \in {1, -1},
           StunServers * G < Span
    PROVE  Between(Allocation(dir, start, gaps), dir, G)
<1> DEFINE m == Allocation(dir, start, gaps)
           N == StunServers
           V == LowPort .. HighPort
           P == { i \in Nat : \A j \in 1 .. N + 1 : j + i <= N + 1 =>
                     \E d \in i .. (i * G) : Leads(dir, m[j], d, m[j + i]) }
<1>0. N \in Nat /\ N >= 1 /\ Span \in Nat
    BY SpanFacts
<1>1. /\ m \in [1 .. N + 1 -> V]
      /\ \A k \in 1 .. N : m[k + 1] = LowPort + ((m[k] - LowPort + dir * gaps[k]) % Span)
    BY AllocationDef, ZenonT(30)
<1> HIDE DEF m, V
<1>2. \A i \in 0 .. N : i * G \in Nat /\ i * G <= N * G
    BY <1>0, Products
<1>3. ASSUME NEW i \in Nat, \A x \in 0 .. (i - 1) : x \in P
      PROVE  i \in P
  <2> SUFFICES ASSUME NEW j \in 1 .. N + 1, j + i <= N + 1
               PROVE  \E d \in i .. (i * G) : Leads(dir, m[j], d, m[j + i])
      OBVIOUS
  <2>0. j \in Nat /\ m[j] \in V
      BY <1>1
  <2>1. CASE i = 0
    <3>1. j + i = j /\ 0 \in i .. (i * G)
        BY <2>0, <2>1, Products
    <3>2. m[j] - m[j] = dir * 0
        BY <2>0, SpanFacts DEF V
    <3>3. Leads(dir, m[j], 0, m[j])
        BY <3>2 DEF Leads
    <3> QED  BY <3>1, <3>3, Zenon
  <2>2. CASE i # 0
    <3> DEFINE h == i - 1
               k == j + h
    <3>1. h \in 0 .. (i - 1) /\ h \in Nat /\ h + 1 = i
        BY <2>2
    <3>2. k \in 1 .. N /\ k \in 1 .. N + 1 /\ k + 1 \in 1 .. N + 1 /\ j + h <= N + 1 /\ k + 1 = j + i
        BY <1>0, <2>0, <3>1
    <3>3. PICK d \in h .. (h * G) : Leads(dir, m[j], d, m[k])
        BY <1>3, <3>1, <3>2
    <3> HIDE DEF h, k
    <3>4. gaps[k] \in 1 .. G
        BY <3>2
    <3>5. i * G = h * G + G /\ h * G \in Nat
        BY <3>1, Products
    <3>6. i * G \in Nat /\ i * G <= N * G /\ N * G \in Nat
      <4>1. i \in 0 .. N /\ N \in 0 .. N
          BY <1>0, <2>0
      <4> QED  BY <1>2, <4>1
    <3>7. d \in Nat /\ gaps[k] \in Nat /\ d + gaps[k] \in i .. (i * G) /\ d + gaps[k] < Span
          /\ gaps[k] \in 0 .. (Span - 1)
      <4> DEFINE a == h * G
                 b == i * G
                 c == N * G
      <4>1. a \in Nat /\ b \in Nat /\ c \in Nat /\ b = a + G /\ b <= c /\ c < Span
            /\ d \in h .. a
          BY <3>3, <3>5, <3>6
      <4> HIDE DEF a, b, c
      <4>2. d + gaps[k] \in i .. b /\ d \in Nat /\ gaps[k] \in Nat
          BY <3>1, <3>4, <4>1
      <4>3. d + gaps[k] < Span /\ gaps[k] \in 0 .. (Span - 1)
          BY <1>0, <3>4, <4>1, <4>2, SMTT(30)
      <4> QED  BY <4>2, <4>3 DEF b
    <3>8. m[k] \in V /\ m[k + 1] \in V
        BY <1>1, <3>2
    <3>9. Leads(dir, m[k], gaps[k], m[k + 1])
        BY <1>1, <3>2, <3>7, <3>8, MappingStep DEF V
    <3>10. Leads(dir, m[j], d + gaps[k], m[k + 1])
        BY <2>0, <3>3, <3>7, <3>8, <3>9, LeadsOn DEF V
    <3> QED  BY <3>2, <3>7, <3>10
  <2> QED  BY <2>1, <2>2
<1>4. P = Nat
  <2>1. P \subseteq Nat
      OBVIOUS
  <2> HIDE DEF P
  <2> QED  BY <1>3, <2>1, Induction
<1>5. ASSUME NEW j \in 1 .. N + 1, NEW k \in 1 .. N + 1, j <= k
      PROVE  \E d \in (k - j) .. (N * G) : Leads(dir, m[j], d, m[k])
  <2>1. k - j \in Nat /\ k - j \in 0 .. N /\ j + (k - j) = k /\ j + (k - j) <= N + 1
      BY <1>0, <1>5
  <2>2. PICK d \in (k - j) .. ((k - j) * G) : Leads(dir, m[j], d, m[j + (k - j)])
      BY <1>4, <2>1
  <2>3. (k - j) * G \in Nat /\ (k - j) * G <= N * G
      BY <1>2, <2>1
  <2>4. N * G \in Nat
      BY <1>0
  <2>5. d \in (k - j) .. (N * G)
      BY <2>1, <2>2, <2>3, <2>4
  <2> QED  BY <2>1, <2>2, <2>5
<1> QED  BY <1>5 DEF Between, m

\* Max and Min of ports.
LEMMA PortEnds ==
    ASSUME NEW T, T \subseteq LowPort .. HighPort, T # {}
    PROVE  /\ Max(T) \in T /\ Min(T) \in T
           /\ \A x \in T : Min(T) <= x /\ x <= Max(T)
<1>0. T \subseteq Nat /\ \A x \in T : x <= HighPort
    BY SpanFacts
<1>1. \E x \in T : \A y \in T : x =< y
    BY <1>0, LeastElement
<1>2. Min(T) \in T /\ \A y \in T : Min(T) =< y
    BY <1>1, Zenon DEF Min
<1>3. \E x \in T : \A y \in T : x >= y
  <2> DEFINE U == { z \in Nat : HighPort - z \in T }
  <2>1. PICK t \in T : TRUE
      OBVIOUS
  <2>2. HighPort - t \in Nat /\ HighPort - (HighPort - t) = t
      BY <1>0, SpanFacts
  <2>3. U \subseteq Nat /\ U # {}
      BY <2>1, <2>2
  <2> HIDE DEF U
  <2>4. PICK z \in U : \A y \in U : z <= y
      BY <2>3, LeastElement
  <2>5. z \in Nat /\ HighPort - z \in T
      BY <2>4 DEF U
  <2>6. ASSUME NEW y \in T PROVE HighPort - z >= y
    <3>1. HighPort - y \in Nat /\ HighPort - (HighPort - y) = y /\ y \in Nat
        BY <1>0, SpanFacts
    <3>2. HighPort - y \in U
        BY <3>1 DEF U
    <3>3. z <= HighPort - y
        BY <2>4, <3>2
    <3> QED  BY <2>5, <3>1, <3>3, SpanFacts
  <2> QED  BY <2>5, <2>6
<1>4. Max(T) \in T /\ \A y \in T : Max(T) >= y
    BY <1>3, Zenon DEF Max
<1>5. Max(T) \in Nat /\ Min(T) \in Nat
    BY <1>0, <1>2, <1>4
<1> QED  BY <1>0, <1>2, <1>4, <1>5

LEMMA FewElements ==
    ASSUME NEW T, IsFiniteSet(T)
    PROVE  /\ Cardinality(T) \in Nat
           /\ Cardinality(T) < 2 <=> \A x, y \in T : x = y
           /\ Cardinality(T) = 1 <=> T # {} /\ \A x, y \in T : x = y
           /\ Cardinality(T) > 1 <=> \E x, y \in T : x # y
<1>1. Cardinality(T) \in Nat
    BY FS_CardinalityType
<1>2. Cardinality(T) = 0 <=> T = {}
    BY FS_EmptySet
<1>3. Cardinality(T) = 1 <=> \E x : T = {x}
    BY FS_Singleton
<1>4. (\E x : T = {x}) <=> T # {} /\ \A x, y \in T : x = y
  <2>1. ASSUME T # {}, \A x, y \in T : x = y PROVE \E x : T = {x}
    <3>1. PICK x \in T : TRUE
        BY <2>1
    <3>2. T = {x}
        BY <2>1, <3>1
    <3> QED  BY <3>2
  <2> QED  BY <2>1
<1>5. Cardinality(T) < 2 <=> Cardinality(T) = 0 \/ Cardinality(T) = 1
    BY <1>1
<1>6. Cardinality(T) < 2 <=> \A x, y \in T : x = y
  <2>1. T = {} => \A x, y \in T : x = y
      OBVIOUS
  <2> QED  BY <1>2, <1>3, <1>4, <1>5, <2>1, Zenon
<1>7. Cardinality(T) > 1 <=> ~(Cardinality(T) < 2)
    BY <1>1
<1> QED  BY <1>1, <1>3, <1>4, <1>6, <1>7, Zenon

LEMMA AnsweredSubset ==
    ASSUME NEW f \in Losses
    PROVE  Answered(f) \subseteq 1 .. StunServers
<1>1. Len(f) = StunServers
    BY ServerSequence DEF Losses
<1> QED  BY <1>1 DEF Answered

\* A port that an allocation in direction dir reaches from each of T without
\* coming round is not on the wrong side of T.
LEMMA DirectionRight ==
    ASSUME NEW dir \in {1, -1}, NEW T, T \subseteq LowPort .. HighPort, T # {},
           NEW M \in Nat, M + PortLimit <= Span, NEW x \in LowPort .. HighPort,
           \A p \in T : \E d \in 1 .. M : Leads(dir, p, d, x)
    PROVE  Direction(T, x) \in {IF dir = 1 THEN "easyInc" ELSE "easyDec", "hard"}
<1> DEFINE hi == Max(T)
           lo == Min(T)
<1>1. hi \in T /\ lo \in T /\ lo <= hi
    BY PortEnds
<1>2. PICK d \in 1 .. M : Leads(dir, hi, d, x)
    BY <1>1
<1>3. PICK c \in 1 .. M : Leads(dir, lo, c, x)
    BY <1>1
<1> HIDE DEF hi, lo
<1>4. hi \in LowPort .. HighPort /\ lo \in LowPort .. HighPort
    BY <1>1
<1>5. lo \in Int /\ hi \in Int /\ x \in Int /\ Span \in Int /\ PortLimit \in Nat
    BY <1>4, SpanFacts
<1>6. CASE dir = 1
  <2>1. ~(lo - x \in 1 .. PortLimit - 1)
      BY <1>3, <1>5, <1>6 DEF Leads
  <2> QED  BY <1>6, <2>1 DEF Direction, hi, lo
<1>7. CASE dir = -1
  <2>1. ~(x - hi \in 1 .. PortLimit - 1)
      BY <1>2, <1>5, <1>7 DEF Leads
  <2> QED  BY <1>7, <2>1 DEF Direction, hi, lo
<1> QED  BY <1>6, <1>7

\* An allocation that only goes up, or only down, has its newest port beyond
\* all others.
LEMMA Monotone ==
    ASSUME NEW dir \in {1, -1}, NEW m \in [1 .. StunServers + 1 -> LowPort .. HighPort],
           \A k \in 1 .. StunServers : dir * (m[k + 1] - m[k]) > 0
    PROVE  \A k \in 1 .. StunServers : dir * (m[StunServers + 1] - m[k]) > 0
<1> DEFINE N == StunServers
           P == { i \in Nat : i < N => dir * (m[N + 1] - m[N - i]) > 0 }
<1>0. N \in Nat /\ N >= 1 /\ LowPort \in Nat /\ HighPort \in Nat
    BY SpanFacts
<1>1. ASSUME NEW i \in Nat, \A x \in 0 .. (i - 1) : x \in P
      PROVE  i \in P
  <2> SUFFICES ASSUME i < N PROVE dir * (m[N + 1] - m[N - i]) > 0
      OBVIOUS
  <2>1. N - i \in 1 .. N /\ N - i \in 1 .. N + 1 /\ N - i + 1 \in 1 .. N + 1 /\ N + 1 \in 1 .. N + 1
      BY <1>0
  <2>2. dir * (m[N - i + 1] - m[N - i]) > 0
      BY <2>1
  <2>3. CASE i = 0
    <3>1. N - i + 1 = N + 1
        BY <1>0, <2>3
    <3> QED  BY <2>2, <3>1
  <2>4. CASE i # 0
    <3>1. i - 1 \in 0 .. (i - 1) /\ i - 1 < N /\ N - (i - 1) = N - i + 1
        BY <1>0, <2>4
    <3>2. dir * (m[N + 1] - m[N - i + 1]) > 0
        BY <1>1, <3>1
    <3> DEFINE u == m[N + 1]
               w == m[N - i + 1]
               t == m[N - i]
    <3>3. u \in Int /\ w \in Int /\ t \in Int
        BY <1>0, <2>1
    <3>4. dir * (w - t) > 0 /\ dir * (u - w) > 0
        BY <2>2, <3>2
    <3> HIDE DEF u, w, t
    <3>5. dir * (u - t) > 0
      <4>1. CASE dir = 1
          BY <3>3, <3>4, <4>1
      <4>2. CASE dir = -1
          BY <3>3, <3>4, <4>2
      <4> QED  BY <4>1, <4>2
    <3> QED  BY <3>5 DEF u, t
  <2> QED  BY <2>3, <2>4
<1>2. P = Nat
  <2>1. P \subseteq Nat
      OBVIOUS
  <2> HIDE DEF P
  <2> QED  BY <1>1, <2>1, Induction
<1>3. ASSUME NEW k \in 1 .. N PROVE dir * (m[N + 1] - m[k]) > 0
  <2>1. N - k \in Nat /\ N - k < N /\ N - (N - k) = k
      BY <1>0
  <2>2. N - k \in P
      BY <1>2, <2>1
  <2> QED  BY <2>1, <2>2
<1> QED  BY <1>3

LEMMA DirectionFound ==
    ASSUME NEW dir \in {1, -1}, NEW T, T \subseteq LowPort .. HighPort, T # {},
           NEW x \in LowPort .. HighPort,
           \A p \in T : dir * (x - p) > 0,
           \E p \in T : dir * (x - p) < PortLimit
    PROVE  Direction(T, x) = IF dir = 1 THEN "easyInc" ELSE "easyDec"
<1> DEFINE hi == Max(T)
           lo == Min(T)
<1>1. hi \in T /\ lo \in T /\ \A p \in T : lo <= p /\ p <= hi
    BY PortEnds
<1>2. PICK p \in T : dir * (x - p) < PortLimit
    OBVIOUS
<1> HIDE DEF hi, lo
<1>3. hi \in LowPort .. HighPort /\ lo \in LowPort .. HighPort /\ p \in LowPort .. HighPort
      /\ lo <= p /\ p <= hi
    BY <1>1
<1>4. hi \in Int /\ lo \in Int /\ p \in Int /\ x \in Int /\ PortLimit \in Nat
    BY <1>3, SpanFacts
<1>5. dir * (x - lo) > 0 /\ dir * (x - hi) > 0
    BY <1>1
<1>6. CASE dir = 1
  <2>1. x - hi \in 1 .. PortLimit - 1
      BY <1>2, <1>3, <1>4, <1>5, <1>6
  <2> QED  BY <1>6, <2>1 DEF Direction, hi
<1>7. CASE dir = -1
  <2>1. lo - x \in 1 .. PortLimit - 1 /\ ~(x - hi \in 1 .. PortLimit - 1)
      BY <1>2, <1>3, <1>4, <1>5, <1>7
  <2> QED  BY <1>7, <2>1 DEF Direction, hi, lo
<1> QED  BY <1>6, <1>7

\* NATs with gaps up to G.
NATsUpto(G) == [kind : {"cone", "inc", "dec", "pool"}, start : LowPort .. HighPort,
                gaps : [1 .. StunServers -> 1 .. G]]

Dir(n) == IF n.kind = "dec" THEN -1 ELSE 1

LEMMA MappingFacts ==
    ASSUME NEW G \in Nat, NEW n \in NATsUpto(G), StunServers * G < Span
    PROVE  /\ Mapping(n) \in [1 .. StunServers + 1 -> LowPort .. HighPort]
           /\ n.kind = "cone" => \A k \in 1 .. StunServers + 1 : Mapping(n)[k] = n.start
           /\ n.kind # "cone" => Between(Mapping(n), Dir(n), G)
<1>1. n.start \in LowPort .. HighPort /\ n.gaps \in [1 .. StunServers -> 1 .. G]
    BY DEF NATsUpto
<1>2. Dir(n) \in {1, -1}
    BY DEF Dir
<1>3. CASE n.kind = "cone"
    BY <1>1, <1>3 DEF Mapping
<1>4. CASE n.kind # "cone"
  <2>1. Mapping(n) = Allocation(Dir(n), n.start, n.gaps)
      BY <1>4 DEF Mapping, Dir
  <2> QED  BY <1>1, <1>2, <1>4, <2>1, AllocationDef, AllocationBetween
<1> QED  BY <1>3, <1>4

\* The addresses the queries see.
IPs(n) == IF n.kind = "pool" THEN ManyAddresses ELSE OneAddress

Seen(n, f) == { Mapping(n)[k] : k \in Answered(f) }

LEMMA DetectedIs ==
    ASSUME NEW n, NEW f, NEW e \in BOOLEAN
    PROVE  /\ Detected(n, f, e).type =
                IF Cardinality(Answered(f)) < 2 THEN "unknown"
                ELSE IF Cardinality(Seen(n, f)) = 1 THEN "cone"
                ELSE IF \/ Cardinality({ IPs(n)[k] : k \in Answered(f) }) > 1
                        \/ Max(Seen(n, f)) - Min(Seen(n, f)) > PortLimit
                        \/ ~e THEN "hard"
                ELSE Direction(Seen(n, f), Mapping(n)[StunServers + 1])
           /\ Detected(n, f, e).type \in {"easyInc", "easyDec"} =>
                Detected(n, f, e).port = Mapping(n)[StunServers + 1]
BY DEF Detected, DetectNAT, SpreadTooWide, IPs, Seen

LEMMA DirectionType ==
    ASSUME NEW T, NEW x
    PROVE  Direction(T, x) \in {"easyInc", "easyDec", "hard"}
BY DEF Direction

LEMMA SeenFacts ==
    ASSUME NEW G \in Nat, NEW n \in NATsUpto(G), StunServers * G < Span, NEW f \in Losses
    PROVE  /\ Answered(f) \subseteq 1 .. StunServers /\ IsFiniteSet(Answered(f))
           /\ Seen(n, f) \subseteq LowPort .. HighPort /\ IsFiniteSet(Seen(n, f))
           /\ Seen(n, f) = {} <=> Answered(f) = {}
           /\ IsFiniteSet({ IPs(n)[k] : k \in Answered(f) })
<1>0. StunServers \in Nat /\ LowPort \in Nat /\ HighPort \in Nat
    BY SpanFacts
<1>1. Answered(f) \subseteq 1 .. StunServers
    BY AnsweredSubset
<1>2. \A k \in 1 .. StunServers : Mapping(n)[k] \in LowPort .. HighPort
  <2>1. \A k \in 1 .. StunServers : k \in 1 .. StunServers + 1
      BY <1>0
  <2> QED  BY <2>1, MappingFacts
<1>3. \A k \in 1 .. StunServers : IPs(n)[k] \in 0 .. StunServers
    BY <1>0 DEF IPs, ManyAddresses, OneAddress
<1>4. IsFiniteSet(1 .. StunServers) /\ IsFiniteSet(LowPort .. HighPort)
      /\ IsFiniteSet(0 .. StunServers)
    BY <1>0, FS_Interval
<1>5. Seen(n, f) \subseteq LowPort .. HighPort /\ (Seen(n, f) = {} <=> Answered(f) = {})
    BY <1>1, <1>2 DEF Seen
<1> DEFINE ips == { IPs(n)[k] : k \in Answered(f) }
<1>6. ips \subseteq 0 .. StunServers
    BY <1>1, <1>3
<1> HIDE DEF ips
<1>7. IsFiniteSet(Answered(f)) /\ IsFiniteSet(Seen(n, f)) /\ IsFiniteSet(ips)
    BY <1>1, <1>4, <1>5, <1>6, FS_Subset
<1> QED  BY <1>1, <1>5, <1>7 DEF ips

\* Of two mappings of an allocating NAT each has a port of its own, and the
\* newest lies in the NAT's direction.
LEMMA OwnPorts ==
    ASSUME NEW G \in Nat, NEW n \in NATsUpto(G), StunServers * G < Span, n.kind # "cone"
    PROVE  /\ \A j, k \in 1 .. StunServers + 1 : j # k => Mapping(n)[j] # Mapping(n)[k]
           /\ \A j \in 1 .. StunServers : \E d \in 1 .. StunServers * G :
                 Leads(Dir(n), Mapping(n)[j], d, Mapping(n)[StunServers + 1])
<1> DEFINE m == Mapping(n)
           N == StunServers
<1>0. N \in Nat /\ N >= 1 /\ Span \in Nat /\ N * G \in Nat
    BY SpanFacts
<1>1. m \in [1 .. N + 1 -> LowPort .. HighPort] /\ Between(m, Dir(n), G)
    BY MappingFacts
<1> HIDE DEF m
<1>2. ASSUME NEW j \in 1 .. N + 1, NEW k \in 1 .. N + 1, j < k
      PROVE  m[j] # m[k] /\ \E d \in 1 .. N * G : Leads(Dir(n), m[j], d, m[k])
  <2>1. PICK d \in (k - j) .. (N * G) : Leads(Dir(n), m[j], d, m[k])
      BY <1>1, <1>2 DEF Between
  <2> DEFINE M == N * G
  <2>2. d \in (k - j) .. M /\ M \in Nat /\ M < Span
      BY <1>0, <2>1
  <2> HIDE DEF M
  <2>3. d \in 1 .. M
      BY <1>2, <2>2
  <2>4. m[j] # m[k]
    <3>1. m[j] \in Int /\ m[k] \in Int
        BY <1>1, SpanFacts
    <3>2. Dir(n) = 1 \/ Dir(n) = -1
        BY DEF Dir
    <3>3. m[j] - m[j] = 0
        BY <3>1
    <3>4. 1 * d # 0 /\ 1 * (d - Span) # 0 /\ (-1) * d # 0 /\ (-1) * (d - Span) # 0
        BY <1>0, <2>2, <2>3
    <3>5. SUFFICES ASSUME m[k] = m[j] PROVE FALSE
        OBVIOUS
    <3> QED  BY <2>1, <3>2, <3>3, <3>4, <3>5 DEF Leads
  <2> QED  BY <2>1, <2>3, <2>4 DEF M
<1>3. \A j, k \in 1 .. N + 1 : j # k => m[j] # m[k]
  <2> SUFFICES ASSUME NEW j \in 1 .. N + 1, NEW k \in 1 .. N + 1, j # k
               PROVE  m[j] # m[k]
      OBVIOUS
  <2>1. j < k \/ k < j
      BY <1>0
  <2> QED  BY <1>2, <2>1
<1>4. \A j \in 1 .. N : j \in 1 .. N + 1 /\ j < N + 1 /\ N + 1 \in 1 .. N + 1
    BY <1>0
<1>5. \A j \in 1 .. N : \E d \in 1 .. N * G : Leads(Dir(n), m[j], d, m[N + 1])
    BY <1>2, <1>4
<1> QED  BY <1>3, <1>5 DEF m

\* The queries that succeed tell the kinds of NAT apart.
LEMMA KindsApart ==
    ASSUME NEW G \in Nat, NEW n \in NATsUpto(G), StunServers * G < Span, NEW f \in Losses
    PROVE  LET two == ~(Cardinality(Answered(f)) < 2)
               one == Cardinality(Seen(n, f)) = 1
               ips == Cardinality({ IPs(n)[k] : k \in Answered(f) }) > 1
           IN  /\ two /\ n.kind = "cone" => one
               /\ two /\ n.kind # "cone" => ~one
               /\ two /\ n.kind = "pool" => ips
               /\ n.kind # "pool" => ~ips
               /\ two => Seen(n, f) # {}
               /\ Cardinality(Seen(n, f)) > 1 => two /\ ~one
<1> DEFINE A == Answered(f)
           S == Seen(n, f)
           I == { IPs(n)[k] : k \in Answered(f) }
<1>0. StunServers \in Nat
    BY SpanFacts
<1>1. A \subseteq 1 .. StunServers /\ IsFiniteSet(A) /\ IsFiniteSet(S) /\ IsFiniteSet(I)
      /\ (S = {} <=> A = {})
    BY SeenFacts
<1>2. A \subseteq 1 .. StunServers + 1
    BY <1>0, <1>1
<1>3. S = { Mapping(n)[k] : k \in A } /\ I = { IPs(n)[k] : k \in A }
    BY DEF Seen
<1>4. \A T : IsFiniteSet(T) =>
          /\ Cardinality(T) < 2 <=> \A x, y \in T : x = y
          /\ Cardinality(T) = 1 <=> T # {} /\ \A x, y \in T : x = y
          /\ Cardinality(T) > 1 <=> \E x, y \in T : x # y
    BY FewElements
<1> HIDE DEF A, S, I
<1>5. ~(Cardinality(A) < 2) <=> \E j, k \in A : j # k
  <2>1. Cardinality(A) < 2 <=> \A x, y \in A : x = y
      BY <1>1, <1>4
  <2> QED  BY <2>1
<1>6. Cardinality(S) = 1 <=> S # {} /\ \A x, y \in S : x = y
    BY <1>1, <1>4
<1>7. Cardinality(I) > 1 <=> \E x, y \in I : x # y
    BY <1>1, <1>4
<1>8. Cardinality(S) > 1 <=> \E x, y \in S : x # y
    BY <1>1, <1>4
<1>9. ~(Cardinality(A) < 2) => S # {}
    BY <1>1, <1>5
<1>10. ASSUME ~(Cardinality(A) < 2), n.kind = "cone" PROVE Cardinality(S) = 1
  <2>1. \A k \in A : Mapping(n)[k] = n.start
      BY <1>2, <1>10, MappingFacts
  <2>2. \A x, y \in S : x = y
      BY <1>3, <2>1
  <2> QED  BY <1>6, <1>9, <1>10, <2>2
<1>11. ASSUME ~(Cardinality(A) < 2), n.kind # "cone" PROVE ~(Cardinality(S) = 1)
  <2>1. PICK j \in A, k \in A : j # k
      BY <1>5, <1>11
  <2>2. Mapping(n)[j] # Mapping(n)[k]
      BY <1>2, <1>11, <2>1, OwnPorts
  <2>3. Mapping(n)[j] \in S /\ Mapping(n)[k] \in S
      BY <1>3, <2>1
  <2> QED  BY <1>6, <2>2, <2>3
<1>12. ASSUME ~(Cardinality(A) < 2), n.kind = "pool" PROVE Cardinality(I) > 1
  <2>1. PICK j \in A, k \in A : j # k
      BY <1>5, <1>12
  <2>2. IPs(n)[j] = j /\ IPs(n)[k] = k
      BY <1>1, <1>12, <2>1 DEF IPs, ManyAddresses
  <2>3. j \in I /\ k \in I
      BY <1>3, <2>1, <2>2
  <2> QED  BY <1>7, <2>1, <2>3
<1>13. ASSUME n.kind # "pool" PROVE ~(Cardinality(I) > 1)
  <2>1. \A k \in A : IPs(n)[k] = 0
      BY <1>1, <1>13 DEF IPs, OneAddress
  <2>2. \A x, y \in I : x = y
      BY <1>3, <2>1
  <2> QED  BY <1>7, <2>2
<1>14. ASSUME Cardinality(S) > 1 PROVE ~(Cardinality(A) < 2) /\ ~(Cardinality(S) = 1)
  <2>1. PICK x \in S, y \in S : x # y
      BY <1>8, <1>14
  <2>2. PICK j \in A, k \in A : x = Mapping(n)[j] /\ y = Mapping(n)[k]
      BY <1>3, <2>1
  <2> QED  BY <1>5, <1>6, <2>1, <2>2
<1> QED  BY <1>9, <1>10, <1>11, <1>12, <1>13, <1>14 DEF A, S, I

\* What DetectNAT says fits the NAT, and names the direction of a predictable
\* one, whatever answers are lost or late: for gaps of any size, as long as
\* the mappings of a detection do not come round the port range.
THEOREM DetectNATFits ==
    ASSUME NEW G \in Nat, StunServers * G + PortLimit <= Span, NEW n \in NATsUpto(G),
           NEW f \in Losses, NEW e \in BOOLEAN
    PROVE  ~Misfit(n, f, e)
<1> StunServers * G < Span
  <2> DEFINE M == StunServers * G
  <2>1. M \in Nat /\ M + PortLimit <= Span
      BY SpanFacts
  <2> HIDE DEF M
  <2>2. M < Span
      BY <2>1, SpanFacts, RangeAssumption
  <2> QED  BY <2>2 DEF M
<1> DEFINE m    == Mapping(n)
           new  == m[StunServers + 1]
           S    == Seen(n, f)
           r    == Detected(n, f, e)
           dir  == Dir(n)
           two  == ~(Cardinality(Answered(f)) < 2)
           one  == Cardinality(S) = 1
           ips  == Cardinality({ IPs(n)[k] : k \in Answered(f) }) > 1
           wide == Max(S) - Min(S) > PortLimit
<1>0. n.kind \in {"cone", "inc", "dec", "pool"} /\ dir \in {1, -1}
    BY DEF NATsUpto, Dir
<1>1. /\ r.type = IF ~two THEN "unknown" ELSE IF one THEN "cone"
                  ELSE IF ips \/ wide \/ ~e THEN "hard" ELSE Direction(S, new)
      /\ r.type \in {"easyInc", "easyDec"} => r.port = new
    BY DetectedIs
<1>2. /\ two /\ n.kind = "cone" => one
      /\ two /\ n.kind # "cone" => ~one
      /\ two /\ n.kind = "pool" => ips
      /\ n.kind # "pool" => ~ips
      /\ two => S # {}
      /\ Cardinality(S) > 1 => two /\ ~one
    BY KindsApart
<1>3. S \subseteq LowPort .. HighPort /\ Answered(f) \subseteq 1 .. StunServers
    BY SeenFacts
<1>4. m \in [1 .. StunServers + 1 -> LowPort .. HighPort] /\ new \in LowPort .. HighPort
  <2>1. StunServers + 1 \in 1 .. StunServers + 1
      BY SpanFacts
  <2> QED  BY <2>1, MappingFacts
<1>5. S = { m[k] : k \in Answered(f) }
    BY DEF Seen
<1>6. S # {} => Max(S) \in Int /\ Min(S) \in Int
  <2>1. S # {} => Max(S) \in S /\ Min(S) \in S
      BY <1>3, PortEnds
  <2>2. \A x \in LowPort .. HighPort : x \in Int
      BY SpanFacts
  <2> HIDE DEF S
  <2> QED  BY <1>3, <2>1, <2>2
<1>7. ASSUME n.kind # "cone", two
      PROVE  Direction(S, new) \in {IF dir = 1 THEN "easyInc" ELSE "easyDec", "hard"}
  <2> DEFINE M == StunServers * G
  <2>1. M \in Nat /\ M + PortLimit <= Span
      BY SpanFacts
  <2>2. \A j \in 1 .. StunServers : \E d \in 1 .. M : Leads(dir, m[j], d, new)
      BY <1>7, OwnPorts
  <2> HIDE DEF M, dir, m, new
  <2>3. \A p \in S : \E d \in 1 .. M : Leads(dir, p, d, new)
    <3> HIDE DEF S
    <3> QED  BY <1>3, <1>5, <2>2
  <2> HIDE DEF S
  <2>4. S # {}
      BY <1>2, <1>7
  <2> QED  BY <1>0, <1>3, <1>4, <2>1, <2>3, <2>4, DirectionRight
<1>8. Direction(S, new) \in {"easyInc", "easyDec", "hard"}
    BY DirectionType
<1>9. n.kind \in {"inc", "dec"} => Easy(n.kind) = IF dir = 1 THEN "easyInc" ELSE "easyDec"
    BY DEF Easy, Dir
<1>10. Fits(n, f, e)
  <2>1. CASE r.type = "unknown"
    <3>1. Cardinality(Answered(f)) < 2
      <4> HIDE DEF r, S, new, ips, wide
      <4> QED  BY <1>1, <1>8, <2>1
    <3> QED  BY <2>1, <3>1 DEF Fits
  <2>2. CASE r.type = "cone"
    <3>1. n.kind = "cone"
      <4> HIDE DEF r, S, new, ips, wide, two
      <4> QED  BY <1>1, <1>2, <1>8, <2>2
    <3> QED  BY <2>2, <3>1 DEF Fits
  <2>3. CASE r.type = "hard"
    <3>1. n.kind # "cone"
      <4> HIDE DEF r, S, new, ips, wide, two
      <4> QED  BY <1>1, <1>2, <1>8, <2>3
    <3> QED  BY <2>3, <3>1 DEF Fits
  <2>4. CASE r.type \notin {"unknown", "cone", "hard"}
    <3>1. /\ two /\ ~ips /\ ~wide /\ ~one /\ r.type = Direction(S, new)
          /\ r.type \in {"easyInc", "easyDec"} /\ r.port = new
      <4> HIDE DEF r, S, new, ips, wide, two
      <4> QED  BY <1>1, <1>2, <1>8, <2>4
    <3>2. n.kind \in {"inc", "dec"}
      <4> HIDE DEF r, S, new, ips, wide, two, one
      <4> QED  BY <1>0, <1>2, <3>1
    <3>3. r.type = Easy(n.kind)
      <4> HIDE DEF r, S, new, ips, wide, two, one, dir
      <4> QED  BY <1>7, <1>9, <3>1, <3>2
    <3>4. Max(S) - Min(S) <= PortLimit
      <4>1. S # {}
          BY <1>2, <3>1
      <4> HIDE DEF S
      <4> QED  BY <1>6, <3>1, <4>1, SpanFacts
    <3> QED  BY <2>4, <3>1, <3>2, <3>3, <3>4 DEF Fits, Seen
  <2> QED  BY <2>1, <2>2, <2>3, <2>4
<1>11. ASSUME Predictable(n, f, e) PROVE r.type = Easy(n.kind)
  <2>1. /\ n.kind \in {"inc", "dec"} /\ Cardinality(S) > 1 /\ e
        /\ Max(S) - Min(S) <= PortLimit
        /\ \A k \in 1 .. StunServers : dir * (m[k + 1] - m[k]) > 0
        /\ \E p \in S : dir * (new - p) < PortLimit
      BY <1>11 DEF Predictable, Seen, Dir
  <2>2. two /\ ~one /\ ~ips /\ S # {}
    <3> HIDE DEF S, ips, two
    <3> QED  BY <1>2, <2>1
  <2>3. ~wide
    <3> HIDE DEF S
    <3> QED  BY <1>6, <2>1, <2>2, SpanFacts
  <2> HIDE DEF dir, m, r
  <2>4. \A k \in 1 .. StunServers : dir * (m[StunServers + 1] - m[k]) > 0
      BY <1>0, <1>4, <2>1, Monotone
  <2> HIDE DEF S
  <2>5. \A p \in S : dir * (new - p) > 0
      BY <1>3, <1>5, <2>4
  <2> HIDE DEF new
  <2>6. Direction(S, new) = IF dir = 1 THEN "easyInc" ELSE "easyDec"
      BY <1>0, <1>3, <1>4, <2>1, <2>2, <2>5, DirectionFound
  <2> HIDE DEF two, one, ips, wide
  <2> QED  BY <1>1, <1>9, <2>1, <2>2, <2>3, <2>6
<1> QED  BY <1>10, <1>11 DEF Misfit

\* The invariant the run checks: no NAT of it gets a type that does not fit.
THEOREM NATTypesFit == Spec => []NATTypeFits
<1>1. NATs \subseteq NATsUpto(PortLimit + 1)
  <2>1. Starts \subseteq LowPort .. HighPort
    <3> DEFINE M == StunServers * (PortLimit + 1)
    <3>1. M \in Nat /\ M >= PortLimit + 1
      <4>1. PortLimit + 1 \in Nat /\ 1 * (PortLimit + 1) = PortLimit + 1
          BY SpanFacts
      <4>2. 1 * (PortLimit + 1) <= StunServers * (PortLimit + 1)
          BY <4>1, SpanFacts, Products
      <4> QED  BY <4>1, <4>2, SpanFacts
    <3>2. M + PortLimit <= HighPort - LowPort + 1
        BY RangeAssumption
    <3> HIDE DEF M
    <3>3. LowPort + 2 <= HighPort
        BY <3>1, <3>2, SpanFacts, RangeAssumption
    <3> QED  BY <3>3, SpanFacts DEF Starts
  <2>2. {1, PortLimit - 1, PortLimit, PortLimit + 1} \subseteq 1 .. PortLimit + 1
      BY SpanFacts, RangeAssumption
  <2>3. Gaps \subseteq [1 .. StunServers -> 1 .. PortLimit + 1]
      BY <2>2 DEF Gaps
  <2> QED  BY <2>1, <2>3 DEF NATs, NATsUpto
<1>2. PortLimit + 1 \in Nat /\ StunServers * (PortLimit + 1) + PortLimit <= Span
    BY SpanFacts, RangeAssumption DEF Span
<1>3. \A n \in NATs, f \in Losses, e \in BOOLEAN : ~Misfit(n, f, e)
    BY <1>1, <1>2, DetectNATFits
<1>4. Misfits = {}
    BY <1>3 DEF Misfits
<1>5. NATTypeFits
    BY <1>4 DEF NATTypeFits
<1> QED  BY <1>5, PTL

=============================================================================
