----------------------------- MODULE HolePunch ------------------------------
(***************************************************************************)
(* The custom UDP hole punching of internal/holepunch, as driven by        *)
(* attemptHolePunch of the client and handleHolePunchSignaling and         *)
(* handlePunchAndQUIC of the server.                                       *)
(*                                                                         *)
(* The client makes attempts one after the other; each has a signalling    *)
(* exchange, a punching phase on both sides, and a QUIC dial with a        *)
(* session token.  The server's goroutines of different attempts overlap.  *)
(* A socket is [side, att, name]; its public endpoint is written as the    *)
(* socket itself.  Packets carry the attempt's transaction id, here the    *)
(* attempt; NATs and the network lose, delay and duplicate them, so any    *)
(* packet once sent may arrive at its target at any later time or never.   *)
(***************************************************************************)
EXTENDS Naturals, FiniteSets

CONSTANTS
    MaxHolePunchAttempts, \* maxHolePunchAttempts, 3 in the code
    Members               \* names of the sockets of a Symmetric side's array

ASSUME AttemptAssumption == MaxHolePunchAttempts \in Nat
ASSUME MemberAssumption == Members \cap {"sock", "probe"} = {}

Attempts == 1 .. MaxHolePunchAttempts

Client == "client"
Server == "server"
Sides  == {Client, Server}
Peer(s) == IF s = Client THEN Server ELSE Client

\* What DetectNAT can return.
NATTypes == {"cone", "easyInc", "easyDec", "hard"}

IsCone(n) == n = "cone"
IsEasySymmetric(n) == n \in {"easyInc", "easyDec"}
IsSymmetric(n) == n = "hard" \/ IsEasySymmetric(n)

Socket(s, a, m) == [side |-> s, att |-> a, name |-> m]
Sockets == [side : Sides, att : {0} \cup Attempts,
            name : {"sock", "probe"} \cup Members]
NoSocket == Socket(Client, 0, "sock")

\* The socket DetectNAT measured with; closed when DetectNAT returned.
Probe(s) == Socket(s, 0, "probe")

Array(s, a) == { Socket(s, a, m) : m \in Members }

DeterminePunchMethod(c, s) ==
    IF IsCone(c) /\ IsCone(s) THEN "coneToCone"
    ELSE IF IsCone(c) \/ IsCone(s) THEN "symToCone"
    ELSE IF IsEasySymmetric(c) /\ IsEasySymmetric(s) THEN "easyToEasy"
    ELSE "none"

\* The punching function ExecutePunch picks for a side.
ExecutePunch(method, mine) ==
    IF method = "symToCone"
    THEN IF IsSymmetric(mine) THEN "punchSymToCone" ELSE "punchConeToSym"
    ELSE IF method = "coneToCone" THEN "punchConeToCone" ELSE "punchBothEasySym"

VARIABLES
    nat,         \* detected NAT type of each side; "unknown": not detected
    cpc,         \* where the client is in each attempt
    spc,         \* where the server's goroutine of each attempt is
    ready,       \* attempts for which the server sent punch_ready
    method,      \* the method the server chose and told the client
    advertised,  \* the endpoint each side put into its NATInfo
    open,        \* open UDP sockets
    sent,        \* <<side, attempt>> that have begun to send packets
    picked,      \* the socket each side came out of punching with
    remote,      \* ... and the address it saw its peer at
    dialed       \* attempts whose client has sent its token

vars == <<nat, cpc, spc, ready, method, advertised, open, sent, picked,
          remote, dialed>>
pathVars == <<picked, remote, dialed>>

Init ==
    /\ nat \in [Sides -> NATTypes \cup {"unknown"}]
    /\ cpc = [a \in Attempts |-> "idle"]
    /\ spc = [a \in Attempts |-> "idle"]
    /\ ready = {}
    /\ method = [a \in Attempts |-> "none"]
    /\ advertised = [s \in Sides |-> [a \in Attempts |-> NoSocket]]
    /\ open = {}
    /\ sent = {}
    /\ picked = [s \in Sides |-> [a \in Attempts |-> NoSocket]]
    /\ remote = [s \in Sides |-> [a \in Attempts |-> NoSocket]]
    /\ dialed = {}

CGoto(a, from, to) == cpc[a] = from /\ cpc' = [cpc EXCEPT ![a] = to]
SGoto(a, from, to) == spc[a] = from /\ spc' = [spc EXCEPT ![a] = to]

Strategy(s, a) == ExecutePunch(method[a], nat[s])

\* The sockets a side punches with: its dedicated one, or an array.
PunchSockets(s, a) ==
    IF Strategy(s, a) \in {"punchConeToCone", "punchConeToSym"}
    THEN {Socket(s, a, "sock")} ELSE Array(s, a)

\* All that attempt a of side s ever opens.
SocketsOf(s, a) == {Socket(s, a, "sock")} \cup Array(s, a)

-----------------------------------------------------------------------------
(* Signalling *)

\* The client detects its NAT, opens the signalling stream and sends its
\* NATInfo: the mapping of DetectNAT's socket.
SendNATInfo(a) ==
    /\ a > 1 => cpc[a - 1] = "failed"
    /\ nat[Client] # "unknown"
    /\ CGoto(a, "idle", "asked")
    /\ advertised' = [advertised EXCEPT ![Client][a] = Probe(Client)]
    /\ UNCHANGED <<nat, spc, ready, method, open, sent, pathVars>>

\* NAT detection or opening the stream fails.
NoSignalling(a) ==
    /\ a > 1 => cpc[a - 1] = "failed"
    /\ CGoto(a, "idle", "failed")
    /\ UNCHANGED <<nat, spc, ready, method, advertised, open, sent, pathVars>>

\* handleHolePunchSignaling and ServerSignalingHandler up to the answer: no
\* NAT info, no method, or no punch socket refuses the client.
Refuse(a) ==
    /\ cpc[a] = "asked"
    /\ SGoto(a, "idle", "refused")
    /\ UNCHANGED <<nat, cpc, ready, method, advertised, open, sent, pathVars>>

\* Mutant: a client no method suits is answered all the same.
MutAnswer(a) ==
    LET cone == IsCone(nat[Server])
        sock == Socket(Server, a, "sock")
    IN  /\ cpc[a] = "asked"
        /\ nat[Server] # "unknown"
        /\ SGoto(a, "idle", "answered")
        /\ method' = [method EXCEPT ![a] =
              DeterminePunchMethod(nat[Client], nat[Server])]
        /\ open' = IF cone THEN open \cup {sock} ELSE open
        /\ advertised' = [advertised EXCEPT ![Server][a] =
              IF cone THEN sock ELSE Probe(Server)]
        /\ UNCHANGED <<nat, cpc, ready, sent, pathVars>>

\* A Cone server opens and measures a punch socket and advertises it, a
\* Symmetric one its cached mapping; the answer carries the method.
Answer(a) ==
    LET m == DeterminePunchMethod(nat[Client], nat[Server])
        cone == IsCone(nat[Server])
        sock == Socket(Server, a, "sock")
    IN  /\ cpc[a] = "asked"
        /\ nat[Server] # "unknown"
        /\ m # "none"
        /\ SGoto(a, "idle", "answered")
        /\ method' = [method EXCEPT ![a] = m]
        /\ open' = IF cone THEN open \cup {sock} ELSE open
        /\ advertised' = [advertised EXCEPT ![Server][a] =
              IF cone THEN sock ELSE Probe(Server)]
        /\ UNCHANGED <<nat, cpc, ready, sent, pathVars>>

\* Sending the answer fails; the punch socket is closed.
AnswerLost(a) ==
    /\ SGoto(a, "answered", "refused")
    /\ open' = open \ SocketsOf(Server, a)
    /\ UNCHANGED <<nat, cpc, ready, method, advertised, sent, pathVars>>

\* onPunchReady: the punching goroutine starts and sends its first packets.
ServerPunches(a) ==
    /\ SGoto(a, "answered", "punch")
    /\ open' = open \cup PunchSockets(Server, a)
    /\ sent' = sent \cup {<<Server, a>>}
    /\ UNCHANGED <<nat, cpc, ready, method, advertised, pathVars>>

SendReady(a) ==
    /\ spc[a] \notin {"idle", "refused", "answered"}
    /\ a \notin ready
    /\ ready' = ready \cup {a}
    /\ UNCHANGED <<nat, cpc, spc, method, advertised, open, sent, pathVars>>

\* The client reads answer and ready, opens a punch socket if it is Cone,
\* and starts to send.
ClientPunches(a) ==
    /\ a \in ready
    /\ CGoto(a, "asked", "punch")
    /\ open' = open \cup PunchSockets(Client, a)
    /\ sent' = sent \cup {<<Client, a>>}
    /\ UNCHANGED <<nat, spc, ready, method, advertised, pathVars>>

\* The client's read returns the server's refusal or the end of the stream the
\* server has closed; or all has been read and no punch socket can be made.
SignallingFails(a) ==
    /\ spc[a] = "refused" \/ a \in ready
    /\ CGoto(a, "asked", "failed")
    /\ UNCHANGED <<nat, spc, ready, method, advertised, open, sent, pathVars>>

\* The stream breaks under the client's read.
StreamLost(a) ==
    /\ CGoto(a, "asked", "failed")
    /\ UNCHANGED <<nat, spc, ready, method, advertised, open, sent, pathVars>>

-----------------------------------------------------------------------------
(* Punching *)

\* Where the packets of a side's attempt go: to the advertised endpoint, to
\* random ports of the peer's address, or to predicted ports; after the
\* punch of a Cone side facing a Symmetric one, also to the confirmed address.
Targets(s, a) ==
    LET p == Peer(s)
        everywhere == { x \in open : x.side = p }
    IN  CASE Strategy(s, a) \in {"punchConeToCone", "punchSymToCone"} ->
               {advertised[p][a]}
          [] Strategy(s, a) = "punchConeToSym" ->
               everywhere \cup {remote[s][a]}
          [] OTHER -> { x \in everywhere : x.name \in Members }

\* Mutant: the transaction id is not compared.
MutAccepts(a, tid) == TRUE

\* ParsePunchPacket and the comparison of the transaction id.
Accepts(a, tid) == tid = a

\* Some packet of the peer's attempt b arrives at the open socket x, from
\* the peer's socket y.
Hears(s, a, x, y, b) ==
    /\ <<Peer(s), b>> \in sent
    /\ x \in open \cap PunchSockets(s, a) \cap Targets(Peer(s), b)
    /\ y \in PunchSockets(Peer(s), b)
    /\ Accepts(a, b)

\* The punching function returns the socket that heard first and closes the
\* rest of its array.
TakePath(s, a, x, y) ==
    /\ picked' = [picked EXCEPT ![s][a] = x]
    /\ remote' = [remote EXCEPT ![s][a] = y]
    /\ open' = (open \ SocketsOf(s, a)) \cup {x}

ClientHears(a, x, y, b) ==
    /\ Hears(Client, a, x, y, b)
    /\ CGoto(a, "punch",
             IF Strategy(Client, a) = "punchConeToSym" THEN "confirm" ELSE "dial")
    /\ TakePath(Client, a, x, y)
    /\ UNCHANGED <<nat, spc, ready, method, advertised, sent, dialed>>

ServerHears(a, x, y, b) ==
    /\ Hears(Server, a, x, y, b)
    /\ SGoto(a, "punch",
             IF Strategy(Server, a) = "punchConeToSym" THEN "confirm" ELSE "listen")
    /\ TakePath(Server, a, x, y)
    /\ UNCHANGED <<nat, cpc, ready, method, advertised, sent, dialed>>

\* The second of confirmation packets is over.
Confirmed(a) ==
    /\ \/ CGoto(a, "confirm", "dial") /\ spc' = spc
       \/ SGoto(a, "confirm", "listen") /\ cpc' = cpc
    /\ UNCHANGED <<nat, ready, method, advertised, open, sent, pathVars>>

\* Mutant: the array of an unsuccessful punch is not closed.
MutClientPunchTimeout(a) ==
    /\ CGoto(a, "punch", "failed")
    /\ open' = open \ {Socket(Client, a, "sock")}
    /\ UNCHANGED <<nat, spc, ready, method, advertised, sent, pathVars>>

\* Nothing heard in time: all sockets of the attempt are closed.
ClientPunchTimeout(a) ==
    /\ CGoto(a, "punch", "failed")
    /\ open' = open \ SocketsOf(Client, a)
    /\ UNCHANGED <<nat, spc, ready, method, advertised, sent, pathVars>>

\* Mutant: the server punches on without a deadline.
MutServerPunchTimeout(a) == FALSE /\ UNCHANGED vars

ServerPunchTimeout(a) ==
    /\ SGoto(a, "punch", "failed")
    /\ open' = open \ SocketsOf(Server, a)
    /\ UNCHANGED <<nat, cpc, ready, method, advertised, sent, pathVars>>

-----------------------------------------------------------------------------
(* QUIC on the punched path *)

\* DirectListenQUIC.
Listen(a) ==
    /\ SGoto(a, "listen", "accept")
    /\ UNCHANGED <<nat, cpc, ready, method, advertised, open, sent, pathVars>>

ListenFails(a) ==
    /\ SGoto(a, "listen", "failed")
    /\ open' = open \ SocketsOf(Server, a)
    /\ UNCHANGED <<nat, cpc, ready, method, advertised, sent, pathVars>>

\* DirectDialQUIC reaches a listening server socket and writes its token.
Dial(a) ==
    /\ cpc[a] = "dial"
    /\ a \notin dialed
    /\ \E b \in Attempts : spc[b] = "accept" /\ picked[Server][b] = remote[Client][a]
    /\ remote[Client][a] \in open
    /\ dialed' = dialed \cup {a}
    /\ UNCHANGED <<nat, cpc, spc, ready, method, advertised, open, sent, picked,
                   remote>>

\* AcceptAndAuthQUIC: the token of this attempt, and the answer 0x01.
AcceptToken(a) ==
    /\ a \in dialed
    /\ remote[Client][a] = picked[Server][a]
    /\ SGoto(a, "accept", "serving")
    /\ UNCHANGED <<nat, cpc, ready, method, advertised, open, sent, pathVars>>

\* No connection, no token or a wrong one in time.  The listener is closed;
\* transport and socket are not.
AcceptFails(a) ==
    /\ SGoto(a, "accept", "failed")
    /\ UNCHANGED <<nat, cpc, ready, method, advertised, open, sent, pathVars>>

\* Mutant: the client does not wait for the server's answer to its token.
MutDirect(a) ==
    /\ a \in dialed
    /\ CGoto(a, "dial", "direct")
    /\ UNCHANGED <<nat, spc, ready, method, advertised, open, sent, pathVars>>

\* The client reads 0x01: directConn.
Direct(a) ==
    /\ a \in dialed
    /\ spc[a] = "serving"
    /\ CGoto(a, "dial", "direct")
    /\ UNCHANGED <<nat, spc, ready, method, advertised, open, sent, pathVars>>

\* Dial or token exchange fails; the punched socket is closed.
DialFails(a) ==
    /\ CGoto(a, "dial", "failed")
    /\ open' = open \ SocketsOf(Client, a)
    /\ UNCHANGED <<nat, spc, ready, method, advertised, sent, pathVars>>

\* The client has its path or has run out of attempts, and the server's
\* goroutines have come to an end.
Settled ==
    /\ \A a \in Attempts :
          /\ cpc[a] \in {"direct", "failed"}
             \/ \E b \in Attempts : b < a /\ cpc[b] = "direct"
          /\ spc[a] \in {"idle", "refused", "failed", "serving"}
    /\ UNCHANGED vars

-----------------------------------------------------------------------------
\* What the two sides do about an attempt by themselves: waits that have a
\* deadline end by it (detection, opening the stream, punching, dial, accept),
\* and a read that has something to return returns it.  Waiting for the other
\* side's signalling messages is not among them: the reads of ClientSignaling
\* and ServerSignalingHandler have no deadline.
TimeOut(a) ==
    \/ NoSignalling(a) \/ SignallingFails(a) \/ ClientPunchTimeout(a)
    \/ ServerPunchTimeout(a) \/ AcceptFails(a) \/ DialFails(a)
    \/ Confirmed(a) \/ Listen(a) \/ ServerPunches(a)

Next ==
    \/ \E a \in Attempts :
          \/ TimeOut(a)
          \/ SendNATInfo(a) \/ Refuse(a) \/ Answer(a) \/ AnswerLost(a)
          \/ SendReady(a) \/ StreamLost(a) \/ ClientPunches(a) \/ ListenFails(a)
          \/ Dial(a) \/ AcceptToken(a) \/ Direct(a)
          \/ \E b \in Attempts :
                \/ \E x \in PunchSockets(Client, a), y \in PunchSockets(Server, b) :
                      ClientHears(a, x, y, b)
                \/ \E x \in PunchSockets(Server, a), y \in PunchSockets(Client, b) :
                      ServerHears(a, x, y, b)
    \/ Settled

Spec == Init /\ [][Next]_vars

\* Deadlines pass and goroutines run; nothing is said of the handler that is to
\* answer the client.
Fairness == \A a \in Attempts : WF_vars(TimeOut(a))

FairSpec == Spec /\ Fairness

-----------------------------------------------------------------------------
(* Properties *)

\* Type invariant; an attempt that was answered has a method.
TypeOK ==
    /\ nat \in [Sides -> NATTypes \cup {"unknown"}]
    /\ cpc \in [Attempts -> {"idle", "asked", "punch", "confirm", "dial",
                             "direct", "failed"}]
    /\ spc \in [Attempts -> {"idle", "refused", "answered", "punch", "confirm",
                             "listen", "accept", "serving", "failed"}]
    /\ ready \in SUBSET Attempts
    /\ method \in [Attempts -> {"none", "coneToCone", "symToCone", "easyToEasy"}]
    /\ \A a \in Attempts : method[a] = "none" => spc[a] \in {"idle", "refused"}
    /\ advertised \in [Sides -> [Attempts -> Sockets]]
    /\ open \in SUBSET Sockets
    /\ sent \in SUBSET (Sides \X Attempts)
    /\ picked \in [Sides -> [Attempts -> Sockets]]
    /\ remote \in [Sides -> [Attempts -> Sockets]]
    /\ dialed \in SUBSET Attempts

\* The two sides of an attempt run matching halves of one strategy, although
\* each picks its half from its own NAT type and the method in the answer.
Complementary ==
    {<<"punchConeToCone", "punchConeToCone">>,
     <<"punchSymToCone", "punchConeToSym">>,
     <<"punchConeToSym", "punchSymToCone">>,
     <<"punchBothEasySym", "punchBothEasySym">>}

RolesComplementary ==
    \A a \in Attempts :
        <<Client, a>> \in sent /\ <<Server, a>> \in sent =>
            /\ <<Strategy(Client, a), Strategy(Server, a)>> \in Complementary
            /\ Strategy(Client, a) = "punchBothEasySym" =>
                  IsEasySymmetric(nat[Client]) /\ IsEasySymmetric(nat[Server])

\* A path is never pieced together from two attempts: packets of an earlier
\* attempt that still fly when the next one punches are told apart.
PathOfOneAttempt ==
    \A s \in Sides, a \in Attempts :
        picked[s][a] # NoSocket =>
            picked[s][a].att = a /\ remote[s][a].att = a

\* A direct connection the client goes on to use is served: the server's
\* goroutine of the same attempt has accepted its token, on the very socket
\* the client dialled, and neither side has closed its end.
DirectIsServed ==
    \A a \in Attempts :
        cpc[a] = "direct" =>
            /\ spc[a] = "serving"
            /\ remote[Client][a] = picked[Server][a]
            /\ {picked[Client][a], picked[Server][a]} \subseteq open

\* A failed attempt leaves the client with none of its sockets.
ClientFreesSockets ==
    \A a \in Attempts :
        cpc[a] = "failed" => open \cap SocketsOf(Client, a) = {}

\* "Both sides know each other's stable public address": a Cone side sends
\* to the socket its Cone peer punches with.
ConePeerKnown ==
    \A s \in Sides, a \in Attempts :
        <<Client, a>> \in sent /\ <<Server, a>> \in sent
          /\ method[a] = "coneToCone"
        => advertised[Peer(s)][a] \in PunchSockets(Peer(s), a)

\* Once the server's last signalling message, or the end of the stream it has
\* closed, is there to be read, the client's attempt comes to an end, and a
\* server that has answered comes to one whatever the client does: each wait of
\* the two punching goroutines has a deadline of its own.
AttemptEnds ==
    \A a \in Attempts :
        /\ (cpc[a] \notin {"idle", "asked"} \/ spc[a] = "refused" \/ a \in ready)
              ~> (cpc[a] \in {"direct", "failed"})
        /\ (spc[a] = "answered") ~> (spc[a] \in {"refused", "serving", "failed"})

=============================================================================
