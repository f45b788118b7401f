---------------------------- MODULE NATDetection ----------------------------
(***************************************************************************)
(* DetectNAT and stunQuery of internal/holepunch/stun.go as a function of  *)
(* what happens to the queries: one socket asks every STUN server in turn, *)
(* a second one asks the first server again.                               *)
(***************************************************************************)
EXTENDS Integers, Sequences, FiniteSets, FiniteSetsExt

CONSTANTS
    StunServers,      \* how many servers are asked
    PortLimit,        \* 100 in the code
    LowPort, HighPort \* the ports a NAT maps to

ASSUME PortAssumption ==
    /\ StunServers \in Nat \ {0} /\ PortLimit \in Nat
    /\ LowPort \in Nat /\ HighPort \in Nat /\ LowPort < HighPort

\* What becomes of the answer to a query: read in time, after the deadline of
\* this query, or never.
Fates == {"intime", "late", "lost"}

\* A query reads one packet.  An earlier answer that came late is still in
\* the socket's buffer, fails the check of the transaction ID and with it
\* the query.
Accepted(backlog, fate) == fate = "intime" /\ backlog = 0

\* backlog[k]: answers in the buffer when query k + 1 is sent.
Backlog(fates) ==
    LET b[k \in 0 .. Len(fates)] ==
        IF k = 0 THEN 0
        ELSE LET arrives == IF fates[k] = "lost" THEN 0 ELSE 1
                 reads   == IF b[k - 1] > 0 \/ fates[k] = "intime" THEN 1 ELSE 0
             IN  b[k - 1] + arrives - reads
    IN  b

\* The queries of the first socket that succeed.
Answered(fates) ==
    { k \in 1 .. Len(fates) : Accepted(Backlog(fates)[k - 1], fates[k]) }

SpreadTooWide(ports) == Max(ports) - Min(ports) > PortLimit

\* Mutant: a port above the range counts as decremental, too.
MutDirection(ports, extra) ==
    IF extra > Max(ports) THEN "easyDec"
    ELSE IF Min(ports) - extra \in 1 .. PortLimit - 1 THEN "easyDec" ELSE "hard"

\* Where the second socket's port lies against those of the first.
Direction(ports, extra) ==
    IF extra - Max(ports) \in 1 .. PortLimit - 1 THEN "easyInc"
    ELSE IF Min(ports) - extra \in 1 .. PortLimit - 1 THEN "easyDec" ELSE "hard"

\* ports[k], ips[k]: the mapping query k saw; extra: that of the second
\* socket, whose answer arrives or not.
DetectNAT(ports, ips, fates, extra, extraAnswered) ==
    LET ok    == Answered(fates)
        seen  == { ports[k] : k \in ok }
        first == IF ok = {} THEN 0 ELSE ports[Min(ok)]
        Info(type, port) == [type |-> type, port |-> port]
    IN  IF Cardinality(ok) < 2 THEN Info("unknown", first)
        ELSE IF Cardinality(seen) = 1 THEN Info("cone", first)
        ELSE IF Cardinality({ ips[k] : k \in ok }) > 1 THEN Info("hard", first)
        ELSE IF SpreadTooWide(seen) THEN Info("hard", first)
        ELSE IF ~extraAnswered THEN Info("hard", first)
        ELSE LET d == Direction(seen, extra)
             IN  Info(d, IF d = "hard" THEN first ELSE extra)

-----------------------------------------------------------------------------
(* The reference: how NATs allocate ports *)

\* Mapping k of a NAT that allocates in direction dir from start, with gaps
\* for the mappings of other traffic, wrapping around at the ends.
Allocation(dir, start, gaps) ==
    LET span == HighPort - LowPort + 1
        m[k \in 1 .. Len(gaps) + 1] ==
            IF k = 1 THEN start
            ELSE LowPort + ((m[k - 1] - LowPort + dir * gaps[k - 1]) % span)
    IN  m

OneAddress == [k \in 1 .. StunServers |-> 0]
ManyAddresses == [k \in 1 .. StunServers |-> k]

\* A NAT: "cone" maps a socket to one port, whoever is asked; "inc" and
\* "dec" allocate in one direction; "pool" changes its address, too.
Mapping(nat) ==
    IF nat.kind = "cone" THEN [k \in 1 .. StunServers + 1 |-> nat.start]
    ELSE Allocation(IF nat.kind = "dec" THEN -1 ELSE 1, nat.start, nat.gaps)

Detected(nat, fates, extraAnswered) ==
    DetectNAT(Mapping(nat), IF nat.kind = "pool" THEN ManyAddresses ELSE OneAddress,
              fates, Mapping(nat)[StunServers + 1], extraAnswered)

Easy(kind) == IF kind = "inc" THEN "easyInc" ELSE "easyDec"

\* What DetectNAT may say of it: Cone of a Cone NAT and of no other, a
\* direction only if it is the right one, the ports seen are close and the
\* port it comes with is the newest mapping.
Fits(nat, fates, extraAnswered) ==
    LET r    == Detected(nat, fates, extraAnswered)
        m    == Mapping(nat)
        seen == { m[k] : k \in Answered(fates) }
    IN  CASE r.type = "unknown" -> Cardinality(Answered(fates)) < 2
          [] r.type = "cone" -> nat.kind = "cone"
          [] r.type = "hard" -> nat.kind # "cone"
          [] OTHER -> /\ nat.kind \in {"inc", "dec"} /\ r.type = Easy(nat.kind)
                      /\ r.port = m[StunServers + 1]
                      /\ Max(seen) - Min(seen) <= PortLimit

\* ... and must say: that a NAT is Easy whose ports stay within the limits.
Predictable(nat, fates, extraAnswered) ==
    LET m    == Mapping(nat)
        dir  == IF nat.kind = "inc" THEN 1 ELSE -1
        new  == m[StunServers + 1]
        seen == { m[k] : k \in Answered(fates) }
    IN  /\ nat.kind \in {"inc", "dec"} /\ Cardinality(seen) > 1 /\ extraAnswered
        /\ Max(seen) - Min(seen) <= PortLimit
        /\ \A k \in 1 .. StunServers : dir * (m[k + 1] - m[k]) > 0
        /\ \E p \in seen : dir * (new - p) < PortLimit

=============================================================================
