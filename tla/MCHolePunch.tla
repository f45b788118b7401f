---------------------------- MODULE MCHolePunch -----------------------------
(* HolePunch, with the NAT types it starts from checked against what NATs   *)
(* of each kind do.                                                         *)
EXTENDS HolePunch, NATDetection

\* What a NAT maps during a detection does not come round the port range to
\* within PortLimit of where it began.
ASSUME RangeAssumption ==
    /\ PortLimit > 1
    /\ StunServers * (PortLimit + 1) + PortLimit <= HighPort - LowPort + 1

Starts == (LowPort .. LowPort + 2) \cup (HighPort - 2 .. HighPort)
Gaps   == [1 .. StunServers -> {1, PortLimit - 1, PortLimit, PortLimit + 1}]
Losses == [1 .. StunServers -> Fates]

NATs   == [kind : {"cone", "inc", "dec", "pool"}, start : Starts, gaps : Gaps]

\* What DetectNAT says does not fit the NAT, or is not the Easy type it should
\* have.
Misfit(n, fates, extraAnswered) ==
    \/ ~Fits(n, fates, extraAnswered)
    \/ /\ Predictable(n, fates, extraAnswered)
       /\ Detected(n, fates, extraAnswered).type # Easy(n.kind)

\* The types DetectNAT returns for a NAT they do not fit.
Misfits ==
    { Detected(x[1], x[2], x[3]).type :
        x \in { y \in NATs \X Losses \X BOOLEAN : Misfit(y[1], y[2], y[3]) } }

\* The NAT types the two sides choose their methods by fit their NATs,
\* whatever answers DetectNAT lost or got late, at both ends of the port
\* range: DetectNAT, which precedes the first attempt, against its reference.
NATTypeFits ==
    (\A a \in Attempts : cpc[a] = "idle") => \A s \in Sides : nat[s] \notin Misfits

=============================================================================
