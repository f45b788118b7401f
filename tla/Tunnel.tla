------------------------------- MODULE Tunnel -------------------------------
(***************************************************************************)
(* What forwarding promises the two applications: once the service has     *)
(* been granted, each direction carries the chunks the one side sent to    *)
(* the other in order, none twice, none left out before one delivered.     *)
(* Either direction may stop at any point: the tail may be lost.           *)
(***************************************************************************)
EXTENDS Integers

VARIABLES
    allowed,          \* the request satisfies the server's configuration
    granted,          \* the target has been connected
    sentUp, gotUp,    \* chunks the client application sent, the target got
    sentDown, gotDown \* chunks the target sent, the client application got

tunnelVars == <<allowed, granted, sentUp, gotUp, sentDown, gotDown>>

Init ==
    /\ allowed \in BOOLEAN
    /\ granted = FALSE
    /\ sentUp = 0 /\ gotUp = 0 /\ sentDown = 0 /\ gotDown = 0

Grant ==
    /\ allowed
    /\ granted' = TRUE
    /\ UNCHANGED <<allowed, sentUp, gotUp, sentDown, gotDown>>

SendUp ==
    /\ sentUp' = sentUp + 1
    /\ UNCHANGED <<allowed, granted, gotUp, sentDown, gotDown>>

SendDown ==
    /\ granted
    /\ sentDown' = sentDown + 1
    /\ UNCHANGED <<allowed, granted, sentUp, gotUp, gotDown>>

\* The next chunk arrives, and no other.
DeliverUp ==
    /\ granted
    /\ gotUp < sentUp
    /\ gotUp' = gotUp + 1
    /\ UNCHANGED <<allowed, granted, sentUp, sentDown, gotDown>>

DeliverDown ==
    /\ gotDown < sentDown
    /\ gotDown' = gotDown + 1
    /\ UNCHANGED <<allowed, granted, sentUp, gotUp, sentDown>>

Next == Grant \/ SendUp \/ SendDown \/ DeliverUp \/ DeliverDown

Spec == Init /\ [][Next]_tunnelVars

=============================================================================
