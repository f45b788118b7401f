---------------------------- MODULE MCDispatcher ----------------------------
(* Dispatcher on a small instance: a heartbeat-like and a response-like    *)
(* message type, requested one at a time (the handshakes) and together     *)
(* (the monitors), with a ttl the ceiling refuses and one that defaults.   *)
EXTENDS Dispatcher

CONSTANTS hb, resp

MCRequests == {<<resp>>, <<hb, resp>>}

=============================================================================
