---------------------------- MODULE MCClientConn ----------------------------
(* ClientConn on small instances.                                          *)
EXTENDS ClientConn, TLC

\* Goroutine identities are interchangeable.
GoSymmetry == Permutations(Gos)

=============================================================================
