---------------------------- MODULE MCConfigFile ----------------------------
(* ConfigFile with two overlapping invocations. *)
EXTENDS ConfigFile, TLC

CONSTANTS p1, p2

ProcSymmetry == Permutations({p1, p2})

\* Too large, and too small or not set.
MCZstds == {[min |-> 4096, chunk |-> 4096, level |-> 99],
            [min |-> 0, chunk |-> -1, level |-> Unset]}

=============================================================================
