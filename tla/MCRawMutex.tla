----------------------------- MODULE MCRawMutex -----------------------------
(* Model checking RawMutex on a few threads. *)
EXTENDS RawMutex, TLC

Symmetry == Permutations(Threads)

=============================================================================
