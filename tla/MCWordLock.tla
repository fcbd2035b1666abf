----------------------------- MODULE MCWordLock -----------------------------
(* Model checking WordLock on a few threads. *)
EXTENDS WordLock, TLC

Symmetry == Permutations(Threads)

=============================================================================
