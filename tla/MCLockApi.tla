----------------------------- MODULE MCLockApi ------------------------------
(* An instance of LockApi.  The threads are interchangeable. *)
EXTENDS LockApi, TLC

Symmetry == Permutations(Threads)
=============================================================================
