----------------------------- MODULE MCRawRwLock ----------------------------
(* Model checking RawRwLock on a few threads. *)
EXTENDS RawRwLock

Symmetry == Permutations(Threads)

(* Operations with which nobody keeps the lock for ever: no recursive      *)
(* readers, which may overtake a writer again and again, and no way back   *)
(* from the exclusive to the upgradable lock.                              *)
LiveOps == {"shared", "exclusive", "upgradable", "upgrade", "downgrade",
            "bump_shared", "bump_upgradable"}

=============================================================================
