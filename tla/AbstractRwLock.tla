--------------------------- MODULE AbstractRwLock ---------------------------
(***************************************************************************)
(* What a reader-writer lock with upgradable readers promises its users.   *)
(* A thread holds some number of shared locks and at most one of an        *)
(* upgradable and an exclusive lock.  A writer is alone; an upgradable     *)
(* reader excludes writers and other upgradable readers.  Only the thread  *)
(* that holds a lock gives it up, to nobody or to threads that wait.       *)
(*                                                                         *)
(* RawRwLock is shown to implement this specification.                     *)
(***************************************************************************)
EXTENDS Naturals

CONSTANTS
  Threads     (* the threads that use the lock                             *)

VARIABLES
  reads,      (* reads[t]: the shared locks t holds                        *)
  mode        (* mode[t]: "none", "upgradable" or "exclusive"              *)

Modes == {"none", "upgradable", "exclusive"}

Init ==
  /\ reads = [t \in Threads |-> 0]
  /\ mode = [t \in Threads |-> "none"]

(* What may be held at the same time by different threads *)
Compatible(r, m) ==
  \A t, u \in Threads :
    t # u =>
      /\ m[t] = "exclusive" => m[u] = "none" /\ r[u] = 0
      /\ m[t] = "upgradable" => m[u] # "upgradable"

(* u gets one more shared lock, or its first upgradable or exclusive one.  *)
Granted(u) ==
  \/ reads'[u] = reads[u] + 1 /\ mode'[u] = mode[u]
  \/ reads'[u] = reads[u] /\ mode[u] = "none" /\ mode'[u] # "none"

Released(t) ==
  \/ reads'[t] = reads[t] - 1 /\ mode'[t] = mode[t]
  \/ reads'[t] = reads[t] /\ mode[t] # "none" /\ mode'[t] = "none"

(* upgrade, downgrade, downgrade_to_upgradable, downgrade_upgradable: the  *)
(* lock changes kind in one step, nobody is let in between.                *)
Converted(t) ==
  \/ /\ reads'[t] = reads[t]
     /\ {mode[t], mode'[t]} = {"upgradable", "exclusive"}
  \/ /\ reads'[t] = reads[t] + 1
     /\ mode[t] # "none" /\ mode'[t] = "none"

Same(u) == reads'[u] = reads[u] /\ mode'[u] = mode[u]

(* One thread acquires, converts or releases a lock; a release may hand    *)
(* locks to others.                                                        *)
Change(t) ==
  /\ reads' \in [Threads -> Nat] /\ mode' \in [Threads -> Modes]
  /\ Compatible(reads', mode')
  /\ \/ Granted(t) /\ \A u \in Threads \ {t} : Same(u)
     \/ Converted(t) /\ \A u \in Threads \ {t} : Same(u)
     \/ Released(t) /\ \A u \in Threads \ {t} : Same(u) \/ Granted(u)

Next == \E t \in Threads : Change(t)

Spec == Init /\ [][Next]_<<reads, mode>>

=============================================================================
