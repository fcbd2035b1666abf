------------------------------ MODULE LockApi -------------------------------
(***************************************************************************)
(* lock_api/src/mutex.rs, rwlock.rs and remutex.rs: Mutex, RwLock and      *)
(* ReentrantMutex, and their guards: borrowed, in an Arc, and mapped.      *)
(* Each definition is one impl block, or a part of one; what a method does *)
(* is in the raw calls it makes, in their order, and in the guard it       *)
(* returns.  See GuardCalls for both.                                      *)
(***************************************************************************)
EXTENDS GuardCalls

(***************************************************************************)
(* Drop of the guards.                                                     *)
(***************************************************************************)
MutexGuardDrop               == <<"unlock">>
MappedMutexGuardDrop         == <<"unlock">>
ArcMutexGuardDropEarly       == <<"drop_arc", "unlock">>
ArcMutexGuardDrop            == <<"unlock", "drop_arc">>
ReentrantMutexGuardDrop      == <<"reentrant_unlock">>
MappedReentrantMutexGuardDrop == <<"reentrant_unlock">>
ArcReentrantMutexGuardDrop   == <<"reentrant_unlock", "drop_arc">>
RwLockReadGuardDrop          == <<"unlock_shared">>
MappedRwLockReadGuardDrop    == <<"unlock_shared">>
ArcRwLockReadGuardDrop       == <<"unlock_shared", "drop_arc">>
RwLockWriteGuardDrop         == <<"unlock_exclusive">>
MappedRwLockWriteGuardDrop   == <<"unlock_exclusive">>
ArcRwLockWriteGuardDrop      == <<"unlock_exclusive", "drop_arc">>
RwLockUpgradableReadGuardDrop == <<"unlock_upgradable">>
ArcRwLockUpgradableReadGuardDrop == <<"unlock_upgradable", "drop_arc">>

Drops ==
  [MutexGuard                   |-> MutexGuardDrop,
   MappedMutexGuard             |-> MappedMutexGuardDrop,
   ArcMutexGuard                |-> ArcMutexGuardDrop,
   ReentrantMutexGuard          |-> ReentrantMutexGuardDrop,
   MappedReentrantMutexGuard    |-> MappedReentrantMutexGuardDrop,
   ArcReentrantMutexGuard       |-> ArcReentrantMutexGuardDrop,
   RwLockReadGuard              |-> RwLockReadGuardDrop,
   MappedRwLockReadGuard        |-> MappedRwLockReadGuardDrop,
   ArcRwLockReadGuard           |-> ArcRwLockReadGuardDrop,
   RwLockWriteGuard             |-> RwLockWriteGuardDrop,
   MappedRwLockWriteGuard       |-> MappedRwLockWriteGuardDrop,
   ArcRwLockWriteGuard          |-> ArcRwLockWriteGuardDrop,
   RwLockUpgradableReadGuard    |-> RwLockUpgradableReadGuardDrop,
   ArcRwLockUpgradableReadGuard |-> ArcRwLockUpgradableReadGuardDrop]

Drop(t, g) == Call(t, g, Drops[g], None, FALSE)

(***************************************************************************)
(* Mutex.                                                                  *)
(***************************************************************************)
MutexLock(t) == \E try \in BOOLEAN : Acquire(t, <<"lock">>, "MutexGuard", try)

MutexLockArc(t) == \E try \in BOOLEAN : Acquire(t, <<"lock", "clone">>, "ArcMutexGuard", try)

MutexTryLockTimed(t) ==
  \/ Acquire(t, <<"lock">>, "MutexGuard", TRUE)
  \/ Acquire(t, <<"lock", "clone">>, "ArcMutexGuard", TRUE)

MutexIsLocked(t) == Call(t, Self, <<"lock", "unlock">>, None, TRUE)

MutexFmt(t) == Call(t, Self, <<"lock">> \o MutexGuardDrop, None, TRUE)

MutexMakeGuard(t) == Remake(t, "MutexGuard")

MutexForceUnlock(t) == ForceUnlock(t, "MutexGuard", "unlock")

MutexForceUnlockFair(t) == ForceUnlock(t, "MutexGuard", "unlock_fair")

MutexGuardImpl(t, g) ==
  /\ g = "MutexGuard"
  /\ \/ Maps(t, g, "MappedMutexGuard", MutexGuardDrop)
     \/ Unlocked(t, g, "unlock", "lock")
     \/ Forget(t, g)

MutexGuardFairTwice(t, g) ==
  /\ g = "MutexGuard"
  /\ Call(t, g, <<"unlock_fair">> \o MutexGuardDrop, None, FALSE)

MutexGuardFair(t, g) ==
  /\ g = "MutexGuard"
  /\ \/ Call(t, g, <<"unlock_fair">>, None, FALSE)
     \/ Unlocked(t, g, "unlock_fair", "lock")
     \/ Call(t, g, <<"bump">>, g, FALSE)

ArcMutexGuardImpl(t, g) ==
  /\ g = "ArcMutexGuard"
  /\ \/ IntoArc(t, g, "unlock")
     \/ Unlocked(t, g, "unlock", "lock")

ArcMutexGuardFair(t, g) ==
  /\ g = "ArcMutexGuard"
  /\ \/ Call(t, g, <<"unlock_fair", "drop_arc">>, None, FALSE)
     \/ IntoArc(t, g, "unlock_fair")
     \/ Unlocked(t, g, "unlock_fair", "lock")
     \/ Call(t, g, <<"bump">>, g, FALSE)

MappedMutexGuardImpl(t, g) ==
  /\ g = "MappedMutexGuard"
  /\ Maps(t, g, g, MappedMutexGuardDrop)

MappedMutexGuardFair(t, g) ==
  /\ g = "MappedMutexGuard"
  /\ Call(t, g, <<"unlock_fair">>, None, FALSE)

MutexMethods(t) ==
  \/ /\ lock = "Mutex"
     /\ \/ MutexLock(t) \/ MutexLockArc(t) \/ MutexTryLockTimed(t)
        \/ MutexIsLocked(t) \/ MutexFmt(t)
        \/ MutexMakeGuard(t) \/ MutexForceUnlock(t) \/ MutexForceUnlockFair(t)
  \/ \E g \in BagToSet(held[t]) :
       \/ MutexGuardImpl(t, g) \/ MutexGuardFair(t, g)
       \/ ArcMutexGuardImpl(t, g) \/ ArcMutexGuardFair(t, g)
       \/ MappedMutexGuardImpl(t, g) \/ MappedMutexGuardFair(t, g)
(***************************************************************************)
(* ReentrantMutex.                                                         *)
(***************************************************************************)
ReentrantMutexLock(t) ==
  \E try \in BOOLEAN : Acquire(t, <<"reentrant_lock">>, "ReentrantMutexGuard", try)

ReentrantMutexLockArc(t) ==
  \E try \in BOOLEAN :
    Acquire(t, <<"reentrant_lock", "clone">>, "ArcReentrantMutexGuard", try)

ReentrantMutexTryLockTimed(t) ==
  \/ Acquire(t, <<"reentrant_lock">>, "ReentrantMutexGuard", TRUE)
  \/ Acquire(t, <<"reentrant_lock", "clone">>, "ArcReentrantMutexGuard", TRUE)

(* mutex.is_locked() tries the raw mutex, even if the caller owns it. *)
ReentrantMutexIsLocked(t) == Call(t, Self, <<"lock", "unlock">>, None, TRUE)

ReentrantMutexFmt(t) ==
  Acquire(t, <<"reentrant_lock">> \o ReentrantMutexGuardDrop, None, TRUE)

ReentrantMutexMakeGuard(t) == Remake(t, "ReentrantMutexGuard")

ReentrantMutexForceUnlock(t) == ForceUnlock(t, "ReentrantMutexGuard", "reentrant_unlock")

ReentrantMutexForceUnlockFair(t) ==
  ForceUnlock(t, "ReentrantMutexGuard", "reentrant_unlock_fair")

ReentrantMutexGuardImpl(t, g) ==
  /\ g = "ReentrantMutexGuard"
  /\ \/ Maps(t, g, "MappedReentrantMutexGuard", ReentrantMutexGuardDrop)
     \/ Unlocked(t, g, "reentrant_unlock", "reentrant_lock")
     \/ Forget(t, g)

ReentrantMutexGuardFair(t, g) ==
  /\ g = "ReentrantMutexGuard"
  /\ \/ Call(t, g, <<"reentrant_unlock_fair">>, None, FALSE)
     \/ Unlocked(t, g, "reentrant_unlock_fair", "reentrant_lock")
     \/ Call(t, g, <<"reentrant_bump">>, g, FALSE)

ArcReentrantMutexGuardImpl(t, g) ==
  /\ g = "ArcReentrantMutexGuard"
  /\ \/ IntoArc(t, g, "reentrant_unlock")
     \/ Unlocked(t, g, "reentrant_unlock", "reentrant_lock")

ArcReentrantMutexGuardFair(t, g) ==
  /\ g = "ArcReentrantMutexGuard"
  /\ \/ Call(t, g, <<"reentrant_unlock_fair", "drop_arc">>, None, FALSE)
     \/ IntoArc(t, g, "reentrant_unlock_fair")
     \/ Unlocked(t, g, "reentrant_unlock_fair", "reentrant_lock")
     \/ Call(t, g, <<"reentrant_bump">>, g, FALSE)

MappedReentrantMutexGuardImpl(t, g) ==
  /\ g = "MappedReentrantMutexGuard"
  /\ Maps(t, g, g, MappedReentrantMutexGuardDrop)

MappedReentrantMutexGuardFair(t, g) ==
  /\ g = "MappedReentrantMutexGuard"
  /\ Call(t, g, <<"reentrant_unlock_fair">>, None, FALSE)

ReentrantMutexMethods(t) ==
  \/ /\ lock = "ReentrantMutex"
     /\ \/ ReentrantMutexLock(t) \/ ReentrantMutexLockArc(t)
        \/ ReentrantMutexTryLockTimed(t) \/ ReentrantMutexIsLocked(t)
        \/ ReentrantMutexFmt(t) \/ ReentrantMutexMakeGuard(t)
        \/ ReentrantMutexForceUnlock(t) \/ ReentrantMutexForceUnlockFair(t)
  \/ \E g \in BagToSet(held[t]) :
       \/ ReentrantMutexGuardImpl(t, g) \/ ReentrantMutexGuardFair(t, g)
       \/ ArcReentrantMutexGuardImpl(t, g) \/ ArcReentrantMutexGuardFair(t, g)
       \/ MappedReentrantMutexGuardImpl(t, g) \/ MappedReentrantMutexGuardFair(t, g)

(***************************************************************************)
(* RwLock.                                                                 *)
(***************************************************************************)
RwLockRead(t) == \E try \in BOOLEAN : Acquire(t, <<"lock_shared">>, "RwLockReadGuard", try)

RwLockWrite(t) == \E try \in BOOLEAN : Acquire(t, <<"lock_exclusive">>, "RwLockWriteGuard", try)

RwLockReadArc(t) ==
  \E try \in BOOLEAN : Acquire(t, <<"lock_shared", "clone">>, "ArcRwLockReadGuard", try)

RwLockWriteArc(t) ==
  \E try \in BOOLEAN : Acquire(t, <<"lock_exclusive", "clone">>, "ArcRwLockWriteGuard", try)

RwLockTimed(t) ==
  \/ Acquire(t, <<"lock_shared">>, "RwLockReadGuard", TRUE)
  \/ Acquire(t, <<"lock_exclusive">>, "RwLockWriteGuard", TRUE)
  \/ Acquire(t, <<"lock_shared", "clone">>, "ArcRwLockReadGuard", TRUE)
  \/ Acquire(t, <<"lock_exclusive", "clone">>, "ArcRwLockWriteGuard", TRUE)

(* A recursive read may pass waiting writers, which the counts do not see. *)
RwLockRecursive(t) ==
  \E try \in BOOLEAN :
    \/ Acquire(t, <<"lock_shared">>, "RwLockReadGuard", try)
    \/ Acquire(t, <<"lock_shared", "clone">>, "ArcRwLockReadGuard", try)

RwLockRecursiveTimed(t) ==
  \/ Acquire(t, <<"lock_shared">>, "RwLockReadGuard", TRUE)
  \/ Acquire(t, <<"lock_shared", "clone">>, "ArcRwLockReadGuard", TRUE)

RwLockUpgradable(t) ==
  \E try \in BOOLEAN :
    \/ Acquire(t, <<"lock_upgradable">>, "RwLockUpgradableReadGuard", try)
    \/ Acquire(t, <<"lock_upgradable", "clone">>, "ArcRwLockUpgradableReadGuard", try)

RwLockUpgradableTimed(t) ==
  \/ Acquire(t, <<"lock_upgradable">>, "RwLockUpgradableReadGuard", TRUE)
  \/ Acquire(t, <<"lock_upgradable", "clone">>, "ArcRwLockUpgradableReadGuard", TRUE)

RwLockIsLocked(t) == Call(t, Self, <<"lock_exclusive", "unlock_exclusive">>, None, TRUE)

RwLockIsLockedExclusive(t) == Call(t, Self, <<"lock_shared", "unlock_shared">>, None, TRUE)

RwLockFmt(t) == Call(t, Self, <<"lock_shared">> \o RwLockReadGuardDrop, None, TRUE)

RwLockMakeGuard(t) == Remake(t, "RwLockReadGuard") \/ Remake(t, "RwLockWriteGuard")

RwLockForceUnlock(t) ==
  \/ ForceUnlock(t, "RwLockReadGuard", "unlock_shared")
  \/ ForceUnlock(t, "RwLockWriteGuard", "unlock_exclusive")

RwLockForceUnlockFair(t) ==
  \/ ForceUnlock(t, "RwLockReadGuard", "unlock_shared_fair")
  \/ ForceUnlock(t, "RwLockWriteGuard", "unlock_exclusive_fair")

RwLockMethods(t) ==
  /\ lock = "RwLock"
  /\ \/ RwLockRead(t) \/ RwLockWrite(t) \/ RwLockReadArc(t) \/ RwLockWriteArc(t)
     \/ RwLockTimed(t) \/ RwLockRecursive(t) \/ RwLockRecursiveTimed(t)
     \/ RwLockUpgradable(t) \/ RwLockUpgradableTimed(t)
     \/ RwLockIsLocked(t) \/ RwLockIsLockedExclusive(t) \/ RwLockFmt(t)
     \/ RwLockMakeGuard(t) \/ RwLockForceUnlock(t) \/ RwLockForceUnlockFair(t)

RwLockReadGuardImpl(t, g) ==
  /\ g = "RwLockReadGuard"
  /\ \/ Maps(t, g, "MappedRwLockReadGuard", RwLockReadGuardDrop)
     \/ Unlocked(t, g, "unlock_shared", "lock_shared")
     \/ Forget(t, g)

RwLockReadGuardFair(t, g) ==
  /\ g = "RwLockReadGuard"
  /\ \/ Call(t, g, <<"unlock_shared_fair">>, None, FALSE)
     \/ Unlocked(t, g, "unlock_shared_fair", "lock_shared")
     \/ Call(t, g, <<"bump_shared">>, g, FALSE)

ArcRwLockReadGuardImpl(t, g) ==
  /\ g = "ArcRwLockReadGuard"
  /\ \/ IntoArc(t, g, "unlock_shared")
     \/ Unlocked(t, g, "unlock_shared", "lock_shared")

ArcRwLockReadGuardFair(t, g) ==
  /\ g = "ArcRwLockReadGuard"
  /\ \/ Call(t, g, <<"unlock_shared_fair", "drop_arc">>, None, FALSE)
     \/ IntoArc(t, g, "unlock_shared_fair")
     \/ Unlocked(t, g, "unlock_shared_fair", "lock_shared")
     \/ Call(t, g, <<"bump_shared">>, g, FALSE)

RwLockWriteGuardRelocksShared(t, g) ==
  /\ g = "RwLockWriteGuard"
  /\ Unlocked(t, g, "unlock_exclusive", "lock_shared")

RwLockWriteGuardImpl(t, g) ==
  /\ g = "RwLockWriteGuard"
  /\ \/ Maps(t, g, "MappedRwLockWriteGuard", RwLockWriteGuardDrop)
     \/ Unlocked(t, g, "unlock_exclusive", "lock_exclusive")
     \/ Forget(t, g)

RwLockWriteGuardDowngrade(t, g) ==
  /\ g = "RwLockWriteGuard"
  /\ \/ Call(t, g, <<"downgrade">>, "RwLockReadGuard", FALSE)
     \/ Call(t, g, <<"downgrade_to_upgradable">>, "RwLockUpgradableReadGuard", FALSE)

RwLockWriteGuardFair(t, g) ==
  /\ g = "RwLockWriteGuard"
  /\ \/ Call(t, g, <<"unlock_exclusive_fair">>, None, FALSE)
     \/ Unlocked(t, g, "unlock_exclusive_fair", "lock_exclusive")
     \/ Call(t, g, <<"bump_exclusive">>, g, FALSE)

ArcRwLockWriteGuardImpl(t, g) ==
  /\ g = "ArcRwLockWriteGuard"
  /\ \/ IntoArc(t, g, "unlock_exclusive")
     \/ Unlocked(t, g, "unlock_exclusive", "lock_exclusive")

ArcRwLockWriteGuardDowngrade(t, g) ==
  /\ g = "ArcRwLockWriteGuard"
  /\ \/ Call(t, g, <<"downgrade">>, "ArcRwLockReadGuard", FALSE)
     \/ Call(t, g, <<"downgrade_to_upgradable">>, "ArcRwLockUpgradableReadGuard", FALSE)

ArcRwLockWriteGuardFair(t, g) ==
  /\ g = "ArcRwLockWriteGuard"
  /\ \/ Call(t, g, <<"unlock_exclusive_fair", "drop_arc">>, None, FALSE)
     \/ IntoArc(t, g, "unlock_exclusive_fair")
     \/ Unlocked(t, g, "unlock_exclusive_fair", "lock_exclusive")
     \/ Call(t, g, <<"bump_exclusive">>, g, FALSE)

RwLockUpgradableReadGuardImpl(t, g) ==
  /\ g = "RwLockUpgradableReadGuard"
  /\ \/ Unlocked(t, g, "unlock_upgradable", "lock_upgradable")
     \/ \E try \in BOOLEAN : Call(t, g, <<"upgrade">>, "RwLockWriteGuard", try)

RwLockUpgradableReadGuardFair(t, g) ==
  /\ g = "RwLockUpgradableReadGuard"
  /\ \/ Call(t, g, <<"unlock_upgradable_fair">>, None, FALSE)
     \/ Unlocked(t, g, "unlock_upgradable_fair", "lock_upgradable")
     \/ Call(t, g, <<"bump_upgradable">>, g, FALSE)

RwLockUpgradableReadGuardDowngrade(t, g) ==
  /\ g = "RwLockUpgradableReadGuard"
  /\ \/ Call(t, g, <<"downgrade_upgradable">>, "RwLockReadGuard", FALSE)
     \/ \E try \in BOOLEAN : WithUpgraded(t, g, try)

RwLockUpgradableReadGuardTimed(t, g) ==
  /\ g = "RwLockUpgradableReadGuard"
  /\ \/ Call(t, g, <<"upgrade">>, "RwLockWriteGuard", TRUE)
     \/ WithUpgraded(t, g, TRUE)

ArcRwLockUpgradableReadGuardImpl(t, g) ==
  /\ g = "ArcRwLockUpgradableReadGuard"
  /\ \/ IntoArc(t, g, "unlock_upgradable")
     \/ Unlocked(t, g, "unlock_upgradable", "lock_upgradable")
     \/ \E try \in BOOLEAN : Call(t, g, <<"upgrade">>, "ArcRwLockWriteGuard", try)

ArcRwLockUpgradableReadGuardFair(t, g) ==
  /\ g = "ArcRwLockUpgradableReadGuard"
  /\ \/ Call(t, g, <<"unlock_upgradable_fair", "drop_arc">>, None, FALSE)
     \/ IntoArc(t, g, "unlock_upgradable_fair")
     \/ Unlocked(t, g, "unlock_upgradable_fair", "lock_upgradable")
     \/ Call(t, g, <<"bump_upgradable">>, g, FALSE)

ArcRwLockUpgradableReadGuardDowngrade(t, g) ==
  /\ g = "ArcRwLockUpgradableReadGuard"
  /\ \/ Call(t, g, <<"downgrade_upgradable">>, "ArcRwLockReadGuard", FALSE)
     \/ \E try \in BOOLEAN : WithUpgraded(t, g, try)

ArcRwLockUpgradableReadGuardTimed(t, g) ==
  /\ g = "ArcRwLockUpgradableReadGuard"
  /\ \/ Call(t, g, <<"upgrade">>, "ArcRwLockWriteGuard", TRUE)
     \/ WithUpgraded(t, g, TRUE)

MappedRwLockReadGuardImpl(t, g) ==
  /\ g = "MappedRwLockReadGuard"
  /\ Maps(t, g, g, MappedRwLockReadGuardDrop)

MappedRwLockReadGuardFair(t, g) ==
  /\ g = "MappedRwLockReadGuard"
  /\ Call(t, g, <<"unlock_shared_fair">>, None, FALSE)

MappedRwLockWriteGuardImpl(t, g) ==
  /\ g = "MappedRwLockWriteGuard"
  /\ Maps(t, g, g, MappedRwLockWriteGuardDrop)

MappedRwLockWriteGuardFair(t, g) ==
  /\ g = "MappedRwLockWriteGuard"
  /\ Call(t, g, <<"unlock_exclusive_fair">>, None, FALSE)

RwLockGuardMethods(t) ==
  \E g \in BagToSet(held[t]) :
    \/ RwLockReadGuardImpl(t, g) \/ RwLockReadGuardFair(t, g)
    \/ ArcRwLockReadGuardImpl(t, g) \/ ArcRwLockReadGuardFair(t, g)
    \/ RwLockWriteGuardImpl(t, g) \/ RwLockWriteGuardDowngrade(t, g)
    \/ RwLockWriteGuardFair(t, g)
    \/ ArcRwLockWriteGuardImpl(t, g) \/ ArcRwLockWriteGuardDowngrade(t, g)
    \/ ArcRwLockWriteGuardFair(t, g)
    \/ RwLockUpgradableReadGuardImpl(t, g) \/ RwLockUpgradableReadGuardFair(t, g)
    \/ RwLockUpgradableReadGuardDowngrade(t, g) \/ RwLockUpgradableReadGuardTimed(t, g)
    \/ ArcRwLockUpgradableReadGuardImpl(t, g) \/ ArcRwLockUpgradableReadGuardFair(t, g)
    \/ ArcRwLockUpgradableReadGuardDowngrade(t, g)
    \/ ArcRwLockUpgradableReadGuardTimed(t, g)
    \/ MappedRwLockReadGuardImpl(t, g) \/ MappedRwLockReadGuardFair(t, g)
    \/ MappedRwLockWriteGuardImpl(t, g) \/ MappedRwLockWriteGuardFair(t, g)

(***************************************************************************)
(* The specification.                                                      *)
(***************************************************************************)
Next ==
  \/ DropHandle
  \/ \E t \in Threads :
       \/ Step(t) \/ Fail(t) \/ Returns(t) \/ Panics(t, Drops)
       \/ MutexMethods(t) \/ ReentrantMutexMethods(t)
       \/ RwLockMethods(t) \/ RwLockGuardMethods(t)
       \/ \E g \in BagToSet(held[t]) : Drop(t, g)

Spec == Init /\ [][Next]_vars

(***************************************************************************)
(* Properties.                                                             *)
(***************************************************************************)
Exclusive  == {"MutexGuard", "MappedMutexGuard", "ArcMutexGuard", "RwLockWriteGuard",
               "MappedRwLockWriteGuard", "ArcRwLockWriteGuard"}
Upgradable == {"RwLockUpgradableReadGuard", "ArcRwLockUpgradableReadGuard"}
Shared     == {"RwLockReadGuard", "MappedRwLockReadGuard", "ArcRwLockReadGuard"}
Reentrant  == {"ReentrantMutexGuard", "MappedReentrantMutexGuard", "ArcReentrantMutexGuard"}

(* How many guards of a set are in a bag, and in the bags of all threads. *)
In(B, S)    == BagCardinality([g \in DOMAIN B \cap S |-> B[g]])
Total(b, S) == Sum(LAMBDA t : In(b[t], S))

(* The closures of with_upgraded that run: each writes the data. *)
Upgraded(t) ==
  Len(SelectSeq(stack[t], LAMBDA m : m.ops[1] = "closure" /\ m.on \in Upgradable
                                     /\ "downgrade_to_upgradable" \in {m.ops[i] : i \in DOMAIN m.ops}))

(* Whatever locks, try-locks, maps, upgrades, unlocked closures and panics *)
(* have come before: a guard or a closure that writes the data is alone,   *)
(* there is one upgradable guard at most, and the guards of a reentrant    *)
(* mutex are all of one thread.                                            *)
GuardsExclude ==
  LET writers == Total(held, Exclusive) + Sum(Upgraded)
  IN  /\ writers + Total(held, Upgradable) <= 1
      /\ writers = 1 => Total(held, Shared) = 0
      /\ \A t, u \in Threads :
           In(held[t], Reentrant) > 0 /\ In(held[u], Reentrant) > 0 => t = u

Quiet == \A t \in Threads : stack[t] = <<>>

(* When no method runs, the raw lock is held exactly as often, and in the  *)
(* modes, as there are guards, those of mem::forget included: no guard has *)
(* lost its lock, none was released twice, and no method has left the lock *)
(* held behind a panic.  The owner and lock_count of a reentrant mutex     *)
(* agree with the guards of that thread.                                   *)
RawMatchesGuards ==
  Quiet =>
    LET all == [t \in Threads |-> held[t] (+) forgotten[t]]
    IN  /\ raw = [x |-> Total(all, Exclusive) + (IF Total(all, Reentrant) > 0 THEN 1 ELSE 0),
                  u |-> Total(all, Upgradable),
                  s |-> Total(all, Shared)]
        /\ lock_count = Total(all, Reentrant)
        /\ \A t \in Threads : In(all[t], Reentrant) > 0 <=> owner = t

(* The lock is not freed while a guard or a method can still reach it, and *)
(* when no method runs the strong count is that of the Arcs there are: one *)
(* per Arc guard, and those the user has.                                  *)
LockOutlivesGuards ==
  /\ \A t \in Threads : stack[t] # <<>> \/ BagToSet(held[t]) # {} => arc > 0
  /\ Quiet => arc = handles + Total(held, ArcGuards)
=============================================================================
