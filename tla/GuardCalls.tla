----------------------------- MODULE GuardCalls -----------------------------
(***************************************************************************)
(* What the lock types of lock_api do: they call a raw lock, and hand out  *)
(* guards.  This module has the raw lock, as the traits of lock_api        *)
(* promise it, RawReentrantMutex, which lock_api builds on a raw mutex,    *)
(* and the parts the methods of every guard are made of.  LockApi has the  *)
(* methods themselves.                                                     *)
(*                                                                         *)
(* A method in progress is the sequence of calls it has still to make on   *)
(* the raw lock, and the guard it will return.  Threads run these calls    *)
(* interleaved.  "closure" stands for the user's closure: it may call      *)
(* other methods, and it may panic.  A fair and an unfair unlock differ in *)
(* who gets the lock next, which no guard can tell.                        *)
(***************************************************************************)
EXTENDS Naturals, Integers, Sequences, Bags, Folds

CONSTANTS
  Threads,      (* the threads                                             *)
  MaxGuards,    (* bound: guards of one thread, and usize::MAX of          *)
                (* lock_count                                              *)
  MaxTotal,     (* bound: guards of all threads                            *)
  MaxDepth,     (* bound: methods of one thread that run at a time         *)
  MaxHandles,   (* bound: Arcs of the lock that are not in a guard         *)
  None          (* no guard, no thread                                     *)

VARIABLES
  lock,         (* the type of the lock                                    *)
  raw,          (* how often it is held: x exclusive, u upgradable, s      *)
                (* shared                                                  *)
  owner,        (* RawReentrantMutex: the owner and its lock_count         *)
  lock_count,
  arc,          (* the strong count of the Arc of the lock                 *)
  handles,      (* the Arcs that are not in a guard                        *)
  held,         (* the guards of each thread, a bag                        *)
  forgotten,    (* those given to mem::forget whose lock is still held     *)
  stack         (* the methods each thread is in, the innermost first      *)

rawVars == <<raw, owner, lock_count>>
arcVars == <<arc, handles>>
vars    == <<lock, rawVars, arcVars, held, forgotten, stack>>

FREE == [x |-> 0, u |-> 0, s |-> 0]

Init ==
  /\ lock \in {"Mutex", "RwLock", "ReentrantMutex"}
  /\ raw = FREE
  /\ owner = None
  /\ lock_count = 0
  /\ arc = 1
  /\ handles = 1
  /\ held = [t \in Threads |-> EmptyBag]
  /\ forgotten = [t \in Threads |-> EmptyBag]
  /\ stack = [t \in Threads |-> <<>>]

Self == "self"                     \* a method of the lock, not of a guard

ArcGuards == {"ArcMutexGuard", "ArcReentrantMutexGuard", "ArcRwLockReadGuard",
              "ArcRwLockWriteGuard", "ArcRwLockUpgradableReadGuard"}

Bagged(g) == IF g = None THEN EmptyBag ELSE SetToBag({g})

(***************************************************************************)
(* Methods.                                                                *)
(***************************************************************************)
InClosure(t) == stack[t] # <<>> /\ Head(Head(stack[t]).ops) = "closure"

GuardsOf(t) == BagCardinality(held[t]) + BagCardinality(forgotten[t]) + Len(stack[t])

Sum(F(_)) == MapThenFoldSet(+, 0, F, LAMBDA T : CHOOSE t \in T : TRUE, Threads)

(* t calls a method of on: a guard it has, or the lock.  The method makes  *)
(* the calls ops and returns ret; when the first may fail (try), on is     *)
(* given back then.  A guard that is borrowed or consumed is out of reach  *)
(* meanwhile.                                                              *)
Call(t, on, ops, ret, try) ==
  /\ stack[t] = <<>> \/ (InClosure(t) /\ Len(stack[t]) < MaxDepth)
  /\ IF on = Self
     THEN /\ handles > 0
          /\ held' = held
     ELSE /\ BagIn(on, held[t])
          /\ held' = [held EXCEPT ![t] = @ (-) Bagged(on)]
  /\ stack' = [stack EXCEPT ![t] =
       <<[on |-> on, ops |-> ops, ret |-> ret, try |-> try]>> \o @]
  /\ UNCHANGED <<lock, rawVars, arcVars, forgotten>>

(* A method of the lock that returns a guard. *)
Acquire(t, ops, guard, try) ==
  /\ \/ GuardsOf(t) < MaxGuards
     \/ GuardsOf(t) = MaxGuards /\ owner = t /\ stack[t] = <<>>
  /\ Sum(GuardsOf) < MaxTotal
  /\ Call(t, Self, ops, guard, try)

(* The method makes the calls first, and then what is left of it but its   *)
(* current call; it returns when nothing is left.                          *)
Continue(t, first) ==
  LET m    == Head(stack[t])
      left == first \o Tail(m.ops)
  IN  IF left = <<>>
      THEN /\ stack' = [stack EXCEPT ![t] = Tail(@)]
           /\ held' = [held EXCEPT ![t] = @ (+) Bagged(m.ret)]
      ELSE /\ stack' = [stack EXCEPT ![t] =
                <<[m EXCEPT !.ops = left, !.try = FALSE]>> \o Tail(@)]
           /\ held' = held

(* The method ends here, and its caller has g. *)
Leave(t, g) ==
  /\ stack' = [stack EXCEPT ![t] = Tail(@)]
  /\ held' = [held EXCEPT ![t] = @ (+) Bagged(g)]

(* try_lock and the like return false, or a timeout passes.  The owner of  *)
(* a reentrant mutex does not get to try.                                  *)
Fail(t) ==
  /\ stack[t] # <<>> /\ Head(stack[t]).try
  /\ Head(Head(stack[t]).ops) = "reentrant_lock" => owner # t
  /\ Leave(t, IF Head(stack[t]).on = Self THEN None ELSE Head(stack[t]).on)
  /\ UNCHANGED <<lock, rawVars, arcVars, forgotten>>

(***************************************************************************)
(* The raw lock.  An unlock does not look whether the lock is held.        *)
(***************************************************************************)
RawMutex(op) ==
  \/ op = "lock" /\ raw = FREE /\ raw' = [raw EXCEPT !.x = @ + 1]
  \/ op \in {"unlock", "unlock_fair"} /\ raw' = [raw EXCEPT !.x = @ - 1]

RawRwLock(op) ==
  \/ op = "lock_shared" /\ raw.x = 0 /\ raw' = [raw EXCEPT !.s = @ + 1]
  \/ op \in {"unlock_shared", "unlock_shared_fair"} /\ raw' = [raw EXCEPT !.s = @ - 1]
  \/ op = "lock_exclusive" /\ raw = FREE /\ raw' = [raw EXCEPT !.x = @ + 1]
  \/ op \in {"unlock_exclusive", "unlock_exclusive_fair"} /\ raw' = [raw EXCEPT !.x = @ - 1]

RawRwLockDowngrade(op) ==
  op = "downgrade" /\ raw' = [raw EXCEPT !.x = @ - 1, !.s = @ + 1]

RawRwLockUpgrade(op) ==
  \/ op = "lock_upgradable" /\ raw.x = 0 /\ raw.u = 0 /\ raw' = [raw EXCEPT !.u = @ + 1]
  \/ op \in {"unlock_upgradable", "unlock_upgradable_fair"} /\ raw' = [raw EXCEPT !.u = @ - 1]
  \/ op = "upgrade" /\ raw.s = 0 /\ raw' = [raw EXCEPT !.u = @ - 1, !.x = @ + 1]

RawRwLockUpgradeDowngrade(op) ==
  \/ op = "downgrade_upgradable" /\ raw' = [raw EXCEPT !.u = @ - 1, !.s = @ + 1]
  \/ op = "downgrade_to_upgradable" /\ raw' = [raw EXCEPT !.x = @ - 1, !.u = @ + 1]

RawCall(t, op) ==
  /\ \/ RawMutex(op) \/ RawRwLock(op) \/ RawRwLockDowngrade(op)
     \/ RawRwLockUpgrade(op) \/ RawRwLockUpgradeDowngrade(op)
  /\ Continue(t, <<>>)
  /\ UNCHANGED <<owner, lock_count, arcVars>>

(* The default bodies of bump and its like. *)
RawMutexFairBump(t, op) ==
  op = "bump" /\ Continue(t, <<"unlock_fair", "lock">>)

RawRwLockFairBump(t, op) ==
  \/ op = "bump_shared" /\ Continue(t, <<"unlock_shared_fair", "lock_shared">>)
  \/ op = "bump_exclusive" /\ Continue(t, <<"unlock_exclusive_fair", "lock_exclusive">>)

RawRwLockUpgradeFairBump(t, op) ==
  op = "bump_upgradable" /\ Continue(t, <<"unlock_upgradable_fair", "lock_upgradable">>)

RawBump(t, op) ==
  /\ \/ RawMutexFairBump(t, op) \/ RawRwLockFairBump(t, op)
     \/ RawRwLockUpgradeFairBump(t, op)
  /\ UNCHANGED <<rawVars, arcVars>>

(***************************************************************************)
(* RawReentrantMutex.  Its three steps inside the raw mutex are apart from *)
(* the calls of the raw mutex.                                             *)
(***************************************************************************)
lock_internal(t) ==
  \/ /\ owner = t
     /\ lock_count < MaxGuards
     /\ lock_count' = lock_count + 1
     /\ Continue(t, <<>>)
     /\ UNCHANGED <<raw, owner>>
  \/ /\ owner = t                  \* "ReentrantMutex lock count overflow"
     /\ lock_count = MaxGuards
     /\ Leave(t, None)
     /\ UNCHANGED rawVars
  \/ /\ owner # t
     /\ raw = FREE
     /\ raw' = [raw EXCEPT !.x = @ + 1]
     /\ Continue(t, <<"set_owner">>)
     /\ UNCHANGED <<owner, lock_count>>

set_owner(t) ==
  /\ owner' = t
  /\ lock_count' = 1
  /\ Continue(t, <<>>)
  /\ UNCHANGED raw

ReentrantUnlock(t) ==
  /\ lock_count' = lock_count - 1
  /\ IF lock_count = 1
     THEN owner' = None /\ Continue(t, <<"unlock">>)
     ELSE owner' = owner /\ Continue(t, <<>>)
  /\ UNCHANGED raw

ReentrantUnlockFair(t) ==
  /\ lock_count' = lock_count - 1
  /\ IF lock_count = 1
     THEN owner' = None /\ Continue(t, <<"unlock_fair">>)
     ELSE owner' = owner /\ Continue(t, <<>>)
  /\ UNCHANGED raw

ReentrantBump(t) ==
  /\ IF lock_count = 1
     THEN /\ owner' = None
          /\ lock_count' = 0
          /\ Continue(t, <<"bump", "set_owner">>)
     ELSE /\ Continue(t, <<>>)
          /\ UNCHANGED <<owner, lock_count>>
  /\ UNCHANGED raw

ReentrantCall(t, op) ==
  /\ \/ op = "reentrant_lock" /\ lock_internal(t)
     \/ op = "set_owner" /\ set_owner(t)
     \/ op = "reentrant_unlock" /\ ReentrantUnlock(t)
     \/ op = "reentrant_unlock_fair" /\ ReentrantUnlockFair(t)
     \/ op = "reentrant_bump" /\ ReentrantBump(t)
  /\ UNCHANGED arcVars

(***************************************************************************)
(* The Arc of the lock.                                                    *)
(***************************************************************************)
ArcCall(t, op) ==
  /\ \/ op = "clone" /\ arc' = arc + 1 /\ handles' = handles
     \/ op = "drop_arc" /\ arc' = arc - 1 /\ handles' = handles
     \/ op = "return_arc" /\ arc' = arc /\ handles' = handles + 1
  /\ Continue(t, <<>>)
  /\ UNCHANGED rawVars

Step(t) ==
  /\ stack[t] # <<>>
  /\ LET op == Head(Head(stack[t]).ops)
     IN  RawCall(t, op) \/ RawBump(t, op) \/ ReentrantCall(t, op) \/ ArcCall(t, op)
  /\ UNCHANGED <<lock, forgotten>>

(* The user drops an Arc, which frees the lock when it is the last.  The   *)
(* last Arc outside the guards cannot go while something borrows the lock  *)
(* through it.                                                             *)
DropHandle ==
  /\ handles > 0
  /\ handles > 1 \/ \A t \in Threads :
       /\ BagToSet(held[t]) \subseteq ArcGuards
       /\ \A i \in DOMAIN stack[t] : stack[t][i].on \in ArcGuards
  /\ handles' = handles - 1
  /\ arc' = arc - 1
  /\ UNCHANGED <<lock, rawVars, held, forgotten, stack>>

(***************************************************************************)
(* The parts of the methods.                                               *)
(***************************************************************************)
(* The method forgets the guard and returns another, with no call. *)
Becomes(t, g, ret) ==
  /\ stack[t] = <<>> \/ InClosure(t)
  /\ BagIn(g, held[t])
  /\ held' = [held EXCEPT ![t] = (@ (-) Bagged(g)) (+) Bagged(ret)]
  /\ UNCHANGED <<lock, rawVars, arcVars, forgotten, stack>>

(* map and the two try_map: they return the mapped guard, or the guard s   *)
(* when the closure finds nothing, which changes nothing.  A closure that  *)
(* panics drops s.                                                         *)
Maps(t, s, mapped, drop) ==
  \/ Becomes(t, s, mapped)
  \/ Call(t, s, drop, None, FALSE)

(* unlocked and unlocked_fair: defer! locks again after the closure. *)
Unlocked(t, s, unlock, relock) == Call(t, s, <<unlock, "closure", relock>>, s, FALSE)

(* with_upgraded and its try variants. *)
WithUpgraded(t, s, try) ==
  Call(t, s, <<"upgrade", "closure", "downgrade_to_upgradable">>, s, try)

(* into_arc and into_arc_fair. *)
IntoArc(t, s, unlock) ==
  /\ handles < MaxHandles
  /\ Call(t, s, <<unlock, "return_arc">>, None, FALSE)

(* The closure returns, or it panics: what defer! has put off is done all  *)
(* the same, and the unwinding drops the guard of the method.              *)
Returns(t) ==
  /\ InClosure(t)
  /\ Continue(t, <<>>)
  /\ UNCHANGED <<lock, rawVars, arcVars, forgotten>>

Panics(t, drops) ==
  /\ InClosure(t)
  /\ LET m == Head(stack[t])
     IN  stack' = [stack EXCEPT ![t] =
           <<[m EXCEPT !.ops = Tail(@) \o drops[m.on], !.ret = None]>> \o Tail(@)]
  /\ UNCHANGED <<lock, rawVars, arcVars, held, forgotten>>

(* mem::forget, MutexGuard::leak. *)
Forget(t, g) ==
  /\ stack[t] = <<>> \/ InClosure(t)
  /\ BagIn(g, held[t])
  /\ held' = [held EXCEPT ![t] = @ (-) Bagged(g)]
  /\ forgotten' = [forgotten EXCEPT ![t] = @ (+) Bagged(g)]
  /\ UNCHANGED <<lock, rawVars, arcVars, stack>>

(* make_guard_unchecked, as its contract allows: the guard was forgotten. *)
Remake(t, g) ==
  /\ stack[t] = <<>> \/ InClosure(t)
  /\ handles > 0
  /\ BagIn(g, forgotten[t])
  /\ forgotten' = [forgotten EXCEPT ![t] = @ (-) Bagged(g)]
  /\ held' = [held EXCEPT ![t] = @ (+) Bagged(g)]
  /\ UNCHANGED <<lock, rawVars, arcVars, stack>>

(* force_unlock and its like, as their contract allows. *)
ForceUnlock(t, g, unlock) ==
  /\ stack[t] = <<>> \/ (InClosure(t) /\ Len(stack[t]) < MaxDepth)
  /\ handles > 0
  /\ BagIn(g, forgotten[t])
  /\ forgotten' = [forgotten EXCEPT ![t] = @ (-) Bagged(g)]
  /\ stack' = [stack EXCEPT ![t] =
       <<[on |-> Self, ops |-> <<unlock>>, ret |-> None, try |-> FALSE]>> \o @]
  /\ UNCHANGED <<lock, rawVars, arcVars, held>>
=============================================================================
