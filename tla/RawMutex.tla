------------------------------ MODULE RawMutex ------------------------------
(***************************************************************************)
(* src/raw_mutex.rs: the mutex built on the parking lot.  Its state is a   *)
(* byte with LOCKED_BIT and PARKED_BIT, modelled as the set of the bits    *)
(* that are set.  Threads that wait are parked in the queue of the mutex's *)
(* address; an unlock wakes the first one and either frees the mutex, so   *)
(* that any running thread may take it, or hands it over without freeing   *)
(* it (TOKEN_HANDOFF).  RawFairMutex (src/raw_fair_mutex.rs) is the mutex  *)
(* whose users only call unlock_fair.                                      *)
(*                                                                         *)
(* The parking lot is the per-key queue of AbstractParkingLot, with the    *)
(* bucket lock kept: queue is read and written only under it.  park and    *)
(* the removal after a timeout make one access of the mutex state under    *)
(* the lock and are one step that needs the lock free; unpark_one holds it *)
(* from its scan through the callback to unpark_lock.                      *)
(***************************************************************************)
EXTENDS Naturals, Sequences

CONSTANTS
  Threads,      (* the threads that use the mutex                          *)
  Null,         (* no thread                                               *)
  SpinLimit,    (* calls of SpinWait::spin that return true (10 in the code)*)
  Timeouts,     (* subset of BOOLEAN: do threads lock with a timeout?      *)
  Fairness      (* subset of BOOLEAN: do they use unlock or unlock_fair?   *)

ASSUME RawMutexAssumption ==
  /\ Null \notin Threads
  /\ SpinLimit \in Nat
  /\ Timeouts \subseteq BOOLEAN
  /\ Fairness \subseteq BOOLEAN

VARIABLES
  state,        (* the bits that are set                                   *)
  bucket,       (* the thread that holds the bucket lock, or Null          *)
  queue,        (* the threads parked on the mutex, the first to wake first*)
  futex,        (* parker: TRUE from prepare_park to unpark_lock           *)
  token,        (* ThreadData.unpark_token                                 *)
  pc,           (* where each thread is                                    *)
  st,           (* the local variable state of lock_slow                   *)
  spin,         (* SpinWait.counter                                        *)
  timed,        (* lock_slow was given a timeout                           *)
  fair,         (* force_fair, or be_fair once unpark_one has decided it   *)
  bump,         (* unlock_slow was called by bump_slow                     *)
  target,       (* the thread unpark_one took from the queue, or Null      *)
  more          (* have_more_threads                                       *)

vars == <<state, bucket, queue, futex, token, pc, st, spin, timed, fair, bump,
          target, more>>

parking  == <<bucket, queue, futex, token>>
locking  == <<st, spin, timed>>
unlocking == <<fair, bump, target, more>>

-----------------------------------------------------------------------------

LOCKED_BIT == "LOCKED_BIT"
PARKED_BIT == "PARKED_BIT"
Bits == {LOCKED_BIT, PARKED_BIT}

TOKEN_NORMAL  == "TOKEN_NORMAL"
TOKEN_HANDOFF == "TOKEN_HANDOFF"
Tokens == {TOKEN_NORMAL, TOKEN_HANDOFF}

Labels == {"idle", "relock", "lock_slow", "park", "parked", "expired", "retry",
           "held", "unlock_slow", "callback", "deliver"}

TypeOK ==
  /\ state \in SUBSET Bits
  /\ bucket \in Threads \cup {Null}
  /\ queue \in Seq(Threads)
  /\ futex \in [Threads -> BOOLEAN]
  /\ token \in [Threads -> Tokens]
  /\ pc \in [Threads -> Labels]
  /\ st \in [Threads -> SUBSET Bits]
  /\ spin \in [Threads -> 0 .. SpinLimit]
  /\ timed \in [Threads -> BOOLEAN]
  /\ fair \in [Threads -> BOOLEAN]
  /\ bump \in [Threads -> BOOLEAN]
  /\ target \in [Threads -> Threads \cup {Null}]
  /\ more \in [Threads -> BOOLEAN]

Init ==
  /\ state = {}
  /\ bucket = Null
  /\ queue = <<>>
  /\ futex = [t \in Threads |-> FALSE]
  /\ token = [t \in Threads |-> TOKEN_NORMAL]
  /\ pc = [t \in Threads |-> "idle"]
  /\ st = [t \in Threads |-> {}]
  /\ spin = [t \in Threads |-> 0]
  /\ timed = [t \in Threads |-> FALSE]
  /\ fair = [t \in Threads |-> FALSE]
  /\ bump = [t \in Threads |-> FALSE]
  /\ target = [t \in Threads |-> Null]
  /\ more = [t \in Threads |-> FALSE]

Goto(t, from, to) ==
  /\ pc[t] = from
  /\ pc' = [pc EXCEPT ![t] = to]

(* state.load, or the value a failed compare_exchange returns *)
Load(t) == st' = [st EXCEPT ![t] = state]

(* lock_slow returns; its local variables are gone. *)
LockReturns(t) ==
  /\ st' = [st EXCEPT ![t] = {}]
  /\ spin' = [spin EXCEPT ![t] = 0]
  /\ timed' = [timed EXCEPT ![t] = FALSE]

(* state and spinwait are not read again before Retry sets them. *)
Forget(t) ==
  /\ st' = [st EXCEPT ![t] = {}]
  /\ spin' = [spin EXCEPT ![t] = 0]
  /\ UNCHANGED timed

(* The queue without the entry at position i *)
RemoveEntry(q, i) ==
  [j \in 1 .. Len(q) - 1 |-> IF j < i THEN q[j] ELSE q[j + 1]]

-----------------------------------------------------------------------------
(* lock, try_lock, try_lock_until, try_lock_for *)

(* The fast path of lock and of the timed locks; bump_slow ends with lock. *)
Lock(t) ==
  /\ state = {}
  /\ \/ Goto(t, "idle", "held")
     \/ Goto(t, "relock", "held")
  /\ state' = {LOCKED_BIT}
  /\ UNCHANGED <<parking, locking, unlocking>>

(* try_lock: succeeds whenever the mutex is free, queue or no queue. *)
TryLock(t) ==
  /\ Goto(t, "idle", "held")
  /\ LOCKED_BIT \notin state
  /\ state' = state \cup {LOCKED_BIT}
  /\ UNCHANGED <<parking, locking, unlocking>>

(* The weak compare_exchange of the fast path failed, perhaps spuriously. *)
LockSlow(t, timeout) ==
  /\ \/ Goto(t, "idle", "lock_slow")
     \/ Goto(t, "relock", "lock_slow") /\ ~timeout
  /\ Load(t)
  /\ spin' = [spin EXCEPT ![t] = 0]
  /\ timed' = [timed EXCEPT ![t] = timeout]
  /\ UNCHANGED <<state, parking, unlocking>>

(* The mutex was free when the state was read: grab it. *)
Grab(t) ==
  /\ pc[t] = "lock_slow"
  /\ LOCKED_BIT \notin st[t]
  /\ IF state = st[t]
     THEN /\ Goto(t, "lock_slow", "held")
          /\ state' = state \cup {LOCKED_BIT}
          /\ LockReturns(t)
     ELSE /\ Load(t)
          /\ UNCHANGED <<pc, state, spin, timed>>
  /\ UNCHANGED <<parking, unlocking>>

(* It is locked and nobody is parked: spin a few times. *)
Spin(t) ==
  /\ pc[t] = "lock_slow"
  /\ st[t] = {LOCKED_BIT}
  /\ spin[t] < SpinLimit
  /\ spin' = [spin EXCEPT ![t] = @ + 1]
  /\ Load(t)
  /\ UNCHANGED <<state, parking, pc, timed, unlocking>>

(* Set the parked bit. *)
SetParked(t) ==
  /\ pc[t] = "lock_slow"
  /\ st[t] = {LOCKED_BIT}
  /\ spin[t] >= SpinLimit
  /\ IF state = st[t]
     THEN /\ Goto(t, "lock_slow", "park")
          /\ state' = state \cup {PARKED_BIT}
          /\ Forget(t)
     ELSE /\ Load(t)
          /\ UNCHANGED <<pc, state, spin, timed>>
  /\ UNCHANGED <<parking, unlocking>>

AlreadyParked(t) ==
  /\ Goto(t, "lock_slow", "park")
  /\ st[t] = Bits
  /\ Forget(t)
  /\ UNCHANGED <<state, parking, unlocking>>

(* park: join the queue if the mutex is still locked with the parked bit   *)
(* set, or else try again.                                                 *)
Park(t) ==
  /\ bucket = Null
  /\ state = Bits
  /\ Goto(t, "park", "parked")
  /\ queue' = Append(queue, t)
  /\ futex' = [futex EXCEPT ![t] = TRUE]
  /\ UNCHANGED <<state, bucket, token, locking, unlocking>>

ParkInvalid(t) ==
  /\ bucket = Null
  /\ state # Bits
  /\ Goto(t, "park", "retry")
  /\ UNCHANGED <<state, parking, locking, unlocking>>

(* park returned Unparked: with TOKEN_HANDOFF the mutex is the thread's    *)
(* own already.                                                            *)
ParkReturns(t, from) ==
  \/ /\ token[t] = TOKEN_HANDOFF
     /\ Goto(t, from, "held")
     /\ LockReturns(t)
  \/ /\ token[t] # TOKEN_HANDOFF
     /\ Goto(t, from, "retry")
     /\ UNCHANGED locking

Unparked(t) ==
  /\ ~futex[t]
  /\ ParkReturns(t, "parked")
  /\ UNCHANGED <<state, parking, unlocking>>

(* park_until gave up while the thread was still parked. *)
Expire(t) ==
  /\ Goto(t, "parked", "expired")
  /\ timed[t] /\ futex[t]
  /\ UNCHANGED <<state, parking, locking, unlocking>>

(* Mutant: a timed-out thread gives up without asking its parker again. *)
UnparkedLateGivesUp(t) ==
  /\ bucket = Null
  /\ ~futex[t]
  /\ Goto(t, "expired", "idle")
  /\ LockReturns(t)
  /\ UNCHANGED <<state, parking, unlocking>>

(* The thread has its bucket again and finds that it was unparked. *)
UnparkedLate(t) ==
  /\ bucket = Null
  /\ ~futex[t]
  /\ ParkReturns(t, "expired")
  /\ UNCHANGED <<state, parking, unlocking>>

(* Mutants: the last thread to time out leaves the parked bit set, or any  *)
(* thread clears it.                                                       *)
TimedOutAs(t, new_state) ==
  /\ bucket = Null
  /\ Goto(t, "expired", "idle")
  /\ futex[t]
  /\ \E i \in DOMAIN queue : queue[i] = t /\ queue' = RemoveEntry(queue, i)
  /\ state' = new_state
  /\ LockReturns(t)
  /\ UNCHANGED <<bucket, futex, token, unlocking>>
TimedOutKeepsBit(t) == TimedOutAs(t, state)
TimedOutClearsBit(t) == TimedOutAs(t, state \ {PARKED_BIT})

(* It timed out: it leaves the queue, clears the parked bit if it was the  *)
(* last thread there, and the lock function returns false.                 *)
TimedOut(t) ==
  /\ bucket = Null
  /\ Goto(t, "expired", "idle")
  /\ futex[t]
  /\ \E i \in DOMAIN queue :
       /\ queue[i] = t
       /\ queue' = RemoveEntry(queue, i)
  /\ state' = IF queue' = <<>> THEN state \ {PARKED_BIT} ELSE state
  /\ LockReturns(t)
  /\ UNCHANGED <<bucket, futex, token, unlocking>>

Retry(t) ==
  /\ Goto(t, "retry", "lock_slow")
  /\ Load(t)
  /\ spin' = [spin EXCEPT ![t] = 0]
  /\ UNCHANGED <<state, parking, timed, unlocking>>

-----------------------------------------------------------------------------
(* unlock, unlock_fair, bump *)

(* Mutant: the fast path clears LOCKED_BIT and ignores the parked bit. *)
UnlockIgnoresParked(t) ==
  /\ Goto(t, "held", "idle")
  /\ state' = state \ {LOCKED_BIT}
  /\ UNCHANGED <<parking, locking, unlocking>>

(* The fast path: nobody is parked. *)
Unlock(t) ==
  /\ Goto(t, "held", "idle")
  /\ state = {LOCKED_BIT}
  /\ state' = {}
  /\ UNCHANGED <<parking, locking, unlocking>>

(* Mutant: unlock_fair forgets that it has to be fair. *)
UnlockSlowUnfair(t, force_fair) ==
  /\ Goto(t, "held", "unlock_slow")
  /\ state # {LOCKED_BIT}
  /\ UNCHANGED <<state, parking, locking, unlocking>>

UnlockSlow(t, force_fair) ==
  /\ Goto(t, "held", "unlock_slow")
  /\ state # {LOCKED_BIT}
  /\ fair' = [fair EXCEPT ![t] = force_fair]
  /\ UNCHANGED <<state, parking, locking, bump, target, more>>

(* bump: if somebody is parked, unlock fairly and lock again. *)
Bump(t) ==
  /\ Goto(t, "held", "unlock_slow")
  /\ PARKED_BIT \in state
  /\ fair' = [fair EXCEPT ![t] = TRUE]
  /\ bump' = [bump EXCEPT ![t] = TRUE]
  /\ UNCHANGED <<state, parking, locking, target, more>>

(* unpark_one: lock the bucket and take the first thread, if there is one. *)
(* Now and then the parking lot asks for fairness (should_timeout).        *)
UnparkOne(t) ==
  /\ Goto(t, "unlock_slow", "callback")
  /\ bucket = Null
  /\ bucket' = t
  /\ IF queue = <<>>
     THEN /\ target' = [target EXCEPT ![t] = Null]
          /\ more' = [more EXCEPT ![t] = FALSE]
          /\ UNCHANGED <<queue, fair>>
     ELSE /\ target' = [target EXCEPT ![t] = Head(queue)]
          /\ more' = [more EXCEPT ![t] = Len(queue) > 1]
          /\ queue' = Tail(queue)
          /\ \E be_fair \in BOOLEAN :
               fair' = [fair EXCEPT ![t] = @ \/ be_fair]
  /\ UNCHANGED <<state, futex, token, locking, bump>>

HandsOff(t) == target[t] # Null /\ fair[t]

(* Mutants: free the mutex although it is handed over; release the bucket  *)
(* lock before the thread is unparked.                                     *)
CallbackFrees(t) ==
  /\ Goto(t, "callback", "deliver")
  /\ state' = IF more[t] THEN {PARKED_BIT} ELSE {}
  /\ UNCHANGED <<parking, locking, unlocking>>
CallbackUnlocksBucket(t) ==
  /\ Goto(t, "callback", "deliver")
  /\ state' = IF HandsOff(t)
              THEN IF more[t] THEN state ELSE {LOCKED_BIT}
              ELSE IF more[t] THEN {PARKED_BIT} ELSE {}
  /\ bucket' = Null
  /\ UNCHANGED <<queue, futex, token, locking, unlocking>>

(* The callback of unlock_slow: keep the mutex locked for the thread that  *)
(* is about to be unparked, or free it; keep the parked bit if threads     *)
(* remain.                                                                 *)
Callback(t) ==
  /\ Goto(t, "callback", "deliver")
  /\ state' = IF HandsOff(t)
              THEN IF more[t] THEN state ELSE {LOCKED_BIT}
              ELSE IF more[t] THEN {PARKED_BIT} ELSE {}
  /\ UNCHANGED <<parking, locking, unlocking>>

(* Give the thread its token, let its parker go, unlock the bucket. *)
Deliver(t) ==
  /\ Goto(t, "deliver", IF bump[t] THEN "relock" ELSE "idle")
  /\ IF target[t] = Null
     THEN UNCHANGED <<futex, token>>
     ELSE /\ futex' = [futex EXCEPT ![target[t]] = FALSE]
          /\ token' = [token EXCEPT ![target[t]] =
                         IF HandsOff(t) THEN TOKEN_HANDOFF ELSE TOKEN_NORMAL]
  /\ bucket' = Null
  /\ fair' = [fair EXCEPT ![t] = FALSE]
  /\ bump' = [bump EXCEPT ![t] = FALSE]
  /\ target' = [target EXCEPT ![t] = Null]
  /\ more' = [more EXCEPT ![t] = FALSE]
  /\ UNCHANGED <<state, queue, locking>>

-----------------------------------------------------------------------------

LockStep(t) ==
  \/ Lock(t) \/ TryLock(t)
  \/ \E timeout \in Timeouts : LockSlow(t, timeout)
  \/ Grab(t) \/ Spin(t) \/ SetParked(t) \/ AlreadyParked(t)
  \/ Park(t) \/ ParkInvalid(t) \/ Unparked(t)
  \/ Expire(t) \/ UnparkedLate(t) \/ TimedOut(t) \/ Retry(t)

UnlockStep(t) ==
  \/ Unlock(t)
  \/ \E force_fair \in Fairness : UnlockSlow(t, force_fair)
  \/ Bump(t) \/ UnparkOne(t) \/ Callback(t) \/ Deliver(t)

Step(t) == LockStep(t) \/ UnlockStep(t)

Next == \E t \in Threads : Step(t)

Spec == Init /\ [][Next]_vars

(* The steps a thread takes on its own account once it is inside a         *)
(* function or holds the mutex: the scheduler runs it, timeouts pass, and  *)
(* whoever holds the mutex eventually unlocks it.  No thread has to call   *)
(* lock.                                                                   *)
Progress(t) == pc[t] # "idle" /\ Step(t)

FairSpec == Spec /\ \A t \in Threads : WF_vars(Progress(t))

-----------------------------------------------------------------------------
(* Properties *)

(* t has been unparked with TOKEN_HANDOFF, or is about to be: the mutex is *)
(* its own although it has not returned from park yet.                     *)
HandedTo(t) ==
  \/ \E u \in Threads : pc[u] = "deliver" /\ target[u] = t /\ fair[u]
  \/ pc[t] \in {"parked", "expired"} /\ ~futex[t] /\ token[t] = TOKEN_HANDOFF

Owns(t) == pc[t] \in {"held", "unlock_slow", "callback"} \/ HandedTo(t)

(* The mutex has at most one owner, through fast and slow paths, barging   *)
(* and handoffs, and LOCKED_BIT is set exactly while it has one: a handoff *)
(* is never lost to a timeout of the thread it goes to.                    *)
MutualExclusion ==
  /\ \A t, u \in Threads : Owns(t) /\ Owns(u) => t = u
  /\ LOCKED_BIT \in state <=> \E t \in Threads : Owns(t)

(* "We never end up in a situation where there are parked threads but      *)
(* PARKED_BIT is not set" (the state table of RawMutex).                   *)
ParkedBitCoversQueue == queue # <<>> => PARKED_BIT \in state

InQueue(t) == \E i \in DOMAIN queue : queue[i] = t

(* u holds the bucket lock and has taken t out of the queue to unpark it.  *)
Unparks(u, t) == pc[u] \in {"callback", "deliver"} /\ target[u] = t

(* t runs lock_slow, or is on its way back to it. *)
Contends(t) ==
  \/ pc[t] \in {"relock", "lock_slow", "park", "retry"}
  \/ pc[t] \in {"parked", "expired"} /\ ~futex[t]
  \/ \E u \in Threads : Unparks(u, t)

(* The row of the state table for PARKED_BIT without LOCKED_BIT: a free    *)
(* mutex with parked threads has a thread that was unparked, or aborted    *)
(* its park, and is going to take the mutex; the unlock of that thread     *)
(* wakes the next one.                                                     *)
NoLostWakeup == state = {PARKED_BIT} => \E t \in Threads : Contends(t)

(* The rows of the state table with PARKED_BIT: it is set only while some  *)
(* thread is parked, is about to park, or was taken from the queue by an   *)
(* unlock that has yet to update the state.                                *)
ParkedBitIsWanted ==
  PARKED_BIT \in state =>
    \E t \in Threads :
      \/ InQueue(t)
      \/ pc[t] = "park"
      \/ \E u \in Threads : pc[u] = "callback" /\ target[u] = t

(* A thread that sleeps is in the queue, or a thread that holds the bucket *)
(* lock is about to unpark it; one whose timeout has passed therefore      *)
(* finds itself in the queue when it gets the bucket lock (the             *)
(* debug_assert of park).                                                  *)
NoThreadLost ==
  \A t \in Threads :
    pc[t] \in {"parked", "expired"} /\ futex[t] =>
      InQueue(t) \/ \E u \in Threads : bucket = u /\ Unparks(u, t)

(* Every parked thread is unparked in the end, even if all the others keep *)
(* locking and unlocking: unlocks wake the queue from its front.           *)
ParkedIsWoken == \A t \in Threads : InQueue(t) ~> ~InQueue(t)

(* With unlock_fair only, every parked thread without a timeout gets the   *)
(* mutex.                                                                  *)
ParkedGetsMutex == \A t \in Threads : InQueue(t) /\ ~timed[t] ~> Owns(t)

Owner == IF \E t \in Threads : Owns(t)
         THEN CHOOSE t \in Threads : Owns(t)
         ELSE Null

Client == [t \in Threads |->
             IF pc[t] = "idle" THEN "out"
             ELSE IF pc[t] = "held" THEN "in"
             ELSE IF pc[t] \in {"unlock_slow", "callback", "deliver"} THEN "unlocking"
             ELSE "locking"]

Abstract == INSTANCE AbstractLock WITH owner <- Owner, client <- Client

(* The mutex implements the abstract lock: it is granted only while it is  *)
(* free, it is given up or handed over only by its owner and only to a     *)
(* thread that is still waiting, and a lock call that times out never had  *)
(* the mutex handed to it.                                                 *)
ImplementsLock == Abstract!Spec

=============================================================================
