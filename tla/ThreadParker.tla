---------------------------- MODULE ThreadParker ----------------------------
(***************************************************************************)
(* core/src/thread_parker: how one thread sleeps on each platform, and how *)
(* others wake it, under the protocol of park and unpark_one in            *)
(* core/src/parking_lot.rs.  The parker is prepared and queued under the   *)
(* lock of the bucket; a thread that unparks it takes it from the queue    *)
(* and calls unpark_lock under that lock, and unpark after it; a thread    *)
(* that times out asks timed_out() under the lock again.                   *)
(*                                                                         *)
(* Three families are modelled: the parkers that clear a flag before they  *)
(* wake the thread (Linux, Redox, WebAssembly, WaitOnAddress, SGX and the  *)
(* generic spinning one), the pthread one (unix.rs), and keyed events.     *)
(* The system calls are external.  The thread parks again and again, so    *)
(* that a late wakeup may meet the next park.                              *)
(***************************************************************************)
EXTENDS Naturals, FiniteSets

CONSTANTS
  Unparkers,    (* the threads that unpark it                              *)
  Parker,       (* the thread                                              *)
  Null          (* no thread                                               *)

ASSUME ThreadParkerAssumption ==
  Parker \notin Unparkers /\ Null \notin Unparkers \cup {Parker}

VARIABLES
  imp,          (* the implementation: a record below                      *)
  word,         (* futex, parked, should_park or key                       *)
  queued,       (* the thread is in the queue of the bucket                *)
  bucket,       (* the holder of the lock of the bucket                    *)
  mutex,        (* the holder of the pthread mutex                         *)
  event,        (* SGX: EV_UNPARK is pending                               *)
  deadline,     (* of the park: "never", "later" or "passed"               *)
  pc,           (* where the parking thread is                             *)
  unparker      (* where each unparker is                                  *)

kernel == <<bucket, mutex, event>>
vars   == <<imp, word, queued, kernel, deadline, pc, unparker>>

UNPARKED  == 0
PARKED    == 1
TIMED_OUT == 2

(* wait: what the thread does while the flag is set; unpark: what wakes it *)
(* after the flag is cleared; late: a wait that timed out ends park_until  *)
(* even if the flag has been cleared meanwhile.                            *)
Flag(wait, unpark, late) == [family |-> "flag", wait |-> wait, unpark |-> unpark, late |-> late]

Linux       == Flag("address", "address", FALSE)
Redox       == Flag("address", "address", FALSE)
WasmAtomic  == Flag("address", "address", FALSE)
WaitAddress == Flag("address", "address", FALSE)
Generic     == Flag("spin", "none", FALSE)
Sgx         == Flag("event", "event", TRUE)
Unix        == [family |-> "pthread"]
KeyedEvent  == [family |-> "keyed"]

(* windows/mod.rs prefers WaitOnAddress where the system has it. *)
Windows(has_wait_address) == IF has_wait_address THEN WaitAddress ELSE KeyedEvent

Implementations ==
  {Linux, Redox, WasmAtomic, Generic, Sgx, Unix} \cup {Windows(b) : b \in BOOLEAN}

Init ==
  /\ imp \in Implementations
  /\ word = UNPARKED
  /\ queued = FALSE
  /\ bucket = Null /\ mutex = Null /\ event = FALSE
  /\ deadline = "never"
  /\ pc = "idle"
  /\ unparker = [u \in Unparkers |-> "idle"]

Is(family) == imp.family = family

Goto(from, to) == pc = from /\ pc' = to

UnparkerGoto(u, from, to) ==
  /\ unparker[u] = from
  /\ unparker' = [unparker EXCEPT ![u] = to]

-----------------------------------------------------------------------------
(* parking_lot.rs: park *)

(* prepare_park and the queue, under the lock of the bucket *)
Prepare ==
  /\ Goto("idle", "park")
  /\ bucket = Null
  /\ word' = PARKED
  /\ queued' = TRUE
  /\ deadline' \in {"never", "later", "passed"}
  /\ UNCHANGED <<imp, kernel, unparker>>

(* Time passes. *)
Expire ==
  /\ deadline = "later" /\ deadline' = "passed"
  /\ UNCHANGED <<imp, word, queued, kernel, pc, unparker>>

(* park_until returned false: lock the bucket. *)
LockBucket ==
  /\ Goto("expired", "timed_out")
  /\ bucket = Null /\ bucket' = Parker
  /\ UNCHANGED <<imp, word, queued, mutex, event, deadline, unparker>>

timed_out == IF Is("keyed") THEN word = TIMED_OUT ELSE word # UNPARKED

(* The pthread parker takes the mutex to see whether it timed out.  The    *)
(* thread leaves the queue, or was unparked after all.                     *)
TimedOut ==
  /\ Goto("timed_out", "returns")
  /\ Is("pthread") => mutex = Null
  /\ queued' = (queued /\ ~timed_out)
  /\ bucket' = Null
  /\ UNCHANGED <<imp, word, mutex, event, deadline, unparker>>

Return ==
  /\ Goto("returns", "idle")
  /\ deadline' = "never"
  /\ UNCHANGED <<imp, word, queued, kernel, unparker>>

-----------------------------------------------------------------------------
(* park and park_until of the parkers with a flag *)

FlagCheck ==
  /\ Is("flag")
  /\ \/ Goto("park", "returns") /\ word = UNPARKED
     \/ Goto("park", "expired") /\ word # UNPARKED /\ deadline = "passed"
     \/ Goto("park", "wait") /\ word # UNPARKED /\ deadline # "passed"
  /\ UNCHANGED <<imp, word, queued, kernel, deadline, unparker>>

(* Mutant: the system call does not compare the flag. *)
FlagWaitUnchecked ==
  /\ Is("flag")
  /\ Goto("wait", IF imp.wait = "spin" \/ (imp.wait = "event" /\ event) THEN "park" ELSE "asleep")
  /\ event' = FALSE
  /\ UNCHANGED <<imp, word, queued, bucket, mutex, deadline, unparker>>

(* FUTEX_WAIT, memory_atomic_wait32 and WaitOnAddress sleep only if the    *)
(* flag is still set; the SGX wait returns at once if the event is pending *)
(* and consumes it.                                                        *)
FlagWait ==
  LET sleeps == \/ imp.wait = "address" /\ word = PARKED
                \/ imp.wait = "event" /\ ~event
  IN  /\ Is("flag")
      /\ Goto("wait", IF sleeps THEN "asleep" ELSE "park")
      /\ event' = FALSE
      /\ UNCHANGED <<imp, word, queued, bucket, mutex, deadline, unparker>>

(* The system call times out, or returns for no reason. *)
FlagWakes ==
  /\ Is("flag")
  /\ \/ Goto("asleep", IF imp.late THEN "expired" ELSE "park") /\ deadline = "passed"
     \/ Goto("asleep", "park")
  /\ UNCHANGED <<imp, word, queued, kernel, deadline, unparker>>

-----------------------------------------------------------------------------
(* park and park_until with pthread_mutex_t and pthread_cond_t *)

LockMutex ==
  /\ Is("pthread")
  /\ pc \in {"park", "woken"} /\ pc' = "check"
  /\ mutex = Null /\ mutex' = Parker
  /\ UNCHANGED <<imp, word, queued, bucket, event, deadline, unparker>>

(* Under the mutex, which every outcome gives up: the thread was unparked, *)
(* its deadline has passed, or it waits for the condition variable.        *)
UnixCheck ==
  /\ Is("pthread")
  /\ mutex' = Null
  /\ \/ Goto("check", "returns") /\ word = UNPARKED
     \/ Goto("check", "expired") /\ word # UNPARKED /\ deadline = "passed"
     \/ Goto("check", "asleep") /\ word # UNPARKED /\ deadline # "passed"
  /\ UNCHANGED <<imp, word, queued, bucket, event, deadline, unparker>>

(* pthread_cond_timedwait times out, or wakes up for no reason. *)
UnixWakes ==
  /\ Is("pthread")
  /\ Goto("asleep", "woken")
  /\ UNCHANGED <<imp, word, queued, kernel, deadline, unparker>>

-----------------------------------------------------------------------------
(* park and park_until with keyed events *)

(* wait_for; without a deadline it cannot fail. *)
KeyedPark ==
  /\ Is("keyed")
  /\ \/ Goto("park", "swap") /\ deadline = "passed"
     \/ Goto("park", "asleep") /\ deadline # "passed"
  /\ UNCHANGED <<imp, word, queued, kernel, deadline, unparker>>

KeyedTimeout ==
  /\ Is("keyed")
  /\ Goto("asleep", "swap") /\ deadline = "passed"
  /\ UNCHANGED <<imp, word, queued, kernel, deadline, unparker>>

(* Swap in STATE_TIMED_OUT.  A thread that was unparked in the meantime    *)
(* waits for the event, this time without a deadline.                      *)
KeyedSwap ==
  /\ Is("keyed")
  /\ Goto("swap", IF word = UNPARKED THEN "asleep" ELSE "expired")
  /\ word' = TIMED_OUT
  /\ deadline' = IF word = UNPARKED THEN "never" ELSE deadline
  /\ UNCHANGED <<imp, queued, kernel, unparker>>

-----------------------------------------------------------------------------
(* parking_lot.rs: unpark_one *)

(* Take the thread from the queue. *)
Dequeue(u) ==
  /\ UnparkerGoto(u, "idle", "unpark_lock")
  /\ queued /\ queued' = FALSE
  /\ bucket = Null /\ bucket' = u
  /\ UNCHANGED <<imp, word, mutex, event, deadline, pc>>

(* Mutant: should_park is cleared, and the mutex taken only afterwards. *)
UnparkLockEarly(u) ==
  LET woken == Is("keyed") /\ word # PARKED
  IN  /\ UnparkerGoto(u, "unpark_lock", IF woken THEN "idle" ELSE "unpark")
      /\ word' = UNPARKED
      /\ mutex' = mutex
      /\ bucket' = Null
      /\ UNCHANGED <<imp, queued, event, deadline, pc>>

(* unpark_lock: clear the flag, lock the mutex, or swap in STATE_UNPARKED; *)
(* a thread that timed out first needs no event.  Then unlock the bucket.  *)
UnparkLock(u) ==
  LET woken == Is("keyed") /\ word # PARKED
  IN  /\ UnparkerGoto(u, "unpark_lock", IF woken THEN "idle" ELSE "unpark")
      /\ Is("pthread") => mutex = Null
      /\ mutex' = IF Is("pthread") THEN u ELSE mutex
      /\ word' = IF Is("pthread") THEN word ELSE UNPARKED
      /\ bucket' = Null
      /\ UNCHANGED <<imp, queued, event, deadline, pc>>

(* unpark of a flag parker: the thread may have gone, or be asleep again. *)
FlagUnpark(u) ==
  /\ Is("flag")
  /\ UnparkerGoto(u, "unpark", "idle")
  /\ pc' = IF imp.unpark # "none" /\ pc = "asleep" THEN "park" ELSE pc
  /\ event' = (event \/ (imp.unpark = "event" /\ pc # "asleep"))
  /\ UNCHANGED <<imp, word, queued, bucket, mutex, deadline>>

(* Clear should_park, signal and unlock the mutex. *)
UnixUnpark(u) ==
  /\ Is("pthread")
  /\ UnparkerGoto(u, "unpark", "idle")
  /\ word' = UNPARKED
  /\ pc' = IF pc = "asleep" THEN "woken" ELSE pc
  /\ mutex' = Null
  /\ UNCHANGED <<imp, queued, bucket, event, deadline>>

(* NtReleaseKeyedEvent blocks until a thread waits for the key. *)
KeyedUnpark(u) ==
  /\ Is("keyed")
  /\ UnparkerGoto(u, "unpark", "idle")
  /\ Goto("asleep", "returns")
  /\ UNCHANGED <<imp, word, queued, kernel, deadline>>

-----------------------------------------------------------------------------

(* Steps of the parking thread after it was queued *)
ParkerStep ==
  \/ LockBucket \/ TimedOut \/ Return
  \/ FlagCheck \/ FlagWait
  \/ LockMutex \/ UnixCheck
  \/ KeyedPark \/ KeyedSwap

(* The deadline ends a wait, or nothing does. *)
Wakes == FlagWakes \/ UnixWakes \/ KeyedTimeout

UnparkerStep(u) ==
  UnparkLock(u) \/ FlagUnpark(u) \/ UnixUnpark(u) \/ KeyedUnpark(u)

Next ==
  \/ Prepare \/ Expire \/ ParkerStep \/ Wakes
  \/ \E u \in Unparkers : Dequeue(u) \/ UnparkerStep(u)

Spec == Init /\ [][Next]_vars

(* Threads run, and a thread that waits for the pthread mutex gets it even *)
(* if the other one takes it again and again, after spurious wakeups.  No  *)
(* wait is relied upon to end by itself.                                   *)
FairSpec ==
  /\ Spec
  /\ WF_vars(ParkerStep)
  /\ \A u \in Unparkers : SF_vars(UnparkerStep(u))

-----------------------------------------------------------------------------

InPark == pc \notin {"idle", "returns"}

(* Unparkers that access the parker in memory: all of them until they have *)
(* called unpark_lock, then those that hold the mutex or release an event. *)
UsesParker(u) ==
  \/ unparker[u] = "unpark_lock"
  \/ unparker[u] = "unpark" /\ ~Is("flag")

(* park never returns while the thread is queued.  A thread that has timed *)
(* out and holds the lock of the bucket learns exactly whether it is still *)
(* queued: the comment in park says "this is precise because we hold the   *)
(* bucket lock".  And it stays in park, so that its ThreadData is alive,   *)
(* as long as an unparker uses its parker.                                 *)
UnparkIsExact ==
  /\ ~InPark => ~queued
  /\ pc = "timed_out" /\ (Is("pthread") => mutex = Null) => (timed_out <=> queued)
  /\ (\E u \in Unparkers : UsesParker(u)) => InPark

(* No wakeup is lost and nobody is stuck: a thread that was taken from the *)
(* queue returns from park, and every thread that unparks it returns, also *)
(* when it has to wait for a mutex or for the other side of a keyed event. *)
EveryoneReturns ==
  /\ (InPark /\ ~queued) ~> ~InPark
  /\ \A u \in Unparkers : (unparker[u] # "idle") ~> (unparker[u] = "idle")

=============================================================================
