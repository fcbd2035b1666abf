----------------------------- MODULE RawCondvar -----------------------------
(***************************************************************************)
(* src/raw_condvar.rs, with the loops of lock_api/src/condvar.rs around    *)
(* it: a condition variable that moves the threads it notifies to the      *)
(* queue of the mutex instead of waking them all.  It is composed with     *)
(* mutexes, here the operations of RawMutex that a condition variable      *)
(* meets: lock, unlock with its fair handoff, mark_parked_if_locked and    *)
(* mark_parked.                                                            *)
(*                                                                         *)
(* As in RawRwLock, an operation of the parking lot is one step wherever   *)
(* its callbacks access the lock words once.  The exception is notify_all  *)
(* on a free mutex, which looks at the mutex before it moves the threads   *)
(* and marks it afterwards; bucket is the lock it holds in between.        *)
(***************************************************************************)
EXTENDS Naturals, FiniteSets, SequencesExt

CONSTANTS
  Threads,      (* the threads                                             *)
  Mutexes,      (* the mutexes they wait with                              *)
  Null,         (* no mutex, no thread                                     *)
  Waits         (* how threads wait: for a condition (wait_while) or not,  *)
                (* with a timeout or not                                   *)

(* The functions that wait.  wait_for and wait_while_for have no deadline  *)
(* when it would be too far away to be an Instant.                         *)
WAIT             == [op |-> "wait", timed |-> FALSE]
WAIT_UNTIL       == [op |-> "wait", timed |-> TRUE]
WAIT_WHILE       == [op |-> "wait_while", timed |-> FALSE]
WAIT_WHILE_UNTIL == [op |-> "wait_while", timed |-> TRUE]

WaitFor(too_long)      == IF too_long THEN WAIT ELSE WAIT_UNTIL
WaitWhileFor(too_long) == IF too_long THEN WAIT_WHILE ELSE WAIT_WHILE_UNTIL

ASSUME RawCondvarAssumption ==
  /\ Null \notin Threads \cup Mutexes
  /\ Waits \subseteq {WAIT, WAIT_UNTIL, WAIT_WHILE, WAIT_WHILE_UNTIL}

VARIABLES
  state,        (* the state of each mutex: the bits that are set          *)
  queue,        (* the threads parked on each mutex                        *)
  cstate,       (* RawCondvar.state: the mutex in use, or Null             *)
  cqueue,       (* the threads parked on the condition variable            *)
  bucket,       (* the thread in the middle of notify_all, or Null         *)
  pc,           (* where each thread is                                    *)
  mutex,        (* the mutex it locks, holds or waits with                 *)
  wait,         (* the wait it is in, or NoWait                            *)
  handoff,      (* unpark_token is TOKEN_HANDOFF                           *)
  timed_out,    (* the wait is going to return true                        *)
  notified      (* the thread was chosen by a notification                 *)

queues  == <<queue, cstate, cqueue, bucket>>
waiting == <<wait, timed_out, notified>>
vars    == <<state, queues, pc, mutex, waiting, handoff>>

-----------------------------------------------------------------------------

LOCKED_BIT == "LOCKED_BIT"
PARKED_BIT == "PARKED_BIT"

Labels == {"idle", "held", "lock", "park", "parked", "unlock", "sleep"}

NoWait == [op |-> "none", timed |-> FALSE]

Init ==
  /\ state = [m \in Mutexes |-> {}]
  /\ queue = [m \in Mutexes |-> <<>>]
  /\ cstate = Null /\ cqueue = <<>> /\ bucket = Null
  /\ pc = [t \in Threads |-> "idle"]
  /\ mutex = [t \in Threads |-> Null]
  /\ wait = [t \in Threads |-> NoWait]
  /\ handoff = [t \in Threads |-> FALSE]
  /\ timed_out = [t \in Threads |-> FALSE]
  /\ notified = [t \in Threads |-> FALSE]

Goto(t, from, to) ==
  /\ pc[t] = from
  /\ pc' = [pc EXCEPT ![t] = to]

(* t is parked, on the condition variable or on a mutex. *)
Queued(t) ==
  Contains(cqueue, t) \/ \E m \in Mutexes : Contains(queue[m], t)

-----------------------------------------------------------------------------
(* The mutex *)

Lock(t, m) ==
  /\ Goto(t, "idle", "lock")
  /\ mutex' = [mutex EXCEPT ![t] = m]
  /\ UNCHANGED <<state, queues, waiting, handoff>>

(* wait_while and wait_while_until wait again if the condition holds. *)
WaitsAgain(t) == wait[t].op = "wait_while" /\ ~timed_out[t]

(* lock returns: to the user, or to the wait that called it, which waits   *)
(* again or returns.                                                       *)
Locked(t, from) ==
  /\ Goto(t, from, "held")
  /\ notified' = [notified EXCEPT ![t] = FALSE]
  /\ \/ /\ wait' = [wait EXCEPT ![t] = NoWait]
        /\ timed_out' = [timed_out EXCEPT ![t] = FALSE]
     \/ WaitsAgain(t) /\ UNCHANGED <<wait, timed_out>>

Grab(t) ==
  /\ pc[t] = "lock"
  /\ LOCKED_BIT \notin state[mutex[t]]
  /\ state' = [state EXCEPT ![mutex[t]] = @ \cup {LOCKED_BIT}]
  /\ Locked(t, "lock")
  /\ UNCHANGED <<queues, mutex, handoff>>

SetParked(t) ==
  /\ Goto(t, "lock", "park")
  /\ LOCKED_BIT \in state[mutex[t]]
  /\ state' = [state EXCEPT ![mutex[t]] = @ \cup {PARKED_BIT}]
  /\ UNCHANGED <<queues, mutex, waiting, handoff>>

Park(t) ==
  /\ pc[t] = "park" /\ bucket = Null
  /\ IF state[mutex[t]] = {LOCKED_BIT, PARKED_BIT}
     THEN /\ Goto(t, "park", "parked")
          /\ queue' = [queue EXCEPT ![mutex[t]] = Append(@, t)]
     ELSE Goto(t, "park", "lock") /\ UNCHANGED queue
  /\ UNCHANGED <<state, cstate, cqueue, bucket, mutex, waiting, handoff>>

(* Mutant: a thread that was unparked holds the mutex, whatever its token. *)
UnparkedTrusts(t) ==
  /\ pc[t] \in {"parked", "sleep"} /\ ~Queued(t)
  /\ Locked(t, pc[t])
  /\ handoff' = [handoff EXCEPT ![t] = FALSE]
  /\ UNCHANGED <<state, queues, mutex>>

(* park returns, to lock_slow or to wait_until_internal. *)
Unparked(t) ==
  /\ pc[t] \in {"parked", "sleep"} /\ ~Queued(t)
  /\ IF handoff[t] THEN Locked(t, pc[t]) ELSE Goto(t, pc[t], "lock") /\ UNCHANGED waiting
  /\ handoff' = [handoff EXCEPT ![t] = FALSE]
  /\ UNCHANGED <<state, queues, mutex>>

(* unlock, called by the user or by before_sleep of a wait, returns. *)
Unlocked(t) ==
  /\ Goto(t, "unlock", IF wait[t] = NoWait THEN "idle" ELSE "sleep")
  /\ mutex' = IF wait[t] = NoWait THEN [mutex EXCEPT ![t] = Null] ELSE mutex

StartUnlock(t) ==
  /\ Goto(t, "held", "unlock")
  /\ wait[t] = NoWait
  /\ UNCHANGED <<state, queues, mutex, waiting, handoff>>

(* The fast path: nobody is parked. *)
Unlock(t) ==
  /\ pc[t] = "unlock"
  /\ state[mutex[t]] = {LOCKED_BIT}
  /\ state' = [state EXCEPT ![mutex[t]] = {}]
  /\ Unlocked(t)
  /\ UNCHANGED <<queues, waiting, handoff>>

(* unlock_slow: unpark_one, and free the mutex or hand it over. *)
UnlockSlow(t) ==
  LET m == mutex[t]
      more == IF Len(queue[m]) > 1 THEN {PARKED_BIT} ELSE {}
  IN  /\ pc[t] = "unlock" /\ bucket = Null
      /\ state[m] # {LOCKED_BIT}
      /\ \E be_fair \in BOOLEAN :
           /\ be_fair => queue[m] # <<>>
           /\ state' = [state EXCEPT ![m] = more \cup IF be_fair THEN {LOCKED_BIT} ELSE {}]
           /\ handoff' = IF be_fair THEN [handoff EXCEPT ![Head(queue[m])] = TRUE] ELSE handoff
      /\ queue' = IF queue[m] = <<>> THEN queue ELSE [queue EXCEPT ![m] = Tail(@)]
      /\ Unlocked(t)
      /\ UNCHANGED <<cstate, cqueue, bucket, waiting>>

-----------------------------------------------------------------------------
(* wait_until_internal *)

(* Mutant: the mutex of the other waiting threads is not compared. *)
WaitAnyMutex(t, w) ==
  /\ Goto(t, "held", "unlock")
  /\ bucket = Null
  /\ w \in Waits /\ wait[t] \in {NoWait, w}
  /\ cstate' = mutex[t]
  /\ cqueue' = Append(cqueue, t)
  /\ wait' = [wait EXCEPT ![t] = w]
  /\ UNCHANGED <<state, queue, bucket, mutex, timed_out, notified, handoff>>

(* park: the condition variable is in use with no other mutex.  The thread *)
(* is in the queue before it unlocks the mutex (before_sleep).             *)
Wait(t, w) ==
  /\ Goto(t, "held", "unlock")
  /\ bucket = Null
  /\ w \in Waits /\ wait[t] \in {NoWait, w}
  /\ cstate \in {Null, mutex[t]}
  /\ cstate' = mutex[t]
  /\ cqueue' = Append(cqueue, t)
  /\ wait' = [wait EXCEPT ![t] = w]
  /\ UNCHANGED <<state, queue, bucket, mutex, timed_out, notified, handoff>>

(* bad_mutex: the wait panics, and unwinding drops the guard of the mutex. *)
WaitPanics(t) ==
  /\ Goto(t, "held", "unlock")
  /\ bucket = Null
  /\ cstate \notin {Null, mutex[t]}
  /\ wait' = [wait EXCEPT ![t] = NoWait]
  /\ UNCHANGED <<state, queues, mutex, timed_out, notified, handoff>>

(* Mutant: a thread that was moved to the mutex times out all the same. *)
TimedOutAnyway(t) ==
  /\ Goto(t, "sleep", "lock")
  /\ bucket = Null
  /\ wait[t].timed /\ Queued(t)
  /\ queue' = [m \in Mutexes |-> Remove(queue[m], t)]
  /\ cqueue' = Remove(cqueue, t)
  /\ cstate' = IF cqueue' = <<>> THEN Null ELSE cstate
  /\ timed_out' = [timed_out EXCEPT ![t] = TRUE]
  /\ UNCHANGED <<state, bucket, mutex, wait, notified, handoff>>

(* The timeout passes while the thread is parked.  If it was moved to the  *)
(* mutex it has been notified; if it was the last one to wait the          *)
(* condition variable is free for another mutex.                           *)
TimedOut(t) ==
  LET requeued == ~Contains(cqueue, t)
  IN  /\ Goto(t, "sleep", "lock")
      /\ bucket = Null
      /\ wait[t].timed /\ Queued(t)
      /\ queue' = [m \in Mutexes |-> Remove(queue[m], t)]
      /\ cqueue' = Remove(cqueue, t)
      /\ cstate' = IF ~requeued /\ cqueue' = <<>> THEN Null ELSE cstate
      /\ timed_out' = [timed_out EXCEPT ![t] = ~requeued]
      /\ UNCHANGED <<state, bucket, mutex, wait, notified, handoff>>

-----------------------------------------------------------------------------
(* notify_one, notify_all: called by any thread, with or without the mutex *)

MayNotify(t) == pc[t] \in {"idle", "held"} /\ wait[t] = NoWait /\ bucket = Null

Notify(S) == notified' = [t \in Threads |-> notified[t] \/ t \in S]

(* mark_parked_if_locked *)
MarkParkedIfLocked(m) ==
  /\ LOCKED_BIT \in state[m]
  /\ state' = [state EXCEPT ![m] = @ \cup {PARKED_BIT}]

(* Mutant: the thread is moved to a mutex that is not marked. *)
NotifyOneUnmarked(t) ==
  /\ MayNotify(t)
  /\ cstate # Null /\ cqueue # <<>>
  /\ Notify({Head(cqueue)})
  /\ cqueue' = Tail(cqueue)
  /\ cstate' = IF cqueue' = <<>> THEN Null ELSE cstate
  /\ queue' = IF LOCKED_BIT \in state[cstate]
              THEN [queue EXCEPT ![cstate] = Append(@, Head(cqueue))]
              ELSE queue
  /\ UNCHANGED <<state, bucket, pc, mutex, wait, timed_out, handoff>>

(* The first thread is moved to the mutex if that is locked (RequeueOne),  *)
(* and unparked otherwise (UnparkOne).  A call that finds another state    *)
(* than it has read does nothing (Abort).                                  *)
NotifyOne(t) ==
  /\ MayNotify(t)
  /\ cstate # Null /\ cqueue # <<>>
  /\ Notify({Head(cqueue)})
  /\ cqueue' = Tail(cqueue)
  /\ cstate' = IF cqueue' = <<>> THEN Null ELSE cstate
  /\ \/ /\ MarkParkedIfLocked(cstate)
        /\ queue' = [queue EXCEPT ![cstate] = Append(@, Head(cqueue))]
     \/ /\ LOCKED_BIT \notin state[cstate]
        /\ UNCHANGED <<state, queue>>
  /\ UNCHANGED <<bucket, pc, mutex, wait, timed_out, handoff>>

(* RequeueAll *)
NotifyAll(t) ==
  /\ MayNotify(t)
  /\ cstate # Null
  /\ MarkParkedIfLocked(cstate)
  /\ Notify(ToSet(cqueue))
  /\ queue' = [queue EXCEPT ![cstate] = @ \o cqueue]
  /\ cqueue' = <<>>
  /\ cstate' = Null
  /\ UNCHANGED <<bucket, pc, mutex, wait, timed_out, handoff>>

(* UnparkOneRequeueRest: the mutex was free. *)
NotifyAllFree(t) ==
  /\ MayNotify(t)
  /\ cstate # Null
  /\ LOCKED_BIT \notin state[cstate]
  /\ bucket' = t
  /\ cstate' = Null
  /\ UNCHANGED <<state, queue, cqueue, pc, mutex, waiting, handoff>>

NotifyAllRequeue(t) ==
  LET m == mutex[Head(cqueue)]
  IN  /\ bucket = t
      /\ bucket' = Null
      /\ Notify(ToSet(cqueue))
      /\ queue' = [queue EXCEPT ![m] = @ \o Tail(cqueue)]
      /\ state' = IF Len(cqueue) > 1 THEN [state EXCEPT ![m] = @ \cup {PARKED_BIT}] ELSE state
      /\ cqueue' = <<>>
      /\ UNCHANGED <<cstate, pc, mutex, wait, timed_out, handoff>>

-----------------------------------------------------------------------------

InCall(t) ==
  \/ Grab(t) \/ SetParked(t) \/ Park(t) \/ Unparked(t)
  \/ Unlock(t) \/ UnlockSlow(t)

LeaveHeld(t) ==
  \/ StartUnlock(t)
  \/ \E w \in Waits : Wait(t, w)
  \/ WaitPanics(t)

Step(t) ==
  \/ InCall(t)
  \/ LeaveHeld(t)
  \/ TimedOut(t)
  \/ \E m \in Mutexes : Lock(t, m)
  \/ NotifyOne(t) \/ NotifyAll(t) \/ NotifyAllFree(t)

Next == \E t \in Threads : \/ bucket # t /\ Step(t)
                           \/ NotifyAllRequeue(t)

Spec == Init /\ [][Next]_vars

(* Threads go on inside functions and do not keep a mutex for ever.        *)
(* Fairness is strong only because of the lock of the bucket: a thread     *)
(* that asks for it again and again gets it.  Threads need not call        *)
(* anything, and no timeout is relied upon.                                *)
FairSpec ==
  /\ Spec
  /\ WF_vars(\E t \in Threads : NotifyAllRequeue(t))
  /\ \A t \in Threads : SF_vars(bucket # t /\ (InCall(t) \/ LeaveHeld(t)))

-----------------------------------------------------------------------------

(* The threads that own m: they have locked it, or were handed it.         *)
Owners(m) ==
  {t \in Threads : /\ mutex[t] = m
                   /\ pc[t] \in {"held", "unlock"} \/ handoff[t]}

(* A mutex that threads are moved to and that is handed to one of them is  *)
(* still locked by exactly one thread, and free when no thread owns it.    *)
OneOwner ==
  \A m \in Mutexes :
    Cardinality(Owners(m)) = IF LOCKED_BIT \in state[m] THEN 1 ELSE 0

(* Outside notify_all, state is the one mutex that all the threads parked  *)
(* on the condition variable wait with, and is null exactly when there is  *)
(* none: neither a notification nor a timeout clears it too early, which   *)
(* would let a second mutex in, or too late, which would make a legal wait *)
(* panic.                                                                  *)
StateIsMutexInUse ==
  bucket = Null =>
    /\ cqueue = <<>> <=> cstate = Null
    /\ \A t \in ToSet(cqueue) : mutex[t] = cstate

(* wait returns because of a notification or a timeout, never neither and  *)
(* never both: a thread that a notify call chose does not report a timeout *)
(* even if it times out while it is parked on the mutex, and no thread     *)
(* wakes up by itself.                                                     *)
NotificationNotLost ==
  \A t \in Threads :
    /\ Contains(cqueue, t) => ~notified[t] /\ ~timed_out[t]
    /\ pc[t] = "sleep" /\ ~Contains(cqueue, t) => notified[t]
    /\ pc[t] \in {"lock", "park", "parked"} /\ wait[t] # NoWait
         => timed_out[t] # notified[t]

(* Every thread that is parked on a mutex, also one that a notification    *)
(* moved there while the mutex was being locked or unlocked, is woken:     *)
(* PARKED_BIT was set in time for the unlock to see it.                    *)
ParkedIsWoken ==
  \A t \in Threads :
    (\E m \in Mutexes : Contains(queue[m], t)) ~> (\A m \in Mutexes : ~Contains(queue[m], t))

=============================================================================
