------------------------------ MODULE WordLock ------------------------------
(***************************************************************************)
(* core/src/word_lock.rs: the word-sized lock that protects a bucket of    *)
(* the parking lot.  The word holds LOCKED_BIT, QUEUE_LOCKED_BIT and the   *)
(* head of an intrusive list of waiting threads.  A waiter pushes itself   *)
(* on the head with one compare-and-swap; the list is doubly linked lazily *)
(* by the unlocker that holds the queue lock, which removes the tail.      *)
(*                                                                         *)
(* One action per atomic access of the word.  The node fields prev, next   *)
(* and queue_tail are written by their owner before the node is published  *)
(* and by the holder of the queue lock afterwards.  A thread that calls    *)
(* lock() keeps the value it last read of the word in st[t]; a weak        *)
(* compare-and-swap that fails spuriously re-reads the same value, which   *)
(* is a stuttering step, except on the fast path of lock().                *)
(***************************************************************************)
EXTENDS Naturals

CONSTANTS
  Threads,     (* the threads that use the lock                            *)
  Null,        (* the null pointer                                         *)
  SpinLimit,   (* calls of SpinWait::spin that return true (10 in the code)*)
  MaxLocks     (* bound: calls of lock() by each thread                    *)

ASSUME WordLockAssumption ==
  /\ Null \notin Threads
  /\ SpinLimit \in Nat
  /\ MaxLocks \in Nat

VARIABLES
  word,        (* state: LOCKED_BIT, QUEUE_LOCKED_BIT and the queue head   *)
  next,        (* ThreadData.next                                          *)
  prev,        (* ThreadData.prev                                          *)
  queue_tail,  (* ThreadData.queue_tail                                    *)
  futex,       (* ThreadData.parker: TRUE while the thread has to sleep    *)
  pc,          (* where each thread is                                     *)
  st,          (* the local variable state of lock_slow and unlock_slow    *)
  spin,        (* SpinWait.counter                                         *)
  cur,         (* the local variable current of unlock_slow                *)
  tail,        (* the local variable queue_tail of unlock_slow             *)
  locks        (* calls of lock() each thread still makes (bound)          *)

vars == <<word, next, prev, queue_tail, futex, pc, st, spin, cur, tail, locks>>

nodes  == <<next, prev, queue_tail>>
locals == <<spin, cur, tail, locks>>

-----------------------------------------------------------------------------

Ptr  == Threads \cup {Null}
Word == [locked : BOOLEAN, qlocked : BOOLEAN, head : Ptr]

Unlocked == [locked |-> FALSE, qlocked |-> FALSE, head |-> Null]

Labels == {"idle", "lock_slow", "park", "held", "unlock_slow", "grab_queue",
           "scan", "release_queue", "remove_last", "clear_queue_lock", "wake"}

(* The labels at which a thread has the queue lock. *)
QueueLabels == {"scan", "release_queue", "remove_last", "clear_queue_lock"}

TypeOK ==
  /\ word \in Word
  /\ next \in [Threads -> Ptr]
  /\ prev \in [Threads -> Ptr]
  /\ queue_tail \in [Threads -> Ptr]
  /\ futex \in [Threads -> BOOLEAN]
  /\ pc \in [Threads -> Labels]
  /\ st \in [Threads -> Word]
  /\ spin \in [Threads -> 0 .. SpinLimit]
  /\ cur \in [Threads -> Ptr]
  /\ tail \in [Threads -> Ptr]
  /\ locks \in [Threads -> 0 .. MaxLocks]

Init ==
  /\ word = Unlocked
  /\ next = [t \in Threads |-> Null]
  /\ prev = [t \in Threads |-> Null]
  /\ queue_tail = [t \in Threads |-> Null]
  /\ futex = [t \in Threads |-> FALSE]
  /\ pc = [t \in Threads |-> "idle"]
  /\ st = [t \in Threads |-> Unlocked]
  /\ spin = [t \in Threads |-> 0]
  /\ cur = [t \in Threads |-> Null]
  /\ tail = [t \in Threads |-> Null]
  /\ locks = [t \in Threads |-> MaxLocks]

Goto(t, from, to) ==
  /\ pc[t] = from
  /\ pc' = [pc EXCEPT ![t] = to]

(* state.load, or the value a failed compare_exchange returns *)
Load(t) == st' = [st EXCEPT ![t] = word]

(* The local variable state is not read again. *)
Forget(t) == st' = [st EXCEPT ![t] = Unlocked]

-----------------------------------------------------------------------------
(* lock *)

(* The fast path: the word is zero and becomes LOCKED_BIT. *)
Lock(t) ==
  /\ locks[t] > 0
  /\ word = Unlocked
  /\ Goto(t, "idle", "held")
  /\ word' = [Unlocked EXCEPT !.locked = TRUE]
  /\ locks' = [locks EXCEPT ![t] = @ - 1]
  /\ UNCHANGED <<nodes, futex, st, spin, cur, tail>>

(* The weak compare_exchange of the fast path failed, perhaps spuriously. *)
LockSlow(t) ==
  /\ locks[t] > 0
  /\ Goto(t, "idle", "lock_slow")
  /\ Load(t)
  /\ spin' = [spin EXCEPT ![t] = 0]
  /\ locks' = [locks EXCEPT ![t] = @ - 1]
  /\ UNCHANGED <<word, nodes, futex, cur, tail>>

(* Mutant: grab the lock with a plain store. *)
GrabWithStore(t) ==
  /\ Goto(t, "lock_slow", "held")
  /\ ~st[t].locked
  /\ word' = [word EXCEPT !.locked = TRUE]
  /\ UNCHANGED <<nodes, futex, st, locals>>

(* The lock was free when the state was read: grab it, queue or no queue.  *)
(* What the thread wrote to its node before is not read again.             *)
Grab(t) ==
  /\ pc[t] = "lock_slow"
  /\ ~st[t].locked
  /\ IF word = st[t]
     THEN /\ Goto(t, "lock_slow", "held")
          /\ word' = [word EXCEPT !.locked = TRUE]
          /\ Forget(t)
          /\ spin' = [spin EXCEPT ![t] = 0]
          /\ next' = [next EXCEPT ![t] = Null]
          /\ prev' = [prev EXCEPT ![t] = Null]
          /\ queue_tail' = [queue_tail EXCEPT ![t] = Null]
          /\ futex' = [futex EXCEPT ![t] = FALSE]
     ELSE /\ Load(t)
          /\ UNCHANGED <<pc, word, nodes, futex, spin>>
  /\ UNCHANGED <<cur, tail, locks>>

(* The lock is held and nobody queues: spin a few times. *)
Spin(t) ==
  /\ pc[t] = "lock_slow"
  /\ st[t].locked /\ st[t].head = Null
  /\ spin[t] < SpinLimit
  /\ spin' = [spin EXCEPT ![t] = @ + 1]
  /\ Load(t)
  /\ UNCHANGED <<word, nodes, futex, pc, cur, tail, locks>>

(* Prepare the thread's node, whose fields nobody else sees yet, and push  *)
(* it on the queue.  The fields stay written when the compare_exchange     *)
(* fails.                                                                  *)
Enqueue(t) ==
  LET head == st[t].head
  IN  /\ pc[t] = "lock_slow"
      /\ st[t].locked
      /\ head # Null \/ spin[t] >= SpinLimit
      /\ futex' = [futex EXCEPT ![t] = TRUE]
      /\ queue_tail' = [queue_tail EXCEPT ![t] = IF head = Null THEN t ELSE Null]
      /\ prev' = [prev EXCEPT ![t] = Null]
      /\ next' = [next EXCEPT ![t] = IF head = Null THEN @ ELSE head]
      /\ IF word = st[t]
         THEN /\ Goto(t, "lock_slow", "park")
              /\ word' = [word EXCEPT !.head = t]
              /\ Forget(t)
              /\ spin' = [spin EXCEPT ![t] = 0]
         ELSE /\ Load(t)
              /\ UNCHANGED <<pc, word, spin>>
      /\ UNCHANGED <<cur, tail, locks>>

(* parker.park() returns once the futex is cleared; try again. *)
Park(t) ==
  /\ ~futex[t]
  /\ Goto(t, "park", "lock_slow")
  /\ spin' = [spin EXCEPT ![t] = 0]
  /\ Load(t)
  /\ UNCHANGED <<word, nodes, futex, cur, tail, locks>>

-----------------------------------------------------------------------------
(* unlock *)

(* fetch_sub of LOCKED_BIT; the value before it decides whether a waiter   *)
(* has to be woken.                                                        *)
Unlock(t) ==
  /\ Goto(t, "held", IF word.qlocked \/ word.head = Null
                     THEN "idle" ELSE "unlock_slow")
  /\ word' = [word EXCEPT !.locked = FALSE]
  /\ UNCHANGED <<nodes, futex, st, locals>>

UnlockSlow(t) ==
  /\ Goto(t, "unlock_slow", "grab_queue")
  /\ Load(t)
  /\ UNCHANGED <<word, nodes, futex, locals>>

(* Another thread takes care of the queue, or it is empty: return. *)
SkipQueue(t) ==
  /\ st[t].qlocked \/ st[t].head = Null
  /\ Goto(t, "grab_queue", "idle")
  /\ Forget(t)
  /\ UNCHANGED <<word, nodes, futex, locals>>

(* Set QUEUE_LOCKED_BIT.  The local state keeps the value read before it,  *)
(* without that bit.                                                       *)
GrabQueue(t) ==
  /\ pc[t] = "grab_queue"
  /\ ~(st[t].qlocked \/ st[t].head = Null)
  /\ IF word = st[t]
     THEN /\ Goto(t, "grab_queue", "scan")
          /\ word' = [word EXCEPT !.qlocked = TRUE]
          /\ cur' = [cur EXCEPT ![t] = st[t].head]
          /\ UNCHANGED st
     ELSE /\ Load(t)
          /\ UNCHANGED <<pc, word, cur>>
  /\ UNCHANGED <<nodes, futex, spin, tail, locks>>

(* Link one more new node backwards. *)
ScanNode(t) ==
  LET c == cur[t]
      n == next[c]
  IN  /\ pc[t] = "scan"
      /\ queue_tail[c] = Null
      /\ prev' = [prev EXCEPT ![n] = c]
      /\ cur' = [cur EXCEPT ![t] = n]
      /\ UNCHANGED <<word, next, queue_tail, futex, pc, st, spin, tail, locks>>

(* Mutant: the head of the queue keeps pointing to the tail that is removed. *)
ScanDoneKeepsTail(t) ==
  LET last == queue_tail[cur[t]]
  IN  /\ pc[t] = "scan"
      /\ last # Null
      /\ Goto(t, "scan", IF st[t].locked THEN "release_queue"
                         ELSE IF prev[last] = Null THEN "remove_last"
                         ELSE "clear_queue_lock")
      /\ tail' = [tail EXCEPT ![t] = last]
      /\ queue_tail' = [queue_tail EXCEPT ![st[t].head] = last]
      /\ UNCHANGED <<word, next, prev, futex, st, spin, cur, locks>>

(* The scan reached a node that is already processed.  Record the tail on  *)
(* the head, and decide: leave the queue to the thread that holds the      *)
(* lock, remove the only node, or cut the tail off.                        *)
ScanDone(t) ==
  LET head == st[t].head
      last == queue_tail[cur[t]]
      linked == [queue_tail EXCEPT ![head] = last]
      new_tail == prev[last]
  IN  /\ pc[t] = "scan"
      /\ last # Null
      /\ cur' = [cur EXCEPT ![t] = Null]
      /\ tail' = [tail EXCEPT ![t] = last]
      /\ \/ /\ st[t].locked
            /\ Goto(t, "scan", "release_queue")
            /\ queue_tail' = linked
         \/ /\ ~st[t].locked
            /\ new_tail = Null
            /\ Goto(t, "scan", "remove_last")
            /\ queue_tail' = linked
         \/ /\ ~st[t].locked
            /\ new_tail # Null
            /\ Goto(t, "scan", "clear_queue_lock")
            /\ queue_tail' = [linked EXCEPT ![head] = new_tail]
      /\ UNCHANGED <<word, next, prev, futex, st, spin, locks>>

(* Mutant: release the queue lock whether or not the word has changed. *)
ReleaseQueueAlways(t) ==
  /\ Goto(t, "release_queue", "idle")
  /\ word' = [word EXCEPT !.qlocked = FALSE]
  /\ UNCHANGED <<nodes, futex, st, locals>>

(* The lock is held again: give the queue lock back, the next unlocker     *)
(* wakes a thread.  If the word changed, start over with the new queue.    *)
ReleaseQueue(t) ==
  /\ pc[t] = "release_queue"
  /\ IF word = st[t]
     THEN /\ Goto(t, "release_queue", "idle")
          /\ word' = [word EXCEPT !.qlocked = FALSE]
          /\ Forget(t)
          /\ UNCHANGED cur
     ELSE /\ Goto(t, "release_queue", "scan")
          /\ Load(t)
          /\ cur' = [cur EXCEPT ![t] = word.head]
          /\ UNCHANGED word
  /\ tail' = [tail EXCEPT ![t] = Null]
  /\ UNCHANGED <<nodes, futex, spin, locks>>


(* Only one node is left: empty the queue and unlock it with one           *)
(* compare_exchange.  If it fails, rescan unless the queue is empty.       *)
RemoveLast(t) ==
  /\ pc[t] = "remove_last"
  /\ IF word = st[t]
     THEN /\ Goto(t, "remove_last", "wake")
          /\ word' = [Unlocked EXCEPT !.locked = word.locked]
          /\ Forget(t)
          /\ UNCHANGED cur
     ELSE /\ Goto(t, "remove_last", IF word.head = Null THEN "remove_last"
                                    ELSE "scan")
          /\ Load(t)
          /\ cur' = [cur EXCEPT ![t] = word.head]
          /\ UNCHANGED word
  /\ UNCHANGED <<nodes, futex, spin, tail, locks>>

ClearQueueLock(t) ==
  /\ Goto(t, "clear_queue_lock", "wake")
  /\ word' = [word EXCEPT !.qlocked = FALSE]
  /\ Forget(t)
  /\ UNCHANGED <<nodes, futex, locals>>

(* parker.unpark_lock().unpark() on the thread that was removed *)
Wake(t) ==
  /\ Goto(t, "wake", "idle")
  /\ futex' = [futex EXCEPT ![tail[t]] = FALSE]
  /\ tail' = [tail EXCEPT ![t] = Null]
  /\ UNCHANGED <<word, nodes, st, spin, cur, locks>>

-----------------------------------------------------------------------------

LockStep(t) ==
  \/ Lock(t) \/ LockSlow(t) \/ Grab(t) \/ Spin(t) \/ Enqueue(t) \/ Park(t)

UnlockStep(t) ==
  \/ Unlock(t) \/ UnlockSlow(t) \/ SkipQueue(t) \/ GrabQueue(t)
  \/ ScanNode(t) \/ ScanDone(t) \/ ReleaseQueue(t) \/ RemoveLast(t)
  \/ ClearQueueLock(t) \/ Wake(t)

Step(t) == LockStep(t) \/ UnlockStep(t)

Next == \E t \in Threads : Step(t)

Spec == Init /\ [][Next]_vars

(* Every thread that can take a step eventually takes one: the scheduler   *)
(* runs every thread, holders release the lock.                            *)
FairSpec == Spec /\ \A t \in Threads : WF_vars(Step(t))

-----------------------------------------------------------------------------
(* Properties *)

(* The bucket lock is exclusive: no two threads are between lock() and     *)
(* unlock(), and LOCKED_BIT is set exactly while one thread is.            *)
MutualExclusion ==
  /\ \A t, u \in Threads : pc[t] = "held" /\ pc[u] = "held" => t = u
  /\ word.locked <=> \E t \in Threads : pc[t] = "held"

(* A node is in the queue: its thread has to sleep and no unlocker has     *)
(* taken it off the list.                                                  *)
Removed(n) ==
  \E t \in Threads : pc[t] \in {"clear_queue_lock", "wake"} /\ tail[t] = n
Queued(n) ==
  /\ n \in Threads
  /\ pc[n] = "park"
  /\ futex[n]

(* The nodes live in the stack frames of the waiting threads: the holder   *)
(* of the queue lock only follows pointers to threads that still wait, and *)
(* the thread it wakes is asleep and nobody else wakes it (the comment at  *)
(* the end of unlock_slow).                                                *)
NodesAlive ==
  \A t \in Threads :
    /\ pc[t] = "scan" => Queued(cur[t]) /\ Queued(st[t].head)
    /\ pc[t] = "scan" /\ queue_tail[cur[t]] # Null => Queued(queue_tail[cur[t]])
    /\ pc[t] = "scan" /\ queue_tail[cur[t]] = Null => Queued(next[cur[t]])
    /\ pc[t] \in {"clear_queue_lock", "wake"} =>
         /\ Queued(tail[t])
         /\ \A u \in Threads \ {t} :
              pc[u] \in {"clear_queue_lock", "wake"} => tail[u] # tail[t]


(* No lost wakeup: while threads wait on a free lock, some thread is awake *)
(* that is still to wake one of them or to take and release the lock.      *)
Responsible(t) ==
  \/ pc[t] \in {"unlock_slow", "grab_queue", "wake"} \cup QueueLabels
  \/ pc[t] = "lock_slow"
  \/ pc[t] = "park" /\ ~futex[t]
NoLostWakeup ==
  ~word.locked /\ word.head # Null => \E t \in Threads : Responsible(t)

(* Every call of lock() returns once the other threads stop taking the     *)
(* lock: no waiter is forgotten in the queue.                              *)
AllReturn == <>[](\A t \in Threads : pc[t] = "idle" /\ locks[t] = 0)

(* The lock the word implements *)
Owner == IF \E t \in Threads : pc[t] = "held"
         THEN CHOOSE t \in Threads : pc[t] = "held"
         ELSE Null

Client == [t \in Threads |->
             IF pc[t] = "idle" THEN "out"
             ELSE IF pc[t] \in {"lock_slow", "park"} THEN "locking"
             ELSE IF pc[t] = "held" THEN "in"
             ELSE "unlocking"]

Abstract == INSTANCE AbstractLock WITH owner <- Owner, client <- Client

(* The word lock implements the abstract lock: lock() returns only with    *)
(* the lock, which is granted only while it is free, and unlock() gives it *)
(* up; nothing else changes its owner.                                     *)
ImplementsLock == Abstract!Spec

=============================================================================
