--------------------------- MODULE WordLockProofs ---------------------------
(***************************************************************************)
(* Mutual exclusion of the word lock, and that it implements the abstract  *)
(* lock, for any set of threads, any number of spins and of calls.         *)
(*                                                                         *)
(* MutualExclusion is inductive once the word and the program counters     *)
(* have their types: LOCKED_BIT is set only by a compare_exchange from a   *)
(* word without it, cleared only by the thread that holds the lock, and    *)
(* every other update of the word (pushing a node, the queue lock, cutting *)
(* off the tail) keeps it.                                                 *)
(***************************************************************************)
EXTENDS WordLock, TLAPS

(* The part of the state the lock bit depends on has its type. *)
LockTypeOK ==
  /\ word \in Word
  /\ pc \in [Threads -> Labels]

IInv == LockTypeOK /\ MutualExclusion

(* The free word is a word without LOCKED_BIT. *)
LEMMA UnlockedWord == Unlocked \in Word /\ ~Unlocked.locked
  BY DEF Unlocked, Word, Ptr

(* Initially the lock is free and nobody holds it. *)
LEMMA InitIInv == Init => IInv
  BY UnlockedWord DEF Init, IInv, LockTypeOK, MutualExclusion, Labels

(* A step that moves thread t between labels other than "held" and keeps   *)
(* LOCKED_BIT keeps the invariant.                                         *)
LEMMA KeepsLockBit ==
  ASSUME NEW t \in Threads, NEW from \in Labels \ {"held"},
         NEW to \in Labels \ {"held"},
         IInv, pc[t] = from, pc' = [pc EXCEPT ![t] = to],
         word' \in Word, word'.locked = word.locked
  PROVE  IInv'
  BY DEF IInv, LockTypeOK, MutualExclusion

(* Every step of lock() preserves the invariant: the fast path and Grab    *)
(* take a lock that is free, the others leave LOCKED_BIT alone.            *)
LEMMA LockStepIInv ==
  ASSUME NEW t \in Threads, IInv, LockStep(t)
  PROVE  IInv'
<1> USE DEF Goto, Load
<1>1. CASE Lock(t)
  BY <1>1, UnlockedWord DEF Lock, IInv, LockTypeOK, MutualExclusion, Labels, Word
<1>2. CASE LockSlow(t)
  BY <1>2, KeepsLockBit DEF LockSlow, Labels, IInv, LockTypeOK
<1>3. CASE Grab(t)
  <2>1. CASE word = st[t]
    <3>1. ~word.locked /\ pc' = [pc EXCEPT ![t] = "held"]
      BY <1>3, <2>1 DEF Grab
    <3>2. word' \in Word /\ word'.locked
      BY <1>3, <2>1 DEF Grab, IInv, LockTypeOK, Word
    <3>3. \A u \in Threads : pc[u] # "held"
      BY <3>1 DEF IInv, MutualExclusion
    <3> QED
      BY <3>1, <3>2, <3>3 DEF IInv, LockTypeOK, MutualExclusion, Labels
  <2>2. CASE word # st[t]
    BY <1>3, <2>2 DEF Grab, IInv, LockTypeOK, MutualExclusion
  <2> QED BY <2>1, <2>2
<1>4. CASE Spin(t)
  BY <1>4 DEF Spin, IInv, LockTypeOK, MutualExclusion
<1>5. CASE Enqueue(t)
  <2>1. CASE word = st[t]
    <3>1. word' = [word EXCEPT !.head = t] /\ pc[t] = "lock_slow"
          /\ pc' = [pc EXCEPT ![t] = "park"]
      BY <1>5, <2>1 DEF Enqueue
    <3>2. word' \in Word /\ word'.locked = word.locked
      BY <3>1 DEF IInv, LockTypeOK, Word, Ptr
    <3> QED BY <3>1, <3>2, KeepsLockBit DEF Labels
  <2>2. CASE word # st[t]
    BY <1>5, <2>2 DEF Enqueue, IInv, LockTypeOK, MutualExclusion
  <2> QED BY <2>1, <2>2
<1>6. CASE Park(t)
  BY <1>6, KeepsLockBit DEF Park, Labels, IInv, LockTypeOK
<1> QED BY <1>1, <1>2, <1>3, <1>4, <1>5, <1>6 DEF LockStep

(* Every step of unlock() preserves the invariant: Unlock frees the lock   *)
(* its thread holds, the work on the queue leaves LOCKED_BIT alone.        *)
LEMMA UnlockStepIInv ==
  ASSUME NEW t \in Threads, IInv, UnlockStep(t)
  PROVE  IInv'
<1> USE DEF Goto, Load
<1>1. CASE Unlock(t)
  BY <1>1 DEF Unlock, IInv, LockTypeOK, MutualExclusion, Labels, Word
<1>2. CASE UnlockSlow(t)
  BY <1>2, KeepsLockBit DEF UnlockSlow, Labels, IInv, LockTypeOK
<1>3. CASE SkipQueue(t)
  BY <1>3, KeepsLockBit DEF SkipQueue, Labels, IInv, LockTypeOK
<1>4. CASE GrabQueue(t)
  <2>1. CASE word = st[t]
    <3>1. word' = [word EXCEPT !.qlocked = TRUE] /\ pc[t] = "grab_queue"
          /\ pc' = [pc EXCEPT ![t] = "scan"]
      BY <1>4, <2>1 DEF GrabQueue
    <3>2. word' \in Word /\ word'.locked = word.locked
      BY <3>1 DEF IInv, LockTypeOK, Word
    <3> QED BY <3>1, <3>2, KeepsLockBit DEF Labels
  <2>2. CASE word # st[t]
    BY <1>4, <2>2 DEF GrabQueue, IInv, LockTypeOK, MutualExclusion
  <2> QED BY <2>1, <2>2
<1>5. CASE ScanNode(t)
  BY <1>5 DEF ScanNode, IInv, LockTypeOK, MutualExclusion
<1>6. CASE ScanDone(t)
  <2>1. PICK to \in {"release_queue", "remove_last", "clear_queue_lock"} :
          pc[t] = "scan" /\ pc' = [pc EXCEPT ![t] = to] /\ word' = word
    BY <1>6 DEF ScanDone
  <2> QED BY <2>1, KeepsLockBit DEF Labels, IInv, LockTypeOK
<1>7. CASE ReleaseQueue(t)
  <2>1. pc[t] = "release_queue"
    BY <1>7 DEF ReleaseQueue
  <2>2. \/ pc' = [pc EXCEPT ![t] = "idle"] /\ word' = [word EXCEPT !.qlocked = FALSE]
        \/ pc' = [pc EXCEPT ![t] = "scan"] /\ word' = word
    BY <1>7 DEF ReleaseQueue
  <2>3. word' \in Word /\ word'.locked = word.locked
    BY <2>2 DEF IInv, LockTypeOK, Word
  <2> QED BY <2>1, <2>2, <2>3, KeepsLockBit DEF Labels
<1>8. CASE RemoveLast(t)
  <2>1. pc[t] = "remove_last"
    BY <1>8 DEF RemoveLast
  <2>2. \/ pc' = [pc EXCEPT ![t] = "wake"] /\ word' = [Unlocked EXCEPT !.locked = word.locked]
        \/ pc' = [pc EXCEPT ![t] = "scan"] /\ word' = word
        \/ pc' = [pc EXCEPT ![t] = "remove_last"] /\ word' = word
    BY <1>8 DEF RemoveLast
  <2>3. word' \in Word /\ word'.locked = word.locked
    BY <2>2, UnlockedWord DEF IInv, LockTypeOK, Word
  <2> QED BY <2>1, <2>2, <2>3, KeepsLockBit DEF Labels
<1>9. CASE ClearQueueLock(t)
  <2>1. word' \in Word /\ word'.locked = word.locked
    BY <1>9 DEF ClearQueueLock, IInv, LockTypeOK, Word
  <2> QED BY <1>9, <2>1, KeepsLockBit DEF ClearQueueLock, Labels
<1>10. CASE Wake(t)
  BY <1>10, KeepsLockBit DEF Wake, Labels, IInv, LockTypeOK
<1> QED BY <1>1, <1>2, <1>3, <1>4, <1>5, <1>6, <1>7, <1>8, <1>9, <1>10 DEF UnlockStep

(* The invariant is inductive. *)
LEMMA NextIInv == IInv /\ [Next]_vars => IInv'
<1>1. ASSUME NEW t \in Threads, IInv, Step(t) PROVE IInv'
  BY <1>1, LockStepIInv, UnlockStepIInv DEF Step
<1>2. ASSUME IInv, UNCHANGED vars PROVE IInv'
  BY <1>2 DEF vars, IInv, LockTypeOK, MutualExclusion
<1> QED BY <1>1, <1>2 DEF Next

(* The invariant holds of every behaviour of the word lock. *)
LEMMA InvariantIInv == Spec => []IInv
  BY InitIInv, NextIInv, PTL DEF Spec

(* A bucket lock is held by at most one thread at a time, whatever the     *)
(* number of threads that lock, queue, time their spins or wake others,    *)
(* and LOCKED_BIT says whether it is held.                                 *)
THEOREM WordLockMutualExclusion == Spec => []MutualExclusion
<1>1. IInv => MutualExclusion BY DEF IInv
<1> QED BY InvariantIInv, <1>1, PTL

(* While thread t holds the lock it is the owner. *)
LEMMA HolderOwns ==
  ASSUME IInv, NEW t \in Threads, pc[t] = "held"
  PROVE  Owner = t
  BY DEF IInv, MutualExclusion, Owner

(* While nobody holds the lock it has no owner. *)
LEMMA FreeOwner ==
  ASSUME \A t \in Threads : pc[t] # "held"
  PROVE  Owner = Null
  BY DEF Owner

(* Only the thread that takes the step moves. *)
LEMMA ClientStep ==
  ASSUME NEW t \in Threads, \A u \in Threads : u # t => pc'[u] = pc[u]
  PROVE  Client' = [Client EXCEPT ![t] = Client'[t]]
  BY DEF Client

(* A step that leaves the holder alone leaves the owner alone. *)
LEMMA SameHolder ==
  ASSUME IInv, IInv', \A u \in Threads : pc'[u] = "held" <=> pc[u] = "held"
  PROVE  Owner' = Owner
<1>1. CASE \E u \in Threads : pc[u] = "held"
  <2>1. PICK u \in Threads : pc[u] = "held" BY <1>1
  <2>2. Owner = u /\ Owner' = u
    BY <2>1 DEF IInv, MutualExclusion, Owner
  <2> QED BY <2>2
<1>2. CASE \A u \in Threads : pc[u] # "held"
  BY <1>2 DEF Owner
<1> QED BY <1>1, <1>2

(* A step of the word lock is a step of the abstract lock or stutters:     *)
(* Lock and Grab acquire it, Unlock releases it, LockSlow requests it, the *)
(* last step of unlock_slow ends the unlock.                               *)
LEMMA StepRefines ==
  ASSUME IInv, IInv', NEW t \in Threads, Step(t)
  PROVE  [Abstract!Next]_<<Owner, Client>>
<1> USE DEF Goto
<1>1. \A u \in Threads : u # t => pc'[u] = pc[u]
  BY DEF Step, LockStep, UnlockStep, Lock, LockSlow, Grab, Spin, Enqueue, Park,
     Unlock, UnlockSlow, SkipQueue, GrabQueue, ScanNode, ScanDone,
     ReleaseQueue, RemoveLast, ClearQueueLock, Wake, IInv, LockTypeOK
<1>2. Client' = [Client EXCEPT ![t] = Client'[t]]
  BY <1>1, ClientStep
<1>3. CASE Lock(t) \/ (Grab(t) /\ word = st[t])
  <2>1. pc[t] \in {"idle", "lock_slow"} /\ pc'[t] = "held"
    BY <1>3 DEF Lock, Grab, IInv, LockTypeOK
  <2>2. ~word.locked
    BY <1>3, UnlockedWord DEF Lock, Grab
  <2>3. Owner = Null
    BY <2>2, FreeOwner DEF IInv, MutualExclusion
  <2>4. Owner' = t
    BY <2>1 DEF IInv, MutualExclusion, Owner
  <2>5. Client[t] \in {"out", "locking"} /\ Client'[t] = "in"
    BY <2>1 DEF Client
  <2> QED BY <1>2, <2>3, <2>4, <2>5 DEF Abstract!Next, Abstract!Acquire, Abstract!Moves
<1>4. CASE Unlock(t)
  <2>1. pc[t] = "held" /\ (pc'[t] = "idle" \/ pc'[t] = "unlock_slow")
    BY <1>4 DEF Unlock, IInv, LockTypeOK
  <2>2. Owner = t BY <2>1, HolderOwns
  <2>3. \A u \in Threads : pc'[u] # "held"
    BY <1>1, <2>1 DEF IInv, MutualExclusion
  <2>4. Owner' = Null BY <2>3 DEF Owner
  <2>5. Client[t] = "in" /\ (Client'[t] = "out" \/ Client'[t] = "unlocking")
    BY <2>1 DEF Client
  <2> QED BY <1>2, <2>2, <2>4, <2>5 DEF Abstract!Next, Abstract!Release, Abstract!Moves
<1>5. CASE pc[t] # "held" /\ pc'[t] # "held"
  <2>1. \A u \in Threads : pc'[u] = "held" <=> pc[u] = "held"
    BY <1>1, <1>5
  <2>2. Owner' = Owner
    BY <2>1, SameHolder
  <2>3. Owner # t
    BY <1>5, WordLockAssumption DEF Owner
  <2>4. CASE LockSlow(t)
    <3>1. Client[t] = "out" /\ Client'[t] = "locking"
      BY <2>4 DEF LockSlow, Client, IInv, LockTypeOK
    <3> QED BY <1>2, <2>2, <3>1 DEF Abstract!Next, Abstract!Request, Abstract!Moves
  <2>5. CASE Client[t] = "unlocking" /\ Client'[t] = "out"
    BY <1>2, <2>2, <2>3, <2>5 DEF Abstract!Next, Abstract!EndUnlock, Abstract!Moves
  <2>6. CASE Client'[t] = Client[t]
    <3>1. Client' = Client BY <1>1, <2>6 DEF Client
    <3> QED BY <2>2, <3>1
  <2>7. \/ LockSlow(t) \/ Client'[t] = Client[t]
        \/ (Client[t] = "unlocking" /\ Client'[t] = "out")
    BY <1>5 DEF Client, Step, LockStep, UnlockStep, Lock, Grab, Spin, Enqueue, Park,
       Unlock, UnlockSlow, SkipQueue, GrabQueue, ScanNode, ScanDone,
       ReleaseQueue, RemoveLast, ClearQueueLock, Wake, IInv, LockTypeOK
  <2> QED BY <2>4, <2>5, <2>6, <2>7
<1>6. \/ Lock(t) \/ (Grab(t) /\ word = st[t]) \/ Unlock(t)
      \/ (pc[t] # "held" /\ pc'[t] # "held")
  BY DEF Step, LockStep, UnlockStep, LockSlow, Grab, Spin, Enqueue, Park,
     UnlockSlow, SkipQueue, GrabQueue, ScanNode, ScanDone,
     ReleaseQueue, RemoveLast, ClearQueueLock, Wake, IInv, LockTypeOK
<1> QED BY <1>3, <1>4, <1>5, <1>6

(* The word lock implements the abstract lock for any set of threads:      *)
(* lock() returns only with the lock, which is granted only while it is    *)
(* free and given up only by its owner.                                    *)
THEOREM WordLockImplementsLock == Spec => ImplementsLock
<1>1. Init => Abstract!Init
  BY DEF Init, Abstract!Init, Owner, Client
<1>2. IInv /\ IInv' /\ [Next]_vars => [Abstract!Next]_<<Owner, Client>>
  <2>1. ASSUME IInv, IInv', NEW t \in Threads, Step(t)
        PROVE  [Abstract!Next]_<<Owner, Client>>
    BY <2>1, StepRefines
  <2>2. ASSUME UNCHANGED vars PROVE UNCHANGED <<Owner, Client>>
    BY <2>2 DEF vars, Owner, Client
  <2> QED BY <2>1, <2>2 DEF Next
<1> QED BY <1>1, <1>2, InvariantIInv, PTL DEF Spec, ImplementsLock, Abstract!Spec

=============================================================================
