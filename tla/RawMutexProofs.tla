--------------------------- MODULE RawMutexProofs ---------------------------
(***************************************************************************)
(* The safety of RawMutex for any set of threads, any number of spins, and *)
(* any mix of timed and untimed locks and of fair and unfair unlocks.      *)
(*                                                                         *)
(* The invariant is built in layers, each inductive relative to the ones   *)
(* before it: types; the shape of the queue (who is in it, who was taken   *)
(* from it, who holds the bucket lock); the ownership of the mutex; and    *)
(* what PARKED_BIT says about the queue.                                   *)
(***************************************************************************)
EXTENDS RawMutex, SequenceTheorems, TLAPS

-----------------------------------------------------------------------------
(* Facts about the queue operations *)

(* Appending a thread adds one entry at the end. *)
LEMMA AppendEntry ==
  ASSUME NEW q \in Seq(Threads), NEW t \in Threads
  PROVE  /\ Append(q, t) \in Seq(Threads)
         /\ Len(Append(q, t)) = Len(q) + 1
         /\ \A i \in 1 .. Len(q) : Append(q, t)[i] = q[i]
         /\ Append(q, t)[Len(q) + 1] = t
  OBVIOUS

(* Taking the first thread leaves the entries after it. *)
LEMMA TailEntries ==
  ASSUME NEW q \in Seq(Threads), q # <<>>
  PROVE  /\ Len(q) \in Nat /\ Len(q) > 0
         /\ Head(q) = q[1] /\ q[1] \in Threads
         /\ Tail(q) \in Seq(Threads)
         /\ Len(Tail(q)) = Len(q) - 1
         /\ \A i \in 1 .. Len(q) - 1 : Tail(q)[i] = q[i + 1]
  OBVIOUS

(* Removing entry i keeps the other entries in order. *)
LEMMA RemoveEntries ==
  ASSUME NEW q \in Seq(Threads), NEW i \in 1 .. Len(q)
  PROVE  /\ RemoveEntry(q, i) \in Seq(Threads)
         /\ Len(RemoveEntry(q, i)) = Len(q) - 1
         /\ \A j \in 1 .. Len(q) - 1 :
              RemoveEntry(q, i)[j] = IF j < i THEN q[j] ELSE q[j + 1]
<1>1. Len(q) - 1 \in Nat
  OBVIOUS
<1>2. \A j \in 1 .. Len(q) - 1 : (IF j < i THEN q[j] ELSE q[j + 1]) \in Threads
  OBVIOUS
<1> QED BY <1>1, <1>2 DEF RemoveEntry

-----------------------------------------------------------------------------
(* Types *)

(* The initial values have their types. *)
LEMMA InitTypeOK == Init => TypeOK
  BY RawMutexAssumption DEF Init, TypeOK, Labels, Tokens, TOKEN_NORMAL

(* What the shared parts of the actions do to the local variables *)
LEMMA LocalTypes ==
  ASSUME TypeOK, NEW t \in Threads
  PROVE  /\ \A from, to \in Labels : Goto(t, from, to) => pc' \in [Threads -> Labels]
         /\ Load(t) => st' \in [Threads -> SUBSET Bits]
         /\ LockReturns(t) \/ Forget(t) =>
              /\ st' \in [Threads -> SUBSET Bits]
              /\ spin' \in [Threads -> 0 .. SpinLimit]
              /\ timed' \in [Threads -> BOOLEAN]
<1> USE RawMutexAssumption DEF TypeOK
<1>1. \A from, to \in Labels : Goto(t, from, to) => pc' \in [Threads -> Labels]
  BY DEF Goto
<1>2. Load(t) => st' \in [Threads -> SUBSET Bits]
  BY DEF Load
<1>3. ASSUME LockReturns(t) \/ Forget(t)
      PROVE  /\ st' \in [Threads -> SUBSET Bits]
             /\ spin' \in [Threads -> 0 .. SpinLimit]
             /\ timed' \in [Threads -> BOOLEAN]
  <2>1. /\ st' = [st EXCEPT ![t] = {}]
        /\ spin' = [spin EXCEPT ![t] = 0]
        /\ timed' = [timed EXCEPT ![t] = FALSE] \/ timed' = timed
    BY <1>3 DEF LockReturns, Forget
  <2>2. st' \in [Threads -> SUBSET Bits] BY <2>1
  <2>3. spin' \in [Threads -> 0 .. SpinLimit] BY <2>1
  <2>4. timed' \in [Threads -> BOOLEAN] BY <2>1
  <2> QED BY <2>2, <2>3, <2>4
<1> QED BY <1>1, <1>2, <1>3

(* The steps of the lock functions keep the types. *)
LEMMA LockStepTypeOK ==
  ASSUME TypeOK, NEW t \in Threads, LockStep(t)
  PROVE  TypeOK'
<1> USE DEF parking, locking, unlocking
<1>1. CASE Lock(t)
  <2>1. pc' \in [Threads -> Labels]
    BY <1>1, LocalTypes DEF Lock, Labels
  <2>2. state' \in SUBSET Bits
    BY <1>1 DEF Lock, Bits
  <2> QED BY <1>1, <2>1, <2>2 DEF Lock, TypeOK
<1>2. CASE TryLock(t)
  <2>1. pc' \in [Threads -> Labels]
    BY <1>2, LocalTypes DEF TryLock, Labels
  <2>2. state' \in SUBSET Bits
    BY <1>2 DEF TryLock, Bits, TypeOK
  <2> QED BY <1>2, <2>1, <2>2 DEF TryLock, TypeOK
<1>3. ASSUME NEW timeout \in Timeouts, LockSlow(t, timeout) PROVE TypeOK'
  <2>1. pc' \in [Threads -> Labels]
    BY <1>3, LocalTypes DEF LockSlow, Labels
  <2>2. timed' \in [Threads -> BOOLEAN]
    <3>1. timeout \in BOOLEAN BY RawMutexAssumption
    <3> QED BY <1>3, <3>1 DEF LockSlow, TypeOK
  <2>3. spin' \in [Threads -> 0 .. SpinLimit]
    BY <1>3, RawMutexAssumption DEF LockSlow, TypeOK
  <2>4. st' \in [Threads -> SUBSET Bits]
    BY <1>3, LocalTypes DEF LockSlow
  <2>5. UNCHANGED <<state, parking, unlocking>>
    BY <1>3 DEF LockSlow
  <2> QED BY <2>1, <2>2, <2>3, <2>4, <2>5 DEF TypeOK
<1>4. CASE Grab(t)
  <2>1. pc' \in [Threads -> Labels]
    BY <1>4, LocalTypes DEF Grab, Labels, TypeOK
  <2>2. state' \in SUBSET Bits
    BY <1>4 DEF Grab, Bits, TypeOK
  <2>3. /\ st' \in [Threads -> SUBSET Bits]
        /\ spin' \in [Threads -> 0 .. SpinLimit]
        /\ timed' \in [Threads -> BOOLEAN]
    BY <1>4, LocalTypes DEF Grab, TypeOK
  <2>4. UNCHANGED <<parking, unlocking>>
    BY <1>4 DEF Grab
  <2> QED BY <2>1, <2>2, <2>3, <2>4 DEF TypeOK
<1>5. CASE Spin(t)
  <2>1. spin' \in [Threads -> 0 .. SpinLimit]
    BY <1>5, RawMutexAssumption DEF Spin, TypeOK
  <2> QED BY <1>5, <2>1, LocalTypes DEF Spin, TypeOK
<1>6. CASE SetParked(t)
  <2>1. pc' \in [Threads -> Labels]
    BY <1>6, LocalTypes DEF SetParked, Labels, TypeOK
  <2>2. state' \in SUBSET Bits
    BY <1>6 DEF SetParked, Bits, TypeOK
  <2>3. /\ st' \in [Threads -> SUBSET Bits]
        /\ spin' \in [Threads -> 0 .. SpinLimit]
        /\ timed' \in [Threads -> BOOLEAN]
    BY <1>6, LocalTypes DEF SetParked, TypeOK
  <2>4. UNCHANGED <<parking, unlocking>>
    BY <1>6 DEF SetParked
  <2> QED BY <2>1, <2>2, <2>3, <2>4 DEF TypeOK
<1>7. CASE AlreadyParked(t)
  <2>1. pc' \in [Threads -> Labels]
    BY <1>7, LocalTypes DEF AlreadyParked, Labels
  <2> QED BY <1>7, <2>1, LocalTypes DEF AlreadyParked, TypeOK
<1>8. CASE Park(t)
  <2>1. pc' \in [Threads -> Labels]
    BY <1>8, LocalTypes DEF Park, Labels
  <2> QED BY <1>8, <2>1, AppendEntry DEF Park, TypeOK
<1>9. CASE ParkInvalid(t)
  <2>1. pc' \in [Threads -> Labels]
    BY <1>9, LocalTypes DEF ParkInvalid, Labels
  <2> QED BY <1>9, <2>1 DEF ParkInvalid, TypeOK
<1>10. ASSUME ParkReturns(t, "parked") \/ ParkReturns(t, "expired"),
              UNCHANGED <<state, parking, unlocking>>
       PROVE  TypeOK'
  <2>1. pc' \in [Threads -> Labels]
    BY <1>10, LocalTypes DEF ParkReturns, Labels
  <2>2. /\ st' \in [Threads -> SUBSET Bits]
        /\ spin' \in [Threads -> 0 .. SpinLimit]
        /\ timed' \in [Threads -> BOOLEAN]
    BY <1>10, LocalTypes DEF ParkReturns, TypeOK
  <2> QED BY <1>10, <2>1, <2>2 DEF TypeOK
<1>11. CASE Expire(t)
  <2>1. pc' \in [Threads -> Labels]
    BY <1>11, LocalTypes DEF Expire, Labels
  <2> QED BY <1>11, <2>1 DEF Expire, TypeOK
<1>12. CASE TimedOut(t)
  <2>1. pc' \in [Threads -> Labels]
    BY <1>12, LocalTypes DEF TimedOut, Labels
  <2>2. queue' \in Seq(Threads)
    BY <1>12, RemoveEntries DEF TimedOut, TypeOK
  <2> QED BY <1>12, <2>1, <2>2, LocalTypes DEF TimedOut, TypeOK
<1>13. CASE Retry(t)
  <2>1. pc' \in [Threads -> Labels]
    BY <1>13, LocalTypes DEF Retry, Labels
  <2>2. spin' \in [Threads -> 0 .. SpinLimit]
    BY <1>13, RawMutexAssumption DEF Retry, TypeOK
  <2> QED BY <1>13, <2>1, <2>2, LocalTypes DEF Retry, TypeOK
<1> QED
  BY <1>1, <1>2, <1>3, <1>4, <1>5, <1>6, <1>7, <1>8, <1>9, <1>10, <1>11, <1>12,
     <1>13 DEF LockStep, Unparked, UnparkedLate

(* The steps of the unlock functions keep the types. *)
LEMMA UnlockStepTypeOK ==
  ASSUME TypeOK, NEW t \in Threads, UnlockStep(t)
  PROVE  TypeOK'
<1> USE DEF parking, locking, unlocking
<1>1. CASE Unlock(t)
  <2>1. pc' \in [Threads -> Labels]
    BY <1>1, LocalTypes DEF Unlock, Labels
  <2> QED BY <1>1, <2>1 DEF Unlock, TypeOK
<1>2. ASSUME NEW force_fair \in Fairness, UnlockSlow(t, force_fair) PROVE TypeOK'
  <2>1. pc' \in [Threads -> Labels]
    BY <1>2, LocalTypes DEF UnlockSlow, Labels
  <2>2. force_fair \in BOOLEAN
    BY RawMutexAssumption
  <2> QED BY <1>2, <2>1, <2>2 DEF UnlockSlow, TypeOK
<1>3. CASE Bump(t)
  <2>1. pc' \in [Threads -> Labels]
    BY <1>3, LocalTypes DEF Bump, Labels
  <2> QED BY <1>3, <2>1 DEF Bump, TypeOK
<1>4. CASE UnparkOne(t)
  <2>1. pc' \in [Threads -> Labels]
    BY <1>4, LocalTypes DEF UnparkOne, Labels
  <2>2. fair' \in [Threads -> BOOLEAN] /\ more' \in [Threads -> BOOLEAN]
    <3>1. PICK f \in BOOLEAN, m \in BOOLEAN :
            /\ fair' = [fair EXCEPT ![t] = f]
            /\ more' = [more EXCEPT ![t] = m]
      <4>1. CASE queue = <<>>
        <5>1. more' = [more EXCEPT ![t] = FALSE] /\ fair' = fair
          BY <1>4, <4>1 DEF UnparkOne
        <5>2. fair = [fair EXCEPT ![t] = fair[t]] /\ fair[t] \in BOOLEAN
          BY DEF TypeOK
        <5> QED BY <5>1, <5>2
      <4>2. CASE queue # <<>>
        <5>1. PICK be_fair \in BOOLEAN :
                fair' = [fair EXCEPT ![t] = fair[t] \/ be_fair]
          BY <1>4, <4>2 DEF UnparkOne
        <5>2. more' = [more EXCEPT ![t] = Len(queue) > 1]
          BY <1>4, <4>2 DEF UnparkOne
        <5>3. (fair[t] \/ be_fair) \in BOOLEAN /\ (Len(queue) > 1) \in BOOLEAN
          OBVIOUS
        <5> QED BY <5>1, <5>2, <5>3
      <4> QED BY <4>1, <4>2
    <3> QED BY <3>1 DEF TypeOK
  <2>3. queue' \in Seq(Threads) /\ target' \in [Threads -> Threads \cup {Null}]
    BY <1>4, TailEntries DEF UnparkOne, TypeOK
  <2>4. bucket' = t /\ UNCHANGED <<state, futex, token, locking, bump>>
    BY <1>4 DEF UnparkOne
  <2> QED BY <2>1, <2>2, <2>3, <2>4 DEF TypeOK
<1>5. CASE Callback(t)
  <2>1. pc' \in [Threads -> Labels]
    BY <1>5, LocalTypes DEF Callback, Labels
  <2>2. state' \in SUBSET Bits
    BY <1>5 DEF Callback, TypeOK, Bits
  <2> QED BY <1>5, <2>1, <2>2 DEF Callback, TypeOK
<1>6. CASE Deliver(t)
  <2>1. pc' \in [Threads -> Labels]
    BY <1>6, LocalTypes DEF Deliver, Labels
  <2> QED BY <1>6, <2>1 DEF Deliver, TypeOK, Tokens
<1> QED BY <1>1, <1>2, <1>3, <1>4, <1>5, <1>6 DEF UnlockStep

(* Every step keeps the types. *)
LEMMA NextTypeOK == TypeOK /\ [Next]_vars => TypeOK'
<1>1. ASSUME TypeOK, NEW t \in Threads, Step(t) PROVE TypeOK'
  BY <1>1, LockStepTypeOK, UnlockStepTypeOK DEF Step
<1>2. ASSUME TypeOK, UNCHANGED vars PROVE TypeOK'
  BY <1>2 DEF vars, TypeOK
<1> QED BY <1>1, <1>2 DEF Next

(* Every variable keeps its type: the word has only the two bits, the      *)
(* queue holds threads, a thread is always at one of its labels.           *)
THEOREM RawMutexTypeOK == Spec => []TypeOK
  BY InitTypeOK, NextTypeOK, PTL DEF Spec

-----------------------------------------------------------------------------
(* The shape of the queue *)

(* t is parked and nobody has let its parker go. *)
Asleep(t) == pc[t] \in {"parked", "expired"} /\ futex[t]

(* The bucket lock is held exactly from the scan of unpark_one to the      *)
(* release of the parker.                                                  *)
BucketInv == \A t \in Threads : bucket = t <=> pc[t] \in {"callback", "deliver"}

(* The queue holds sleeping threads, each once. *)
QueueInv ==
  /\ \A i \in 1 .. Len(queue) : Asleep(queue[i])
  /\ \A i, j \in 1 .. Len(queue) : queue[i] = queue[j] => i = j

(* The thread an unlock has taken from the queue sleeps until it is        *)
(* unparked, and have_more_threads stays exact under the bucket lock.      *)
TargetInv ==
  \A u \in Threads : pc[u] \in {"callback", "deliver"} =>
    /\ target[u] # Null => Asleep(target[u]) /\ ~InQueue(target[u])
    /\ target[u] = Null => queue = <<>>
    /\ more[u] <=> queue # <<>>

Shape == BucketInv /\ QueueInv /\ TargetInv /\ NoThreadLost

SleepLabels == {"parked", "expired", "callback", "deliver"}

(* The entries of a sequence of threads are at 1 .. Len. *)
LEMMA QueueDomain ==
  ASSUME TypeOK
  PROVE  /\ DOMAIN queue = 1 .. Len(queue)
         /\ Len(queue) \in Nat
         /\ \A i \in 1 .. Len(queue) : queue[i] \in Threads
  BY DEF TypeOK

(* Nobody sleeps and nobody holds the bucket lock at the start. *)
LEMMA InitShape == Init => Shape
<1> SUFFICES ASSUME Init PROVE Shape
  OBVIOUS
<1>1. BucketInv
  BY RawMutexAssumption DEF Init, BucketInv
<1>2. QueueInv
  BY DEF Init, QueueInv
<1>3. TargetInv
  BY DEF Init, TargetInv
<1>4. NoThreadLost
  BY DEF Init, NoThreadLost
<1> QED BY <1>1, <1>2, <1>3, <1>4 DEF Shape

(* A step of a thread that neither sleeps nor holds the bucket lock, before *)
(* and after it, and that leaves the parking lot alone keeps the shape.    *)
LEMMA FrameShape ==
  ASSUME TypeOK, Shape, NEW t \in Threads, NEW to \in Labels \ SleepLabels,
         pc[t] \notin SleepLabels, pc' = [pc EXCEPT ![t] = to],
         UNCHANGED <<bucket, queue, futex, target, more>>
  PROVE  Shape'
<1>1. \A u \in Threads : pc'[u] = pc[u] \/ (pc[u] \notin SleepLabels /\ pc'[u] \notin SleepLabels)
  BY DEF TypeOK
<1>2. \A u \in Threads : Asleep(u)' <=> Asleep(u)
  BY <1>1 DEF Asleep, SleepLabels
<1>3. \A u \in Threads : pc'[u] \in {"callback", "deliver"} <=> pc[u] \in {"callback", "deliver"}
  BY <1>1 DEF SleepLabels
<1>4. BucketInv'
  BY <1>3 DEF BucketInv, Shape
<1>5. QueueInv'
  BY <1>2, QueueDomain DEF QueueInv, Shape
<1>6. \A u \in Threads : InQueue(u)' <=> InQueue(u)
  BY DEF InQueue
<1>7. TargetInv'
  <2> SUFFICES ASSUME NEW u \in Threads, pc'[u] \in {"callback", "deliver"}
               PROVE  /\ target[u] # Null => Asleep(target[u])' /\ ~InQueue(target[u])'
                      /\ target[u] = Null => queue = <<>>
                      /\ more[u] <=> queue # <<>>
    BY DEF TargetInv
  <2>1. target[u] # Null => target[u] \in Threads
    BY DEF TypeOK
  <2> QED BY <1>2, <1>3, <1>6, <2>1 DEF TargetInv, Shape
<1>8. NoThreadLost'
  BY <1>1, <1>2, <1>3, <1>6 DEF NoThreadLost, Shape, Asleep, Unparks
<1> QED BY <1>4, <1>5, <1>7, <1>8 DEF Shape

(* Joining the queue: a new entry at its end, for a thread that was awake. *)
LEMMA ParkShape ==
  ASSUME TypeOK, Shape, NEW t \in Threads, Park(t)
  PROVE  Shape'
<1> USE QueueDomain
<1>1. /\ bucket = Null /\ bucket' = Null
      /\ pc[t] = "park" /\ pc' = [pc EXCEPT ![t] = "parked"]
      /\ queue' = Append(queue, t)
      /\ futex' = [futex EXCEPT ![t] = TRUE]
      /\ UNCHANGED <<target, more>>
  BY DEF Park, Goto, unlocking
<1>2. /\ Len(queue') = Len(queue) + 1
      /\ \A i \in 1 .. Len(queue) : queue'[i] = queue[i]
      /\ queue'[Len(queue) + 1] = t
      /\ queue' \in Seq(Threads)
  BY <1>1, AppendEntry DEF TypeOK
<1>3. \A u \in Threads : u # t => (Asleep(u)' <=> Asleep(u))
  BY <1>1 DEF Asleep, TypeOK
<1>4. Asleep(t)' /\ ~Asleep(t)
  BY <1>1 DEF Asleep, TypeOK
<1>5. \A u \in Threads : pc[u] \notin {"callback", "deliver"} /\ pc'[u] \notin {"callback", "deliver"}
  BY <1>1, RawMutexAssumption DEF BucketInv, Shape, TypeOK
<1>6. BucketInv'
  BY <1>1, <1>5, RawMutexAssumption DEF BucketInv
<1>7. QueueInv'
  <2>1. \A i \in 1 .. Len(queue) : queue[i] # t
    BY <1>4 DEF QueueInv, Shape
  <2>2. \A i \in 1 .. Len(queue') : i \in 1 .. Len(queue) \/ i = Len(queue) + 1
    BY <1>2
  <2>3. (\A i \in 1 .. Len(queue) : Asleep(queue[i]))'
    BY <1>2, <1>3, <1>4, <2>1, <2>2 DEF QueueInv, Shape, Asleep
  <2>4. \A i, j \in 1 .. Len(queue') : queue'[i] = queue'[j] => i = j
    BY <1>2, <2>1, <2>2 DEF QueueInv, Shape
  <2> QED BY <2>3, <2>4 DEF QueueInv, Asleep
<1>8. TargetInv'
  BY <1>5 DEF TargetInv
<1>9. NoThreadLost'
  <2>1. \A u \in Threads : InQueue(u) => InQueue(u)'
    BY <1>2 DEF InQueue
  <2>2. InQueue(t)'
    BY <1>2 DEF InQueue
  <2>3. \A u \in Threads : Asleep(u) => InQueue(u)
    BY <1>5 DEF NoThreadLost, Shape, Unparks, Asleep
  <2> QED BY <1>3, <2>1, <2>2, <2>3 DEF NoThreadLost, Asleep
<1> QED BY <1>6, <1>7, <1>8, <1>9 DEF Shape

(* A thread that was unparked, or whose timeout passes, leaves the queue   *)
(* and the sleeping threads as they are.                                   *)
LEMMA WakeShape ==
  ASSUME TypeOK, Shape, NEW t \in Threads,
         \/ /\ pc[t] \in {"parked", "expired"} /\ ~futex[t]
            /\ pc' = [pc EXCEPT ![t] = "held"] \/ pc' = [pc EXCEPT ![t] = "retry"]
         \/ pc[t] = "parked" /\ pc' = [pc EXCEPT ![t] = "expired"],
         UNCHANGED <<bucket, queue, futex, target, more>>
  PROVE  Shape'
<1>1. \A u \in Threads : Asleep(u)' <=> Asleep(u)
  BY DEF Asleep, TypeOK
<1>2. \A u \in Threads : /\ pc'[u] \in {"callback", "deliver"} <=> pc[u] \in {"callback", "deliver"}
                         /\ pc[u] \in {"callback", "deliver"} => pc'[u] = pc[u]
  BY DEF TypeOK
<1>3. BucketInv'
  BY <1>2 DEF BucketInv, Shape
<1>4. QueueInv'
  BY <1>1, QueueDomain DEF QueueInv, Shape
<1>5. \A u \in Threads : InQueue(u)' <=> InQueue(u)
  BY DEF InQueue
<1>6. TargetInv'
  <2> SUFFICES ASSUME NEW u \in Threads, pc'[u] \in {"callback", "deliver"}
               PROVE  /\ target[u] # Null => Asleep(target[u])' /\ ~InQueue(target[u])'
                      /\ target[u] = Null => queue = <<>>
                      /\ more[u] <=> queue # <<>>
    BY DEF TargetInv
  <2>1. target[u] # Null => target[u] \in Threads
    BY DEF TypeOK
  <2> QED BY <1>1, <1>2, <1>5, <2>1 DEF TargetInv, Shape
<1>7. NoThreadLost'
  BY <1>1, <1>2, <1>5 DEF NoThreadLost, Shape, Asleep, Unparks
<1> QED BY <1>3, <1>4, <1>6, <1>7 DEF Shape

(* A thread that timed out removes its own entry, the only one it has. *)
LEMMA TimedOutShape ==
  ASSUME TypeOK, Shape, NEW t \in Threads, TimedOut(t)
  PROVE  Shape'
<1> USE QueueDomain
<1>1. PICK k \in 1 .. Len(queue) : queue[k] = t /\ queue' = RemoveEntry(queue, k)
  BY DEF TimedOut
<1>2. /\ bucket = Null /\ bucket' = Null
      /\ pc[t] = "expired" /\ pc' = [pc EXCEPT ![t] = "idle"]
      /\ UNCHANGED <<futex, target, more>>
  BY DEF TimedOut, Goto, unlocking
<1>3. /\ Len(queue') = Len(queue) - 1
      /\ \A j \in 1 .. Len(queue) - 1 : queue'[j] = IF j < k THEN queue[j] ELSE queue[j + 1]
      /\ queue' \in Seq(Threads)
  BY <1>1, RemoveEntries DEF TypeOK
<1>4. \A u \in Threads : u # t => (Asleep(u)' <=> Asleep(u))
  BY <1>2 DEF Asleep, TypeOK
<1>5. ~Asleep(t)'
  BY <1>2 DEF Asleep, TypeOK
<1>6. \A u \in Threads : pc[u] \notin {"callback", "deliver"} /\ pc'[u] \notin {"callback", "deliver"}
  BY <1>2, RawMutexAssumption DEF BucketInv, Shape, TypeOK
<1>7. BucketInv'
  BY <1>2, <1>6, RawMutexAssumption DEF BucketInv
<1>8. \A i \in 1 .. Len(queue) : i # k => queue[i] # t
  BY <1>1 DEF QueueInv, Shape
<1>9. \A j \in 1 .. Len(queue') :
        \E i \in 1 .. Len(queue) : i # k /\ queue'[j] = queue[i] /\ i = (IF j < k THEN j ELSE j + 1)
  BY <1>1, <1>3
<1>10. QueueInv'
  <2>1. (\A j \in 1 .. Len(queue) : Asleep(queue[j]))'
    BY <1>4, <1>8, <1>9 DEF QueueInv, Shape, Asleep
  <2>2. \A i, j \in 1 .. Len(queue') : queue'[i] = queue'[j] => i = j
    BY <1>1, <1>3, <1>9 DEF QueueInv, Shape
  <2> QED BY <2>1, <2>2 DEF QueueInv, Asleep
<1>11. TargetInv'
  BY <1>6 DEF TargetInv
<1>12. NoThreadLost'
  <2>1. \A i \in 1 .. Len(queue) : i # k => \E j \in 1 .. Len(queue') : queue'[j] = queue[i]
    <3> TAKE i \in 1 .. Len(queue)
    <3> HAVE i # k
    <3>1. CASE i < k
      <4>1. i \in 1 .. Len(queue) - 1 /\ queue'[i] = queue[i]
        BY <1>1, <1>3, <3>1
      <4> QED BY <1>3, <4>1
    <3>2. CASE i > k
      <4>1. i - 1 \in 1 .. Len(queue) - 1 /\ ~(i - 1 < k)
        BY <1>1, <3>2
      <4>2. queue'[i - 1] = queue[(i - 1) + 1]
        BY <1>3, <4>1
      <4>3. (i - 1) + 1 = i
        OBVIOUS
      <4> QED BY <1>3, <4>1, <4>2, <4>3
    <3> QED BY <1>1, <3>1, <3>2
  <2>2. DOMAIN queue' = 1 .. Len(queue')
    BY <1>3
  <2>3. \A u \in Threads : u # t /\ InQueue(u) => InQueue(u)'
    BY <1>1, <2>1, <2>2 DEF InQueue
  <2>4. \A u \in Threads : Asleep(u) => InQueue(u)
    BY <1>6 DEF NoThreadLost, Shape, Unparks, Asleep
  <2> QED BY <1>4, <1>5, <2>3, <2>4 DEF NoThreadLost, Asleep
<1> QED BY <1>7, <1>10, <1>11, <1>12 DEF Shape

(* unpark_one takes the first entry, under the bucket lock it acquires. *)
LEMMA UnparkOneShape ==
  ASSUME TypeOK, Shape, NEW t \in Threads, UnparkOne(t)
  PROVE  Shape'
<1> USE QueueDomain
<1>1. /\ bucket = Null /\ bucket' = t
      /\ pc[t] = "unlock_slow" /\ pc' = [pc EXCEPT ![t] = "callback"]
      /\ UNCHANGED futex
  BY DEF UnparkOne, Goto
<1>2. \A u \in Threads : Asleep(u)' <=> Asleep(u)
  BY <1>1 DEF Asleep, TypeOK
<1>3. \A u \in Threads : pc[u] \notin {"callback", "deliver"}
  BY <1>1, RawMutexAssumption DEF BucketInv, Shape
<1>4. \A u \in Threads : pc'[u] \in {"callback", "deliver"} <=> u = t
  BY <1>1, <1>3 DEF TypeOK
<1>5. \A u \in Threads : Asleep(u) => InQueue(u)
  BY <1>3 DEF NoThreadLost, Shape, Unparks, Asleep
<1>6. BucketInv'
  BY <1>1, <1>4 DEF BucketInv
<1>7. CASE queue = <<>>
  <2>1. queue' = queue /\ target'[t] = Null /\ more'[t] = FALSE
    BY <1>7 DEF UnparkOne, TypeOK
  <2>2. QueueInv'
    BY <1>2, <2>1 DEF QueueInv, Shape
  <2>3. TargetInv'
    BY <1>4, <1>7, <2>1 DEF TargetInv
  <2>4. NoThreadLost'
    BY <1>2, <1>5, <2>1 DEF NoThreadLost, InQueue, Asleep
  <2> QED BY <1>6, <2>2, <2>3, <2>4 DEF Shape
<1>8. CASE queue # <<>>
  <2>1. /\ queue' = Tail(queue) /\ target'[t] = queue[1]
        /\ more'[t] = (Len(queue) > 1)
    BY <1>8, TailEntries DEF UnparkOne, TypeOK
  <2>2. /\ Len(queue) > 0
        /\ queue' \in Seq(Threads)
        /\ Len(queue') = Len(queue) - 1
        /\ \A i \in 1 .. Len(queue) - 1 : queue'[i] = queue[i + 1]
    BY <1>8, <2>1, TailEntries DEF TypeOK
  <2>3. DOMAIN queue' = 1 .. Len(queue')
    BY <2>2
  <2>4. QueueInv'
    <3>0. \A i \in 1 .. Len(queue') : /\ i + 1 \in 1 .. Len(queue)
                                     /\ queue'[i] = queue[i + 1]
                                     /\ queue[i + 1] \in Threads
      <4> TAKE i \in 1 .. Len(queue')
      <4>1. Len(queue) \in Nat /\ Len(queue') = Len(queue) - 1
        BY <2>2
      <4>2. i \in 1 .. Len(queue) - 1 /\ i + 1 \in 1 .. Len(queue)
        BY <4>1
      <4> QED BY <2>2, <4>2
    <3>1. (\A i \in 1 .. Len(queue) : Asleep(queue[i]))'
      BY <1>2, <3>0 DEF QueueInv, Shape, Asleep
    <3>2. \A i, j \in 1 .. Len(queue') : queue'[i] = queue'[j] => i = j
      BY <2>2 DEF QueueInv, Shape
    <3> QED BY <3>1, <3>2 DEF QueueInv, Asleep
  <2>5. TargetInv'
    <3>1. Asleep(target[t])'
      BY <1>2, <2>1, <2>2 DEF QueueInv, Shape, Asleep
    <3>2. ~InQueue(target[t])'
      BY <2>1, <2>2, <2>3 DEF QueueInv, Shape, InQueue
    <3>3. target'[t] # Null
      BY <2>1, <2>2, RawMutexAssumption
    <3>4. more'[t] <=> queue' # <<>>
      <4>1. Len(queue) > 1 <=> queue' # <<>>
        BY <2>2, EmptySeq DEF TypeOK
      <4> QED BY <2>1, <4>1
    <3> QED BY <1>4, <3>1, <3>2, <3>3, <3>4 DEF TargetInv
  <2>6. NoThreadLost'
    <3>1. \A i \in 1 .. Len(queue) : i # 1 => \E j \in 1 .. Len(queue') : queue'[j] = queue[i]
      <4> TAKE i \in 1 .. Len(queue)
      <4> HAVE i # 1
      <4>1. i - 1 \in 1 .. Len(queue) - 1 /\ (i - 1) + 1 = i
        OBVIOUS
      <4> QED BY <2>2, <4>1
    <3>2. \A u \in Threads : InQueue(u) => u = queue[1] \/ InQueue(u)'
      BY <2>3, <3>1 DEF InQueue
    <3>4. \A u \in Threads : u = queue[1] => bucket' = t /\ Unparks(t, u)'
      BY <1>1, <1>4, <2>1 DEF Unparks
    <3> QED BY <1>2, <1>5, <3>2, <3>4 DEF NoThreadLost, Asleep
  <2> QED BY <1>6, <2>4, <2>5, <2>6 DEF Shape
<1> QED BY <1>7, <1>8

(* The callback of unlock_slow does not touch the parking lot. *)
LEMMA CallbackShape ==
  ASSUME TypeOK, Shape, NEW t \in Threads, Callback(t)
  PROVE  Shape'
<1>1. /\ pc[t] = "callback" /\ pc' = [pc EXCEPT ![t] = "deliver"]
      /\ UNCHANGED <<bucket, queue, futex, target, more>>
  BY DEF Callback, Goto, parking, unlocking
<1>2. \A u \in Threads : Asleep(u)' <=> Asleep(u)
  BY <1>1 DEF Asleep, TypeOK
<1>3. \A u \in Threads : pc'[u] \in {"callback", "deliver"} <=> pc[u] \in {"callback", "deliver"}
  BY <1>1 DEF TypeOK
<1>4. BucketInv'
  BY <1>1, <1>3 DEF BucketInv, Shape
<1>5. QueueInv'
  BY <1>1, <1>2, QueueDomain DEF QueueInv, Shape
<1>6. \A u \in Threads : InQueue(u)' <=> InQueue(u)
  BY <1>1 DEF InQueue
<1>7. TargetInv'
  <2> SUFFICES ASSUME NEW u \in Threads, pc'[u] \in {"callback", "deliver"}
               PROVE  /\ target[u] # Null => Asleep(target[u])' /\ ~InQueue(target[u])'
                      /\ target[u] = Null => queue = <<>>
                      /\ more[u] <=> queue # <<>>
    BY <1>1 DEF TargetInv
  <2>1. target[u] # Null => target[u] \in Threads
    BY DEF TypeOK
  <2> QED BY <1>1, <1>2, <1>3, <1>6, <2>1 DEF TargetInv, Shape
<1>8. NoThreadLost'
  BY <1>1, <1>2, <1>3, <1>6 DEF NoThreadLost, Shape, Asleep, Unparks
<1> QED BY <1>4, <1>5, <1>7, <1>8 DEF Shape

(* Releasing the parker of the thread that was taken from the queue wakes  *)
(* it; the bucket lock is released with it.                                *)
LEMMA DeliverShape ==
  ASSUME TypeOK, Shape, NEW t \in Threads, Deliver(t)
  PROVE  Shape'
<1> USE QueueDomain
<1>1. /\ pc[t] = "deliver" /\ bucket' = Null /\ queue' = queue
      /\ pc' = [pc EXCEPT ![t] = "relock"] \/ pc' = [pc EXCEPT ![t] = "idle"]
  BY DEF Deliver, Goto
<1>2. bucket = t /\ \A u \in Threads : pc[u] \in {"callback", "deliver"} <=> u = t
  BY <1>1 DEF BucketInv, Shape, TypeOK
<1>3. \A u \in Threads : pc'[u] \notin {"callback", "deliver"}
  BY <1>1, <1>2 DEF TypeOK
<1>4. \A u \in Threads : u # target[t] => (Asleep(u)' <=> Asleep(u))
  BY <1>1 DEF Asleep, TypeOK, Deliver
<1>5. target[t] # Null => ~InQueue(target[t]) /\ target[t] \in Threads
  BY <1>1 DEF TargetInv, Shape, TypeOK
<1>6. BucketInv'
  BY <1>1, <1>3, RawMutexAssumption DEF BucketInv
<1>7. \A i \in 1 .. Len(queue) : queue[i] # target[t]
  BY <1>5, RawMutexAssumption DEF InQueue
<1>8. QueueInv'
  BY <1>1, <1>4, <1>7 DEF QueueInv, Shape, Asleep
<1>9. TargetInv'
  BY <1>3 DEF TargetInv
<1>10. NoThreadLost'
  <2>1. \A u \in Threads : Asleep(u) => InQueue(u) \/ u = target[t]
    BY <1>2 DEF NoThreadLost, Shape, Unparks, Asleep
  <2>2. \A u \in Threads : u = target[t] => ~Asleep(u)'
    BY RawMutexAssumption DEF Deliver, TypeOK, Asleep
  <2>3. \A u \in Threads : Asleep(u)' => InQueue(u)
    BY <1>4, <1>5, <2>1, <2>2, RawMutexAssumption DEF Asleep
  <2> QED BY <1>1, <2>3 DEF NoThreadLost, InQueue, Asleep
<1> QED BY <1>6, <1>8, <1>9, <1>10 DEF Shape

(* Every step keeps the shape: the steps of the lock functions that touch  *)
(* neither the queue nor the parkers by FrameShape, the others one by one. *)
LEMMA NextShape == TypeOK /\ Shape /\ [Next]_vars => Shape'
<1>1. ASSUME TypeOK, Shape, NEW t \in Threads, Step(t) PROVE Shape'
  <2> USE <1>1 DEF Goto
  <2>1. CASE Lock(t)
    BY <2>1, FrameShape DEF Lock, parking, unlocking, Labels, SleepLabels
  <2>2. CASE TryLock(t)
    BY <2>2, FrameShape DEF TryLock, parking, unlocking, Labels, SleepLabels
  <2>3. ASSUME NEW timeout \in Timeouts, LockSlow(t, timeout) PROVE Shape'
    BY <2>3, FrameShape DEF LockSlow, parking, unlocking, Labels, SleepLabels
  <2>4. CASE Grab(t)
    <3>1. pc' = [pc EXCEPT ![t] = "held"] \/ pc' = [pc EXCEPT ![t] = "lock_slow"]
      BY <2>4 DEF Grab, TypeOK
    <3> QED BY <2>4, <3>1, FrameShape DEF Grab, parking, unlocking, Labels, SleepLabels
  <2>5. CASE Spin(t)
    <3>1. pc' = [pc EXCEPT ![t] = "lock_slow"]
      BY <2>5 DEF Spin, TypeOK
    <3> QED BY <2>5, <3>1, FrameShape DEF Spin, parking, unlocking, Labels, SleepLabels
  <2>6. CASE SetParked(t)
    <3>1. pc' = [pc EXCEPT ![t] = "park"] \/ pc' = [pc EXCEPT ![t] = "lock_slow"]
      BY <2>6 DEF SetParked, TypeOK
    <3> QED BY <2>6, <3>1, FrameShape DEF SetParked, parking, unlocking, Labels, SleepLabels
  <2>7. CASE AlreadyParked(t)
    BY <2>7, FrameShape DEF AlreadyParked, parking, unlocking, Labels, SleepLabels
  <2>8. CASE Park(t)
    BY <2>8, ParkShape
  <2>9. CASE ParkInvalid(t)
    BY <2>9, FrameShape DEF ParkInvalid, parking, unlocking, Labels, SleepLabels
  <2>10. CASE Unparked(t)
    BY <2>10, WakeShape DEF Unparked, ParkReturns, parking, unlocking
  <2>11. CASE Expire(t)
    BY <2>11, WakeShape DEF Expire, parking, unlocking
  <2>12. CASE UnparkedLate(t)
    BY <2>12, WakeShape DEF UnparkedLate, ParkReturns, parking, unlocking
  <2>13. CASE TimedOut(t)
    BY <2>13, TimedOutShape
  <2>14. CASE Retry(t)
    BY <2>14, FrameShape DEF Retry, parking, unlocking, Labels, SleepLabels
  <2>15. CASE Unlock(t)
    BY <2>15, FrameShape DEF Unlock, parking, unlocking, Labels, SleepLabels
  <2>16. ASSUME NEW force_fair \in Fairness, UnlockSlow(t, force_fair) PROVE Shape'
    BY <2>16, FrameShape DEF UnlockSlow, parking, Labels, SleepLabels
  <2>17. CASE Bump(t)
    BY <2>17, FrameShape DEF Bump, parking, Labels, SleepLabels
  <2>18. CASE UnparkOne(t)
    BY <2>18, UnparkOneShape
  <2>19. CASE Callback(t)
    BY <2>19, CallbackShape
  <2>20. CASE Deliver(t)
    BY <2>20, DeliverShape
  <2> QED BY <2>1, <2>2, <2>3, <2>4, <2>5, <2>6, <2>7, <2>8, <2>9, <2>10, <2>11,
             <2>12, <2>13, <2>14, <2>15, <2>16, <2>17, <2>18, <2>19, <2>20
          DEF Step, LockStep, UnlockStep
<1>2. ASSUME TypeOK, Shape, UNCHANGED vars PROVE Shape'
  BY <1>2 DEF vars, Shape, BucketInv, QueueInv, TargetInv, NoThreadLost, Asleep,
              InQueue, Unparks
<1> QED BY <1>1, <1>2 DEF Next

(* No sleeping thread is ever lost: it is in the queue, or the thread that *)
(* holds the bucket lock is about to unpark it.  This is the debug_assert  *)
(* of park, which a timeout relies on to find its own entry.               *)
THEOREM RawMutexNoThreadLost == Spec => []NoThreadLost
<1>1. Init => TypeOK /\ Shape
  BY InitTypeOK, InitShape
<1>2. TypeOK /\ Shape /\ [Next]_vars => (TypeOK /\ Shape)'
  BY NextTypeOK, NextShape
<1>3. TypeOK /\ Shape => NoThreadLost
  BY DEF Shape
<1> QED BY <1>1, <1>2, <1>3, PTL DEF Spec

-----------------------------------------------------------------------------
(* Ownership *)

(* t was unparked with TOKEN_HANDOFF and has not returned from park yet. *)
HandedLocal(t) ==
  pc[t] \in {"parked", "expired"} /\ ~futex[t] /\ token[t] = TOKEN_HANDOFF

SameOwners == /\ LOCKED_BIT \in state' <=> LOCKED_BIT \in state
              /\ \A u \in Threads : Owns(u)' <=> Owns(u)

Acquires(t) == /\ LOCKED_BIT \notin state /\ LOCKED_BIT \in state'
               /\ \A u \in Threads : Owns(u)' <=> u = t

Releases(t) == /\ Owns(t) /\ LOCKED_BIT \notin state'
               /\ \A u \in Threads : ~Owns(u)'

HandsOver(t) == /\ Owns(t) /\ LOCKED_BIT \in state'
                /\ \E v \in Threads : Asleep(v) /\ \A u \in Threads : Owns(u)' <=> u = v

(* A step that leaves the handoffs as they are, outside the owner's labels. *)
LEMMA FrameOwners ==
  ASSUME \A u \in Threads : pc'[u] = "deliver" <=> pc[u] = "deliver",
         \A u \in Threads : pc[u] = "deliver" => target'[u] = target[u] /\ fair'[u] = fair[u],
         \A u \in Threads : HandedLocal(u)' <=> HandedLocal(u)
  PROVE  \A u \in Threads : HandedTo(u)' <=> HandedTo(u)
  BY DEF HandedTo, HandedLocal

(* A thread that takes the mutex while it is free becomes its only owner. *)
LEMMA AcquireOwners ==
  ASSUME TypeOK, Shape, MutualExclusion, NEW t \in Threads,
         LOCKED_BIT \notin state, LOCKED_BIT \in state',
         pc[t] \in {"idle", "relock", "lock_slow"},
         pc' = [pc EXCEPT ![t] = "held"],
         UNCHANGED <<parking, unlocking>>
  PROVE  Acquires(t)
<1>1. \A u \in Threads : HandedTo(u)' <=> HandedTo(u)
  <2>1. \A u \in Threads : pc'[u] = "deliver" <=> pc[u] = "deliver"
    BY DEF TypeOK
  <2>2. \A u \in Threads : HandedLocal(u)' <=> HandedLocal(u)
    BY DEF TypeOK, HandedLocal, parking
  <2> QED BY <2>1, <2>2, FrameOwners DEF unlocking
<1>2. \A u \in Threads : ~Owns(u)
  BY DEF MutualExclusion
<1>3. \A u \in Threads : Owns(u)' <=> u = t
  BY <1>1, <1>2 DEF Owns, TypeOK
<1> QED BY <1>3 DEF Acquires

(* The steps of lock_slow before and after its turn in the queue *)
LEMMA RunOwners ==
  ASSUME TypeOK, NEW t \in Threads, UNCHANGED <<token, unlocking>>,
         \A u \in Threads : u # t => futex'[u] = futex[u],
         LOCKED_BIT \in state' <=> LOCKED_BIT \in state,
         pc[t] \in {"idle", "relock", "lock_slow", "park", "retry"}
           \/ (pc[t] \in {"parked", "expired"} /\ ~HandedLocal(t)),
         NEW to \in {"idle", "relock", "lock_slow", "park", "retry", "expired", "parked"},
         pc' = [pc EXCEPT ![t] = to],
         ~HandedLocal(t)'
  PROVE  SameOwners
<1>1. \A u \in Threads : HandedTo(u)' <=> HandedTo(u)
  <2>1. \A u \in Threads : pc'[u] = "deliver" <=> pc[u] = "deliver"
    BY DEF TypeOK
  <2>2. \A u \in Threads : u # t => pc'[u] = pc[u]
    BY DEF TypeOK
  <2>3. ~HandedLocal(t)
    BY DEF HandedLocal
  <2>4. \A u \in Threads : HandedLocal(u)' <=> HandedLocal(u)
    BY <2>2, <2>3 DEF HandedLocal
  <2> QED BY <2>1, <2>4, FrameOwners DEF unlocking
<1>2. \A u \in Threads : pc'[u] \in {"held", "unlock_slow", "callback"}
                           <=> pc[u] \in {"held", "unlock_slow", "callback"}
  BY DEF TypeOK
<1> QED BY <1>1, <1>2 DEF SameOwners, Owns

(* A thread comes back from park, with the mutex if it was handed over. *)
LEMMA WakeOwners ==
  ASSUME TypeOK, Shape, NEW t \in Threads, Unparked(t) \/ UnparkedLate(t)
  PROVE  SameOwners
<1>1. /\ pc[t] \in {"parked", "expired"} /\ ~futex[t]
      /\ UNCHANGED <<state, bucket, queue, futex, token, unlocking>>
      /\ \/ token[t] = TOKEN_HANDOFF /\ pc' = [pc EXCEPT ![t] = "held"]
         \/ token[t] # TOKEN_HANDOFF /\ pc' = [pc EXCEPT ![t] = "retry"]
  BY DEF Unparked, UnparkedLate, ParkReturns, Goto, parking
<1>2. CASE token[t] = TOKEN_HANDOFF
  <2>1. pc' = [pc EXCEPT ![t] = "held"] BY <1>1, <1>2
  <2>2. Owns(t) /\ Owns(t)'
    BY <1>1, <1>2, <2>1 DEF Owns, HandedTo, TypeOK
  <2>3. \A u \in Threads : u # t => pc'[u] = pc[u]
    BY <2>1 DEF TypeOK
  <2>4. \A u \in Threads : pc'[u] = "deliver" <=> pc[u] = "deliver"
    BY <1>1, <2>1 DEF TypeOK
  <2>5. \A u \in Threads : u # t => (Owns(u)' <=> Owns(u))
    BY <1>1, <2>3, <2>4 DEF Owns, HandedTo, unlocking
  <2> QED BY <1>1, <2>2, <2>5 DEF SameOwners
<1>3. CASE token[t] # TOKEN_HANDOFF
  <2>1. pc' = [pc EXCEPT ![t] = "retry"] BY <1>1, <1>3
  <2>2. ~HandedLocal(t) BY <1>3 DEF HandedLocal
  <2>3. ~HandedLocal(t)' BY <2>1 DEF HandedLocal, TypeOK
  <2> QED BY <1>1, <2>1, <2>2, <2>3, RunOwners
<1> QED BY <1>2, <1>3

(* The callback frees the mutex or hands it to the thread it unparks. *)
LEMMA CallbackOwners ==
  ASSUME TypeOK, Shape, MutualExclusion, NEW t \in Threads, Callback(t)
  PROVE  Releases(t) \/ HandsOver(t)
<1>1. /\ pc[t] = "callback" /\ pc' = [pc EXCEPT ![t] = "deliver"]
      /\ UNCHANGED <<parking, unlocking>>
  BY DEF Callback, Goto
<1>2. Owns(t) BY <1>1 DEF Owns
<1>3. LOCKED_BIT \in state /\ \A u \in Threads : Owns(u) => u = t
  BY <1>2 DEF MutualExclusion
<1>4. \A u \in Threads : pc'[u] = "deliver" <=> u = t
  BY <1>1 DEF BucketInv, Shape, TypeOK
<1>5. \A u \in Threads : ~HandedLocal(u)'
  BY <1>1, <1>3 DEF HandedLocal, Owns, HandedTo, TypeOK, parking
<1>6. \A u \in Threads : pc'[u] \notin {"held", "unlock_slow", "callback"}
  BY <1>1, <1>3 DEF Owns, TypeOK
<1>7. \A u \in Threads : Owns(u)' <=> target[t] = u /\ fair[t]
  BY <1>1, <1>4, <1>5, <1>6 DEF Owns, HandedTo, HandedLocal, unlocking
<1>8. CASE HandsOff(t)
  <2>1. target[t] \in Threads /\ fair[t]
    BY <1>8 DEF HandsOff, TypeOK
  <2>2. LOCKED_BIT \in state'
    BY <1>3, <1>8 DEF Callback
  <2>3. \A u \in Threads : Owns(u)' <=> u = target[t]
    BY <1>7, <2>1
  <2>4. Asleep(target[t])
    BY <1>1, <2>1, RawMutexAssumption DEF TargetInv, Shape
  <2> QED BY <1>2, <2>1, <2>2, <2>3, <2>4 DEF HandsOver
<1>9. CASE ~HandsOff(t)
  <2>1. LOCKED_BIT \notin state'
    BY <1>9 DEF Callback, LOCKED_BIT, PARKED_BIT
  <2>2. \A u \in Threads : ~Owns(u)'
    BY <1>7, <1>9, RawMutexAssumption DEF HandsOff
  <2> QED BY <1>2, <2>1, <2>2 DEF Releases
<1> QED BY <1>8, <1>9

(* With its token the thread owns what it was handed by the callback. *)
LEMMA DeliverOwners ==
  ASSUME TypeOK, Shape, NEW t \in Threads, Deliver(t)
  PROVE  SameOwners
<1>1. /\ pc[t] = "deliver" /\ UNCHANGED state
      /\ pc' = [pc EXCEPT ![t] = "relock"] \/ pc' = [pc EXCEPT ![t] = "idle"]
  BY DEF Deliver, Goto
<1>2. \A u \in Threads : pc[u] \in {"callback", "deliver"} <=> u = t
  BY <1>1 DEF BucketInv, Shape
<1>3. \A u \in Threads : pc'[u] # "deliver"
  BY <1>1, <1>2 DEF TypeOK
<1>4. \A u \in Threads : u # t => pc'[u] = pc[u]
  BY <1>1 DEF TypeOK
<1>5. \A u \in Threads : HandedTo(u) <=> (target[t] = u /\ fair[t]) \/ HandedLocal(u)
  BY <1>1, <1>2 DEF HandedTo, HandedLocal
<1>6. \A u \in Threads : HandedTo(u)' <=> HandedLocal(u)'
  BY <1>3 DEF HandedTo, HandedLocal
<1>7. ASSUME NEW u \in Threads, u # target[t]
      PROVE  HandedLocal(u)' <=> HandedLocal(u)
  <2>1. futex'[u] = futex[u] /\ token'[u] = token[u]
    BY <1>7 DEF Deliver, TypeOK
  <2>2. u = t => ~HandedLocal(u) /\ ~HandedLocal(u)'
    BY <1>1 DEF HandedLocal, TypeOK
  <2> QED BY <1>4, <2>1, <2>2 DEF HandedLocal
<1>8. ASSUME NEW u \in Threads, u = target[t]
      PROVE  ~HandedLocal(u) /\ (HandedLocal(u)' <=> fair[t])
  <2>1. Asleep(u)
    BY <1>1, <1>8, RawMutexAssumption DEF TargetInv, Shape
  <2>2. u # t /\ pc'[u] = pc[u]
    BY <1>1, <1>4, <2>1 DEF Asleep
  <2>3. ~futex'[u] /\ token'[u] = IF HandsOff(t) THEN TOKEN_HANDOFF ELSE TOKEN_NORMAL
    BY <1>8, RawMutexAssumption DEF Deliver, TypeOK
  <2>4. HandsOff(t) <=> fair[t]
    BY <1>8, RawMutexAssumption DEF HandsOff
  <2> QED BY <2>1, <2>2, <2>3, <2>4 DEF HandedLocal, Asleep, TOKEN_HANDOFF, TOKEN_NORMAL
<1>9. \A u \in Threads : HandedTo(u)' <=> HandedTo(u)
  BY <1>5, <1>6, <1>7, <1>8
<1>10. \A u \in Threads : pc'[u] \in {"held", "unlock_slow", "callback"}
                            <=> pc[u] \in {"held", "unlock_slow", "callback"}
  BY <1>1 DEF TypeOK
<1> QED BY <1>1, <1>9, <1>10 DEF SameOwners, Owns

(* The owner's steps up to the callback keep it the owner. *)
LEMMA UnlockingOwners ==
  ASSUME TypeOK, NEW t \in Threads, UNCHANGED <<state, futex, token>>,
         pc[t] \in {"held", "unlock_slow"},
         pc' = [pc EXCEPT ![t] = "unlock_slow"] \/ pc' = [pc EXCEPT ![t] = "callback"],
         \A u \in Threads : u # t => target'[u] = target[u] /\ fair'[u] = fair[u]
  PROVE  SameOwners
<1>1. \A u \in Threads : pc'[u] = "deliver" <=> pc[u] = "deliver"
  BY DEF TypeOK
<1>2. \A u \in Threads : pc[u] = "deliver" => target'[u] = target[u] /\ fair'[u] = fair[u]
  OBVIOUS
<1>3. \A u \in Threads : HandedLocal(u)' <=> HandedLocal(u)
  <2>1. \A u \in Threads : u # t => pc'[u] = pc[u]
    BY DEF TypeOK
  <2>2. ~HandedLocal(t) /\ ~HandedLocal(t)'
    BY DEF HandedLocal, TypeOK
  <2> QED BY <2>1, <2>2 DEF HandedLocal
<1>4. \A u \in Threads : HandedTo(u)' <=> HandedTo(u)
  BY <1>1, <1>2, <1>3, FrameOwners
<1>5. \A u \in Threads : pc'[u] \in {"held", "unlock_slow", "callback"}
                           <=> pc[u] \in {"held", "unlock_slow", "callback"}
  BY DEF TypeOK
<1> QED BY <1>4, <1>5 DEF SameOwners, Owns

(* The fast unlock frees the mutex. *)
LEMMA UnlockOwners ==
  ASSUME TypeOK, Shape, MutualExclusion, NEW t \in Threads, Unlock(t)
  PROVE  Releases(t)
<1>1. /\ pc[t] = "held" /\ pc' = [pc EXCEPT ![t] = "idle"]
      /\ state' = {} /\ UNCHANGED <<parking, unlocking>>
  BY DEF Unlock, Goto
<1>2. Owns(t) BY <1>1 DEF Owns
<1>3. \A u \in Threads : Owns(u) => u = t
  BY <1>2 DEF MutualExclusion
<1>4. \A u \in Threads : pc'[u] = "deliver" <=> pc[u] = "deliver"
  BY <1>1 DEF TypeOK
<1>5. \A u \in Threads : HandedLocal(u)' <=> HandedLocal(u)
  BY <1>1 DEF HandedLocal, TypeOK, parking
<1>6. \A u \in Threads : HandedTo(u)' <=> HandedTo(u)
  BY <1>1, <1>4, <1>5, FrameOwners DEF unlocking
<1>7. \A u \in Threads : u # t => ~Owns(u)'
  BY <1>1, <1>3, <1>6 DEF Owns, TypeOK
<1>8. ~HandedTo(t)
  <2>1. ~HandedLocal(t) BY <1>1 DEF HandedLocal
  <2>2. ASSUME NEW u \in Threads, pc[u] = "deliver", target[u] = t, fair[u] PROVE FALSE
    BY <1>1, <2>2, RawMutexAssumption DEF TargetInv, Shape, Asleep
  <2> QED BY <2>1, <2>2 DEF HandedTo, HandedLocal
<1>9. ~Owns(t)'
  BY <1>1, <1>6, <1>8 DEF Owns, TypeOK
<1> QED BY <1>1, <1>2, <1>7, <1>9 DEF Releases

(* What a step does to the ownership of the mutex *)
LEMMA StepOwners ==
  ASSUME TypeOK, Shape, MutualExclusion, NEW t \in Threads, Step(t)
  PROVE  \/ SameOwners
         \/ Acquires(t) /\ pc[t] \in {"idle", "relock", "lock_slow"} /\ pc'[t] = "held"
         \/ Releases(t) /\ (Unlock(t) \/ Callback(t))
         \/ HandsOver(t) /\ Callback(t)
<1> USE DEF Goto
<1>1. CASE Lock(t)
  BY <1>1, AcquireOwners DEF Lock, LOCKED_BIT, TypeOK
<1>2. CASE TryLock(t)
  BY <1>2, AcquireOwners DEF TryLock, TypeOK
<1>3. ASSUME NEW timeout \in Timeouts, LockSlow(t, timeout) PROVE SameOwners
  BY <1>3, RunOwners DEF LockSlow, parking, HandedLocal, TypeOK
<1>4. CASE Grab(t)
  <2>1. CASE state = st[t]
    BY <1>4, <2>1, AcquireOwners DEF Grab, TypeOK
  <2>2. CASE state # st[t]
    <3>1. pc' = [pc EXCEPT ![t] = "lock_slow"]
      BY <1>4, <2>2 DEF Grab, TypeOK
    <3> QED BY <1>4, <2>2, <3>1, RunOwners DEF Grab, parking, HandedLocal, TypeOK
  <2> QED BY <2>1, <2>2
<1>5. CASE Spin(t)
  <2>1. pc' = [pc EXCEPT ![t] = "lock_slow"]
    BY <1>5 DEF Spin, TypeOK
  <2> QED BY <1>5, <2>1, RunOwners DEF Spin, parking, HandedLocal, TypeOK
<1>6. CASE SetParked(t)
  <2>1. pc' = [pc EXCEPT ![t] = "lock_slow"] \/ pc' = [pc EXCEPT ![t] = "park"]
    BY <1>6 DEF SetParked, TypeOK
  <2>2. LOCKED_BIT \in state' <=> LOCKED_BIT \in state
    BY <1>6 DEF SetParked, LOCKED_BIT, PARKED_BIT
  <2>3. ~HandedLocal(t)'
    BY <2>1 DEF HandedLocal, TypeOK
  <2>4. pc[t] = "lock_slow" /\ UNCHANGED <<token, futex, unlocking>>
    BY <1>6 DEF SetParked, parking
  <2>5. CASE pc' = [pc EXCEPT ![t] = "lock_slow"]
    BY <2>2, <2>3, <2>4, <2>5, RunOwners DEF HandedLocal
  <2>6. CASE pc' = [pc EXCEPT ![t] = "park"]
    BY <2>2, <2>3, <2>4, <2>6, RunOwners DEF HandedLocal
  <2> QED BY <2>1, <2>5, <2>6
<1>7. CASE AlreadyParked(t)
  BY <1>7, RunOwners DEF AlreadyParked, parking, HandedLocal, TypeOK
<1>8. CASE Park(t)
  BY <1>8, RunOwners DEF Park, HandedLocal, TypeOK
<1>9. CASE ParkInvalid(t)
  BY <1>9, RunOwners DEF ParkInvalid, parking, HandedLocal, TypeOK
<1>10. CASE Unparked(t) \/ UnparkedLate(t)
  BY <1>10, WakeOwners
<1>11. CASE Expire(t)
  BY <1>11, RunOwners DEF Expire, parking, HandedLocal, TypeOK
<1>12. CASE TimedOut(t)
  <2>1. LOCKED_BIT \in state' <=> LOCKED_BIT \in state
    BY <1>12 DEF TimedOut, LOCKED_BIT, PARKED_BIT
  <2> QED BY <1>12, <2>1, RunOwners DEF TimedOut, HandedLocal, TypeOK
<1>13. CASE Retry(t)
  BY <1>13, RunOwners DEF Retry, parking, HandedLocal, TypeOK
<1>14. CASE Unlock(t)
  BY <1>14, UnlockOwners
<1>15. ASSUME NEW force_fair \in Fairness, UnlockSlow(t, force_fair) PROVE SameOwners
  BY <1>15, UnlockingOwners DEF UnlockSlow, parking, TypeOK
<1>16. CASE Bump(t)
  BY <1>16, UnlockingOwners DEF Bump, parking, TypeOK
<1>17. CASE UnparkOne(t)
  <2>1. \A u \in Threads : u # t => target'[u] = target[u] /\ fair'[u] = fair[u]
    BY <1>17 DEF UnparkOne, TypeOK
  <2> QED BY <1>17, <2>1, UnlockingOwners DEF UnparkOne
<1>18. CASE Callback(t)
  BY <1>18, CallbackOwners
<1>19. CASE Deliver(t)
  BY <1>19, DeliverOwners
<1> QED BY <1>1, <1>2, <1>3, <1>4, <1>5, <1>6, <1>7, <1>8, <1>9, <1>10, <1>11, <1>12,
           <1>13, <1>14, <1>15, <1>16, <1>17, <1>18, <1>19
        DEF Step, LockStep, UnlockStep

(* Each of the four kinds of step keeps the mutex exclusive. *)
LEMMA NextMutualExclusion ==
  TypeOK /\ Shape /\ MutualExclusion /\ [Next]_vars => MutualExclusion'
<1>1. ASSUME TypeOK, Shape, MutualExclusion, NEW t \in Threads, Step(t)
      PROVE  MutualExclusion'
  <2>1. CASE SameOwners
    BY <1>1, <2>1 DEF SameOwners, MutualExclusion
  <2>2. CASE Acquires(t)
    BY <1>1, <2>2 DEF Acquires, MutualExclusion
  <2>3. CASE Releases(t)
    BY <1>1, <2>3 DEF Releases, MutualExclusion
  <2>4. CASE HandsOver(t)
    BY <1>1, <2>4 DEF HandsOver, MutualExclusion
  <2> QED BY <1>1, <2>1, <2>2, <2>3, <2>4, StepOwners
<1>2. ASSUME MutualExclusion, UNCHANGED vars PROVE MutualExclusion'
  BY <1>2 DEF vars, MutualExclusion, Owns, HandedTo
<1> QED BY <1>1, <1>2 DEF Next

(* The mutex is free and nobody owns it at the start. *)
LEMMA InitMutualExclusion == Init => MutualExclusion
  BY DEF Init, MutualExclusion, Owns, HandedTo

Safe == TypeOK /\ Shape /\ MutualExclusion

(* The invariant of the ownership layer *)
LEMMA InvariantSafe == Spec => []Safe
<1>1. Init => Safe
  BY InitTypeOK, InitShape, InitMutualExclusion DEF Safe
<1>2. Safe /\ [Next]_vars => Safe'
  BY NextTypeOK, NextShape, NextMutualExclusion DEF Safe
<1> QED BY <1>1, <1>2, PTL DEF Spec

(* The mutex never has two owners, and LOCKED_BIT is set exactly while it  *)
(* has one, whatever mix of barging, handoffs and timeouts the threads use.*)
THEOREM RawMutexMutualExclusion == Spec => []MutualExclusion
<1>1. Safe => MutualExclusion
  BY DEF Safe
<1> QED BY <1>1, InvariantSafe, PTL

(* A thread changes nobody else's label, and only its own target. *)
LEMMA StepLabels ==
  ASSUME TypeOK, NEW t \in Threads, Step(t)
  PROVE  \A u \in Threads : u # t => pc'[u] = pc[u] /\ target'[u] = target[u]
<1>1. \A u \in Threads : u # t => pc'[u] = pc[u]
  BY DEF Step, LockStep, UnlockStep, Lock, TryLock, LockSlow, Grab, Spin, SetParked,
         AlreadyParked, Park, ParkInvalid, Unparked, Expire, UnparkedLate, TimedOut,
         Retry, Unlock, UnlockSlow, Bump, UnparkOne, Callback, Deliver, ParkReturns,
         Goto, TypeOK
<1>2. \A u \in Threads : u # t => target'[u] = target[u]
  BY DEF Step, LockStep, UnlockStep, Lock, TryLock, LockSlow, Grab, Spin, SetParked,
         AlreadyParked, Park, ParkInvalid, Unparked, Expire, UnparkedLate, TimedOut,
         Retry, Unlock, UnlockSlow, Bump, UnparkOne, Callback, Deliver,
         unlocking, TypeOK
<1> QED BY <1>1, <1>2

-----------------------------------------------------------------------------
(* The mutex implements the abstract lock *)

OwnerMap ==
  /\ \A u \in Threads : Owns(u) <=> Owner = u
  /\ (\A u \in Threads : ~Owns(u)) => Owner = Null

(* The owner of the refinement mapping is the thread that owns the mutex. *)
LEMMA OwnerIs == MutualExclusion => OwnerMap
<1> SUFFICES ASSUME MutualExclusion PROVE OwnerMap
  OBVIOUS
<1>1. ASSUME NEW t \in Threads, Owns(t) PROVE Owner = t
  BY <1>1 DEF MutualExclusion, Owner
<1>2. ASSUME NEW t \in Threads, Owner = t PROVE Owns(t)
  BY <1>2, RawMutexAssumption DEF Owner
<1>3. (\A t \in Threads : ~Owns(t)) => Owner = Null
  BY DEF Owner
<1> QED BY <1>1, <1>2, <1>3 DEF OwnerMap

(* A thread outside of the lock functions, or done with its callback, does *)
(* not own the mutex.                                                      *)
LEMMA NotOwner ==
  ASSUME Shape, NEW t \in Threads, pc[t] \in {"idle", "deliver"}
  PROVE  ~Owns(t)
<1>1. ASSUME NEW u \in Threads, pc[u] = "deliver", target[u] = t PROVE FALSE
  BY <1>1, RawMutexAssumption DEF TargetInv, Shape, Asleep
<1> QED BY <1>1 DEF Owns, HandedTo

(* Steps that do not change the owner *)
LEMMA SameRefines ==
  ASSUME Safe, Safe', NEW t \in Threads, Step(t), SameOwners
  PROVE  [Abstract!Next]_<<Owner, Client>>
<1> USE DEF Safe
<1>1. Owner' = Owner
  <2>1. OwnerMap
    BY OwnerIs
  <2>2. OwnerMap'
    BY OwnerIs, PTL
  <2> QED BY <2>1, <2>2 DEF SameOwners, OwnerMap
<1>2. \A u \in Threads : u # t => pc'[u] = pc[u]
  BY StepLabels
<1>3. Client' = [Client EXCEPT ![t] = Client'[t]]
  BY <1>2 DEF Client
<1>4. Owns(t) <=> Owner = t
  BY OwnerIs DEF OwnerMap
<1>5. Owns(t)' <=> Owns(t)
  BY DEF SameOwners
<1>6. pc[t] \in {"idle", "deliver"} => Owner # t
  BY <1>4, NotOwner
<1>7. pc'[t] = "idle" => Owner # t
  <2>1. (pc[t] \in {"idle", "deliver"} => ~Owns(t))'
    BY NotOwner, PTL
  <2> QED BY <1>4, <1>5, <2>1
<1>8. pc'[t] = "held" => Owner = t
  BY <1>4, <1>5 DEF Owns
<1>9. CASE Client'[t] = Client[t]
  <2>1. Client' = Client BY <1>2, <1>9 DEF Client
  <2> QED BY <1>1, <2>1
<1>10. CASE pc[t] = "idle" /\ Client'[t] = "locking"
  <2>1. Client[t] = "out" BY <1>10 DEF Client
  <2> QED BY <1>1, <1>3, <1>10, <2>1 DEF Abstract!Next, Abstract!Request, Abstract!Moves
<1>11. CASE Client[t] = "locking" /\ pc'[t] = "held"
  <2>1. Client'[t] = "in" BY <1>11 DEF Client
  <2> QED BY <1>1, <1>3, <1>8, <1>11, <2>1 DEF Abstract!Next, Abstract!Receive, Abstract!Moves
<1>12. CASE Client[t] = "locking" /\ pc'[t] = "idle"
  <2>1. Client'[t] = "out" BY <1>12 DEF Client
  <2> QED BY <1>1, <1>3, <1>7, <1>12, <2>1 DEF Abstract!Next, Abstract!GiveUp, Abstract!Moves
<1>13. CASE pc[t] = "held" /\ Client'[t] = "unlocking"
  <2>1. Client[t] = "in" BY <1>13 DEF Client
  <2> QED BY <1>1, <1>3, <1>13, <2>1 DEF Abstract!Next, Abstract!StartUnlock, Abstract!Moves
<1>14. CASE pc[t] = "deliver" /\ pc'[t] \in {"idle", "relock"}
  <2>1. Client[t] = "unlocking" /\ (Client'[t] = "out" \/ Client'[t] = "locking")
    BY <1>14 DEF Client
  <2> QED BY <1>1, <1>3, <1>6, <1>14, <2>1 DEF Abstract!Next, Abstract!EndUnlock, Abstract!Moves
<1>15. ~(pc[t] = "idle" /\ pc'[t] = "held") /\ ~(pc[t] = "held" /\ pc'[t] = "idle")
  BY <1>4, <1>5, <1>6, <1>7, <1>8 DEF Owns
<1>16. \/ pc[t] = "idle" /\ pc'[t] \in {"held", "lock_slow"}
       \/ pc[t] \in {"relock", "lock_slow", "park", "parked", "expired", "retry"}
          /\ pc'[t] \in {"idle", "held", "relock", "lock_slow", "park", "parked", "expired", "retry"}
       \/ pc[t] = "held" /\ pc'[t] \in {"idle", "unlock_slow"}
       \/ pc[t] \in {"unlock_slow", "callback"} /\ pc'[t] \in {"callback", "deliver"}
       \/ pc[t] = "deliver" /\ pc'[t] \in {"idle", "relock"}
  BY DEF Step, LockStep, UnlockStep, Lock, TryLock, LockSlow, Grab, Spin, SetParked,
         AlreadyParked, Park, ParkInvalid, Unparked, Expire, UnparkedLate, TimedOut,
         Retry, Unlock, UnlockSlow, Bump, UnparkOne, Callback, Deliver, ParkReturns,
         Goto, TypeOK
<1>17. \/ Client'[t] = Client[t]
       \/ pc[t] = "idle" /\ Client'[t] = "locking"
       \/ Client[t] = "locking" /\ pc'[t] = "held"
       \/ Client[t] = "locking" /\ pc'[t] = "idle"
       \/ pc[t] = "held" /\ Client'[t] = "unlocking"
       \/ pc[t] = "deliver" /\ pc'[t] \in {"idle", "relock"}
  BY <1>15, <1>16 DEF Client
<1> QED BY <1>9, <1>10, <1>11, <1>12, <1>13, <1>14, <1>17

(* Taking the mutex is an Acquire, freeing it a Release, handing it over a *)
(* HandOff.                                                                *)
LEMMA StepRefines ==
  ASSUME Safe, Safe', NEW t \in Threads, Step(t)
  PROVE  [Abstract!Next]_<<Owner, Client>>
<1> USE DEF Safe
<1>1. OwnerMap
  BY OwnerIs
<1>2. OwnerMap'
  BY OwnerIs, PTL
<1>3. \A u \in Threads : u # t => pc'[u] = pc[u]
  BY StepLabels
<1>4. Client' = [Client EXCEPT ![t] = Client'[t]]
  BY <1>3 DEF Client
<1>5. CASE SameOwners
  BY <1>5, SameRefines
<1>6. CASE Acquires(t) /\ pc[t] \in {"idle", "relock", "lock_slow"} /\ pc'[t] = "held"
  <2>1. Owner = Null /\ Owner' = t
    BY <1>1, <1>2, <1>6 DEF Acquires, MutualExclusion, OwnerMap
  <2>2. Client[t] \in {"out", "locking"} /\ Client'[t] = "in"
    BY <1>6 DEF Client
  <2> QED BY <1>4, <2>1, <2>2 DEF Abstract!Next, Abstract!Acquire, Abstract!Moves
<1>7. CASE Releases(t) /\ (Unlock(t) \/ Callback(t))
  <2>1. Owner = t /\ Owner' = Null
    BY <1>1, <1>2, <1>7 DEF Releases, OwnerMap
  <2>2. /\ Client[t] \in {"in", "unlocking"}
        /\ Client'[t] = "out" \/ Client'[t] = "unlocking"
    BY <1>7 DEF Unlock, Callback, Goto, Client, TypeOK
  <2> QED BY <1>4, <2>1, <2>2 DEF Abstract!Next, Abstract!Release, Abstract!Moves
<1>8. CASE HandsOver(t) /\ Callback(t)
  <2>1. PICK v \in Threads : Asleep(v) /\ Owns(v)'
    BY <1>8 DEF HandsOver
  <2>2. Owner = t /\ Owner' = v
    BY <1>1, <1>2, <1>8, <2>1 DEF HandsOver, OwnerMap
  <2>3. Client[t] = "unlocking" /\ Client'[t] = "unlocking" /\ Client[v] = "locking"
    BY <1>8, <2>1 DEF Callback, Goto, Client, TypeOK, Asleep
  <2>4. Client' = Client
    BY <1>3, <2>3 DEF Client
  <2> QED BY <2>2, <2>3, <2>4 DEF Abstract!Next, Abstract!HandOff
<1> QED BY <1>5, <1>6, <1>7, <1>8, StepOwners

(* The mutex implements the abstract lock for any set of threads: it is    *)
(* granted only while it is free, given up or handed over only by its      *)
(* owner, to a thread that still waits, and a lock that times out never    *)
(* had the mutex handed to it.                                             *)
THEOREM RawMutexImplementsLock == Spec => ImplementsLock
<1>1. Init => Abstract!Init
  BY DEF Init, Abstract!Init, Owner, Owns, HandedTo, Client
<1>2. Safe /\ Safe' /\ [Next]_vars => [Abstract!Next]_<<Owner, Client>>
  <2>1. ASSUME Safe, Safe', NEW t \in Threads, Step(t)
        PROVE  [Abstract!Next]_<<Owner, Client>>
    BY <2>1, StepRefines
  <2>2. ASSUME UNCHANGED vars PROVE UNCHANGED <<Owner, Client>>
    BY <2>2 DEF vars, Owner, Owns, HandedTo, Client
  <2> QED BY <2>1, <2>2 DEF Next
<1> QED BY <1>1, <1>2, InvariantSafe, PTL DEF Spec, ImplementsLock, Abstract!Spec

-----------------------------------------------------------------------------
(* The parked bit *)

(* A free mutex with the parked bit set has threads in its queue. *)
FreeInv == state = {PARKED_BIT} => queue # <<>>

ParkedInv ==
  /\ ParkedBitCoversQueue
  /\ FreeInv
  /\ ParkedBitIsWanted
  /\ NoLostWakeup

(* Only four steps change the queue and the state together or matter to    *)
(* the parked bit; every other step either sets LOCKED_BIT or leaves both  *)
(* the state and the queue alone.                                          *)
LEMMA StepState ==
  ASSUME TypeOK, NEW t \in Threads, Step(t)
  PROVE  \/ Park(t) \/ TimedOut(t) \/ Unlock(t) \/ UnparkOne(t) \/ Callback(t) \/ SetParked(t)
         \/ /\ queue' = queue
            /\ state' = state \/ (LOCKED_BIT \in state' /\ state' = state \cup {LOCKED_BIT})
  BY DEF Step, LockStep, UnlockStep, Lock, TryLock, LockSlow, Grab, Spin,
         AlreadyParked, ParkInvalid, Unparked, Expire, UnparkedLate, Retry,
         UnlockSlow, Bump, Deliver, parking, LOCKED_BIT

(* The queue after the removal of an entry is shorter. *)
LEMMA TimedOutQueue ==
  ASSUME TypeOK, NEW t \in Threads, TimedOut(t)
  PROVE  queue # <<>> /\ queue' \in Seq(Threads)
  BY RemoveEntries, EmptySeq DEF TimedOut, TypeOK

(* Whoever leaves the queue last takes the bit with it, or finds it kept   *)
(* by the callback that knows that threads remain.                         *)
LEMMA StepCovers ==
  ASSUME TypeOK, Shape, ParkedBitCoversQueue, NEW t \in Threads, Step(t)
  PROVE  ParkedBitCoversQueue'
<1>1. CASE Park(t)
  BY <1>1 DEF Park, ParkedBitCoversQueue, Bits
<1>2. CASE TimedOut(t)
  BY <1>2, TimedOutQueue DEF TimedOut, ParkedBitCoversQueue
<1>3. CASE Unlock(t)
  BY <1>3 DEF Unlock, ParkedBitCoversQueue, parking, LOCKED_BIT, PARKED_BIT
<1>4. CASE UnparkOne(t)
  BY <1>4 DEF UnparkOne, ParkedBitCoversQueue
<1>5. CASE Callback(t)
  <2>1. more[t] <=> queue # <<>>
    BY <1>5 DEF Callback, Goto, TargetInv, Shape
  <2>2. queue' = queue
    BY <1>5 DEF Callback, parking
  <2> QED BY <1>5, <2>1, <2>2 DEF Callback, ParkedBitCoversQueue
<1>6. CASE SetParked(t)
  BY <1>6 DEF SetParked, ParkedBitCoversQueue, parking
<1>7. CASE queue' = queue /\ (state' = state \/ state' = state \cup {LOCKED_BIT})
  BY <1>7 DEF ParkedBitCoversQueue
<1> QED BY <1>1, <1>2, <1>3, <1>4, <1>5, <1>6, <1>7, StepState

(* Only an unfair unlock that leaves threads in the queue frees the mutex  *)
(* with the bit set, and the last of them to time out clears it.           *)
LEMMA StepFree ==
  ASSUME Safe, FreeInv, NEW t \in Threads, Step(t)
  PROVE  FreeInv'
<1> USE DEF Safe
<1>1. CASE Park(t)
  BY <1>1 DEF Park, FreeInv, Bits, LOCKED_BIT, PARKED_BIT
<1>2. CASE TimedOut(t)
  BY <1>2 DEF TimedOut, FreeInv, PARKED_BIT
<1>3. CASE Unlock(t)
  BY <1>3 DEF Unlock, FreeInv
<1>4. CASE UnparkOne(t)
  <2>1. Owns(t) /\ state' = state
    BY <1>4 DEF UnparkOne, Goto, Owns
  <2>2. LOCKED_BIT \in state'
    BY <2>1 DEF MutualExclusion
  <2> QED BY <2>2 DEF FreeInv, LOCKED_BIT, PARKED_BIT
<1>5. CASE Callback(t)
  <2>1. more[t] <=> queue # <<>>
    BY <1>5 DEF Callback, Goto, TargetInv, Shape
  <2>2. queue' = queue
    BY <1>5 DEF Callback, parking
  <2>3. LOCKED_BIT \in state
    BY <1>5 DEF Callback, Goto, Owns, MutualExclusion
  <2> QED BY <1>5, <2>1, <2>2, <2>3 DEF Callback, FreeInv, LOCKED_BIT, PARKED_BIT
<1>6. CASE SetParked(t)
  BY <1>6 DEF SetParked, FreeInv, parking, LOCKED_BIT, PARKED_BIT
<1>7. CASE queue' = queue /\ (state' = state \/ LOCKED_BIT \in state')
  BY <1>7 DEF FreeInv, LOCKED_BIT, PARKED_BIT
<1> QED BY <1>1, <1>2, <1>3, <1>4, <1>5, <1>6, <1>7, StepState

(* The first entry of a queue is a thread of the queue. *)
LEMMA FirstInQueue ==
  ASSUME TypeOK, queue # <<>>
  PROVE  \E w \in Threads : InQueue(w)
<1>1. 1 \in DOMAIN queue /\ queue[1] \in Threads
  BY TailEntries, QueueDomain DEF TypeOK
<1> QED BY <1>1 DEF InQueue

(* A thread that neither parks nor runs a callback leaves the reasons for  *)
(* the parked bit as they are.                                             *)
LEMMA FrameWanted ==
  ASSUME TypeOK, ParkedBitIsWanted, PARKED_BIT \in state, queue' = queue,
         NEW t \in Threads, pc[t] \notin {"park", "callback"},
         \A u \in Threads : u # t => pc'[u] = pc[u] /\ target'[u] = target[u]
  PROVE  ParkedBitIsWanted'
<1>1. PICK w \in Threads : \/ InQueue(w)
                           \/ pc[w] = "park"
                           \/ \E u \in Threads : pc[u] = "callback" /\ target[u] = w
  BY DEF ParkedBitIsWanted
<1>2. CASE InQueue(w)
  BY <1>2 DEF ParkedBitIsWanted, InQueue
<1>3. CASE pc[w] = "park"
  BY <1>3 DEF ParkedBitIsWanted
<1>4. CASE \E u \in Threads : pc[u] = "callback" /\ target[u] = w
  BY <1>4 DEF ParkedBitIsWanted
<1> QED BY <1>1, <1>2, <1>3, <1>4

(* The parked bit keeps a reason. *)
LEMMA StepWanted ==
  ASSUME Safe, TypeOK', FreeInv, ParkedBitIsWanted, NEW t \in Threads, Step(t)
  PROVE  ParkedBitIsWanted'
<1> USE DEF Safe
<1>1. (queue # <<>>)' => ParkedBitIsWanted'
  <2>1. (queue # <<>> => \E w \in Threads : InQueue(w))'
    BY FirstInQueue, PTL
  <2> QED BY <2>1 DEF ParkedBitIsWanted
<1>2. \A u \in Threads : u # t => pc'[u] = pc[u] /\ target'[u] = target[u]
  BY StepLabels
<1>3. CASE Park(t)
  <2>1. queue' \in Seq(Threads) /\ Len(queue') = Len(queue) + 1 /\ Len(queue) \in Nat
    BY <1>3, AppendEntry DEF Park, TypeOK
  <2>2. queue' # <<>>
    BY <2>1, EmptySeq
  <2> QED BY <1>1, <2>2
<1>4. CASE TimedOut(t)
  BY <1>1, <1>4 DEF TimedOut, ParkedBitIsWanted
<1>5. CASE Unlock(t)
  BY <1>5 DEF Unlock, ParkedBitIsWanted
<1>6. CASE UnparkOne(t) /\ queue = <<>>
  <2>1. pc[t] = "unlock_slow" /\ queue' = queue /\ state' = state
    BY <1>6 DEF UnparkOne, Goto
  <2>2. CASE PARKED_BIT \in state
    BY <1>2, <2>1, <2>2, FrameWanted
  <2> QED BY <2>1, <2>2 DEF ParkedBitIsWanted
<1>7. CASE UnparkOne(t) /\ queue # <<>>
  <2>1. pc'[t] = "callback"
    BY <1>7 DEF UnparkOne, Goto, TypeOK
  <2>2. target' = [target EXCEPT ![t] = Head(queue)]
    BY <1>7 DEF UnparkOne
  <2>3. target'[t] = Head(queue)
    BY <2>2 DEF TypeOK
  <2>4. Head(queue) \in Threads
    BY <1>7, TailEntries DEF TypeOK
  <2> QED BY <2>1, <2>3, <2>4 DEF ParkedBitIsWanted
<1>8. CASE Callback(t)
  <2>1. more[t] <=> queue # <<>>
    BY <1>8 DEF Callback, Goto, TargetInv, Shape
  <2>2. PARKED_BIT \in state' => queue' # <<>>
    BY <1>8, <2>1 DEF Callback, parking, LOCKED_BIT, PARKED_BIT
  <2> QED BY <1>1, <2>2 DEF ParkedBitIsWanted
<1>9. CASE SetParked(t)
  <2>1. CASE state = st[t]
    BY <1>9, <2>1 DEF SetParked, Goto, ParkedBitIsWanted, TypeOK
  <2>2. CASE state # st[t]
    <3>1. pc[t] = "lock_slow" /\ queue' = queue /\ state' = state
      BY <1>9, <2>2 DEF SetParked, parking
    <3> QED BY <1>2, <3>1, FrameWanted DEF ParkedBitIsWanted
  <2> QED BY <2>1, <2>2
<1>10. CASE ParkInvalid(t)
  <2>1. state' = state /\ queue' = queue /\ state # Bits
    BY <1>10 DEF ParkInvalid, parking
  <2>2. PARKED_BIT \in state => state = {PARKED_BIT}
    BY <2>1 DEF TypeOK, Bits
  <2> QED BY <1>1, <2>1, <2>2 DEF FreeInv, ParkedBitIsWanted
<1>11. CASE /\ pc[t] \notin {"park", "callback"} /\ queue' = queue
            /\ state' = state \/ state' = state \cup {LOCKED_BIT}
  <2>1. PARKED_BIT \in state' => PARKED_BIT \in state
    BY <1>11 DEF LOCKED_BIT, PARKED_BIT
  <2> QED BY <1>2, <1>11, <2>1, FrameWanted DEF ParkedBitIsWanted
<1>12. pc[t] = "park" => Park(t) \/ ParkInvalid(t)
  BY DEF Step, LockStep, UnlockStep, Lock, TryLock, LockSlow, Grab, Spin, SetParked,
         AlreadyParked, Unparked, Expire, UnparkedLate, TimedOut, Retry, Unlock,
         UnlockSlow, Bump, UnparkOne, Callback, Deliver, ParkReturns, Goto
<1>13. pc[t] = "callback" => Callback(t)
  BY DEF Step, LockStep, UnlockStep, Lock, TryLock, LockSlow, Grab, Spin, SetParked,
         AlreadyParked, Park, ParkInvalid, Unparked, Expire, UnparkedLate, TimedOut,
         Retry, Unlock, UnlockSlow, Bump, UnparkOne, Deliver, ParkReturns, Goto
<1> QED BY <1>3, <1>4, <1>5, <1>6, <1>7, <1>8, <1>9, <1>10, <1>11, <1>12, <1>13, StepState

(* While the mutex stays free with the bit set, a thread that runs         *)
(* lock_slow stays in it, and the thread that was woken comes back to it.  *)
LEMMA ContenderStays ==
  ASSUME TypeOK, NEW t \in Threads, Step(t), state = {PARKED_BIT}, state' = {PARKED_BIT}
  PROVE  /\ pc[t] \in {"relock", "lock_slow", "park", "retry"} =>
              pc'[t] \in {"relock", "lock_slow", "park", "retry"}
         /\ pc[t] \in {"parked", "expired"} /\ ~futex[t] /\ token[t] # TOKEN_HANDOFF =>
              pc'[t] = "retry"
<1>1. ~Lock(t) /\ ~TryLock(t) /\ ~Park(t) /\ ~Unlock(t)
  <2>1. LOCKED_BIT \notin {PARKED_BIT} /\ PARKED_BIT \in {PARKED_BIT} /\ LOCKED_BIT \in Bits
    BY DEF Bits, LOCKED_BIT, PARKED_BIT
  <2>2. LOCKED_BIT \in {LOCKED_BIT} /\ LOCKED_BIT \in state \cup {LOCKED_BIT}
    OBVIOUS
  <2>3. ~Lock(t) /\ ~TryLock(t)
    BY <2>1, <2>2 DEF Lock, TryLock
  <2>4. ~Park(t) /\ ~Unlock(t)
    BY <2>1 DEF Park, Unlock
  <2> QED BY <2>3, <2>4
<1>2. Grab(t) => pc' = pc
  <2>1. ~(state' = state \cup {LOCKED_BIT})
    BY DEF LOCKED_BIT, PARKED_BIT
  <2> QED BY <2>1 DEF Grab
<1>3. pc[t] \in {"relock", "lock_slow", "park", "retry"} =>
        pc'[t] \in {"relock", "lock_slow", "park", "retry"}
  BY <1>1, <1>2
     DEF Step, LockStep, UnlockStep, LockSlow, Spin, SetParked, AlreadyParked,
         ParkInvalid, Unparked, Expire, UnparkedLate, TimedOut, Retry,
         UnlockSlow, Bump, UnparkOne, Callback, Deliver, ParkReturns, Goto, TypeOK
<1>4. pc[t] \in {"parked", "expired"} /\ ~futex[t] /\ token[t] # TOKEN_HANDOFF =>
        pc'[t] = "retry"
  BY <1>1, <1>2
     DEF Step, LockStep, UnlockStep, LockSlow, Grab, Spin, SetParked, AlreadyParked,
         ParkInvalid, Unparked, Expire, UnparkedLate, TimedOut, Retry,
         UnlockSlow, Bump, UnparkOne, Callback, Deliver, ParkReturns, Goto, TypeOK
<1> QED BY <1>3, <1>4

(* Parkers are armed by their own thread and let go by an unpark. *)
LEMMA StepFutex ==
  ASSUME TypeOK, NEW t \in Threads, Step(t)
  PROVE  \A u \in Threads : u # t /\ ~futex[u] => ~futex'[u]
<1>1. CASE Park(t)
  BY <1>1 DEF Park, TypeOK
<1>2. CASE Deliver(t)
  BY <1>2 DEF Deliver, TypeOK
<1>3. CASE LockStep(t) /\ ~Park(t)
  <2>1. UNCHANGED futex
    BY <1>3 DEF LockStep, Lock, TryLock, LockSlow, Grab, Spin, SetParked,
                AlreadyParked, ParkInvalid, Unparked, Expire, UnparkedLate, TimedOut,
                Retry, parking
  <2> QED BY <2>1
<1>4. CASE UnlockStep(t) /\ ~Deliver(t)
  <2>1. UNCHANGED futex
    BY <1>4 DEF UnlockStep, Unlock, UnlockSlow, Bump, UnparkOne, Callback, parking
  <2> QED BY <2>1
<1> QED BY <1>1, <1>2, <1>3, <1>4 DEF Step

(* The only step that frees the mutex with the bit set is a callback. *)
LEMMA FreedByCallback ==
  ASSUME Safe, NEW t \in Threads, Step(t), state' = {PARKED_BIT}
  PROVE  Callback(t) \/ state = {PARKED_BIT}
<1> USE DEF Safe
<1>1. ~Park(t) /\ ~Unlock(t)
  <2>1. LOCKED_BIT \notin {PARKED_BIT} /\ PARKED_BIT \in {PARKED_BIT} /\ LOCKED_BIT \in Bits
    BY DEF Bits, LOCKED_BIT, PARKED_BIT
  <2> QED BY <2>1 DEF Park, Unlock
<1>2. TimedOut(t) => state = {PARKED_BIT}
  BY DEF TimedOut
<1>3. ~UnparkOne(t)
  <2>1. UnparkOne(t) => Owns(t) /\ state' = state
    BY DEF UnparkOne, Goto, Owns
  <2> QED BY <2>1 DEF MutualExclusion, LOCKED_BIT, PARKED_BIT
<1>4. SetParked(t) => state = {PARKED_BIT}
  <2>1. ASSUME SetParked(t), state = st[t] PROVE FALSE
    <3>1. LOCKED_BIT \in state /\ state' = state \cup {PARKED_BIT}
      BY <2>1 DEF SetParked
    <3> QED BY <3>1 DEF LOCKED_BIT, PARKED_BIT
  <2>2. ASSUME SetParked(t), state # st[t] PROVE state' = state
    BY <2>2 DEF SetParked
  <2> QED BY <2>1, <2>2
<1> QED BY <1>1, <1>2, <1>3, <1>4, StepState DEF LOCKED_BIT, PARKED_BIT

(* The free mutex with the bit set keeps a contender. *)
LEMMA StepWakeup ==
  ASSUME Safe, NoLostWakeup, NEW t \in Threads, Step(t)
  PROVE  NoLostWakeup'
<1> USE DEF Safe
<1> SUFFICES ASSUME state' = {PARKED_BIT}
             PROVE  (\E w \in Threads : Contends(w))'
  BY DEF NoLostWakeup
<1>1. CASE Callback(t)
  <2>1. more[t]
    <3>1. LOCKED_BIT \in state
      BY <1>1 DEF Callback, Goto, Owns, MutualExclusion
    <3> QED BY <1>1, <3>1 DEF Callback, LOCKED_BIT, PARKED_BIT
  <2>2. target[t] \in Threads
    BY <1>1, <2>1 DEF Callback, Goto, TargetInv, Shape, TypeOK
  <2>3. pc'[t] = "deliver" /\ target' = target
    BY <1>1 DEF Callback, Goto, TypeOK, unlocking
  <2>4. (\E u \in Threads : Unparks(u, target[t]))'
    BY <2>3 DEF Unparks
  <2> QED BY <2>2, <2>3, <2>4 DEF Contends
<1>2. CASE state = {PARKED_BIT}
  <2>1. \A u \in Threads : ~Owns(u)
    BY <1>2 DEF MutualExclusion, LOCKED_BIT, PARKED_BIT
  <2>2. \A u \in Threads : u # t => pc'[u] = pc[u] /\ target'[u] = target[u]
    BY StepLabels
  <2>3. PICK w \in Threads : Contends(w)
    BY <1>2 DEF NoLostWakeup
  <2>4. CASE pc[w] \in {"relock", "lock_slow", "park", "retry"}
    <3>1. pc'[w] \in {"relock", "lock_slow", "park", "retry"}
      BY <1>2, <2>2, <2>4, ContenderStays
    <3> QED BY <3>1 DEF Contends
  <2>5. CASE pc[w] \in {"parked", "expired"} /\ ~futex[w]
    <3>1. token[w] # TOKEN_HANDOFF
      BY <2>1, <2>5 DEF Owns, HandedTo
    <3>2. CASE w = t
      <4>1. pc'[w] = "retry"
        BY <1>2, <2>5, <3>1, <3>2, ContenderStays
      <4> QED BY <4>1 DEF Contends
    <3>3. CASE w # t
      <4>1. pc'[w] \in {"parked", "expired"} /\ ~futex'[w]
        BY <2>2, <2>5, <3>3, StepFutex
      <4> QED BY <4>1 DEF Contends
    <3> QED BY <3>2, <3>3
  <2>6. CASE \E u \in Threads : Unparks(u, w)
    <3>1. PICK u \in Threads : Unparks(u, w)
      BY <2>6
    <3>2. CASE u # t
      <4>1. Unparks(u, w)'
        BY <2>2, <3>1, <3>2 DEF Unparks
      <4> QED BY <4>1 DEF Contends
    <3>3. CASE u = t
      <4>1. pc[t] = "deliver" /\ target[t] = w
        BY <2>1, <3>1, <3>3 DEF Unparks, Owns
      <4>2. Deliver(t)
        BY <4>1
           DEF Step, LockStep, UnlockStep, Lock, TryLock, LockSlow, Grab, Spin,
               SetParked, AlreadyParked, Park, ParkInvalid, Unparked, Expire,
               UnparkedLate, TimedOut, Retry, Unlock, UnlockSlow, Bump, UnparkOne,
               Callback, ParkReturns, Goto
      <4>3. Asleep(w)
        BY <4>1, RawMutexAssumption DEF TargetInv, Shape
      <4>4. w # t
        BY <4>1, <4>3 DEF Asleep
      <4>5. pc'[w] \in {"parked", "expired"} /\ ~futex'[w]
        BY <2>2, <4>1, <4>2, <4>3, <4>4, RawMutexAssumption DEF Deliver, Asleep, TypeOK
      <4> QED BY <4>5 DEF Contends
    <3> QED BY <3>2, <3>3
  <2> QED BY <2>3, <2>4, <2>5, <2>6 DEF Contends
<1> QED BY <1>1, <1>2, FreedByCallback

(* The parked bit is right in every reachable state. *)
LEMMA InvariantParked == Spec => []ParkedInv
<1>1. Init => ParkedInv
  BY DEF Init, ParkedInv, ParkedBitCoversQueue, FreeInv, ParkedBitIsWanted, NoLostWakeup
<1>2. Safe /\ Safe' /\ ParkedInv /\ [Next]_vars => ParkedInv'
  <2>1. ASSUME Safe, Safe', ParkedInv, NEW t \in Threads, Step(t) PROVE ParkedInv'
    BY <2>1, StepCovers, StepFree, StepWanted, StepWakeup DEF Safe, ParkedInv
  <2>2. ASSUME ParkedInv, UNCHANGED vars PROVE ParkedInv'
    BY <2>2 DEF vars, ParkedInv, ParkedBitCoversQueue, FreeInv, ParkedBitIsWanted,
                NoLostWakeup, InQueue, Contends, Unparks
  <2> QED BY <2>1, <2>2 DEF Next
<1> QED BY <1>1, <1>2, InvariantSafe, PTL DEF Spec

(* There are never parked threads while PARKED_BIT is clear. *)
THEOREM RawMutexParkedBitCoversQueue == Spec => []ParkedBitCoversQueue
<1>1. ParkedInv => ParkedBitCoversQueue
  BY DEF ParkedInv
<1> QED BY <1>1, InvariantParked, PTL

(* PARKED_BIT is never left set without a thread that waits or is about to.*)
THEOREM RawMutexParkedBitIsWanted == Spec => []ParkedBitIsWanted
<1>1. ParkedInv => ParkedBitIsWanted
  BY DEF ParkedInv
<1> QED BY <1>1, InvariantParked, PTL

(* A free mutex with parked threads always has a thread on its way to take *)
(* it, which will wake the next one: no wakeup is lost.                    *)
THEOREM RawMutexNoLostWakeup == Spec => []NoLostWakeup
<1>1. ParkedInv => NoLostWakeup
  BY DEF ParkedInv
<1> QED BY <1>1, InvariantParked, PTL

=============================================================================
