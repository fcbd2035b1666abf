------------------------- MODULE ThreadParkerProofs -------------------------
(***************************************************************************)
(* Proofs about ThreadParker, for every parker and any set of threads that *)
(* unpark it: park returns exactly when the thread was unparked or timed   *)
(* out, and never while somebody uses its parker.                          *)
(***************************************************************************)
EXTENDS ThreadParker, TLAPS

USE DEF UNPARKED, PARKED, TIMED_OUT

Labels == {"idle", "park", "wait", "asleep", "woken", "check", "swap", "expired",
           "timed_out", "returns"}

Families == {"flag", "pthread", "keyed"}

TypeOK ==
  /\ imp.family \in Families
  /\ word \in {UNPARKED, PARKED, TIMED_OUT}
  /\ queued \in BOOLEAN
  /\ bucket \in Unparkers \cup {Parker, Null}
  /\ mutex \in Unparkers \cup {Parker, Null}
  /\ pc \in Labels
  /\ unparker \in [Unparkers -> {"idle", "unpark_lock", "unpark"}]

(* Who holds the lock of the bucket, and who uses the parker: nobody while *)
(* the thread is queued, and one thread at most otherwise.                 *)
Owners ==
  /\ bucket = Parker <=> pc = "timed_out"
  /\ \A u \in Unparkers : bucket = u <=> unparker[u] = "unpark_lock"
  /\ queued => InPark /\ \A u \in Unparkers : ~UsesParker(u)
  /\ \A u \in Unparkers : UsesParker(u) => InPark /\ \A v \in Unparkers : UsesParker(v) => u = v

(* The flag says that the thread was unparked, from unpark_lock on. *)
FlagInv ==
  Is("flag") =>
    /\ word # TIMED_OUT
    /\ InPark => (word = UNPARKED <=> ~queued /\ \A u \in Unparkers : unparker[u] # "unpark_lock")

(* should_park says so from unpark on, which unlocks the mutex. *)
UnixInv ==
  Is("pthread") =>
    /\ word # TIMED_OUT
    /\ mutex = Parker <=> pc = "check"
    /\ \A u \in Unparkers : mutex = u <=> unparker[u] = "unpark"
    /\ InPark => (word = UNPARKED <=> ~queued /\ \A u \in Unparkers : unparker[u] = "idle")

(* The key says which of the two came first, the timeout or unpark_lock.   *)
(* A thread that was second waits for the event, and has no deadline.      *)
KeyedInv ==
  Is("keyed") =>
    /\ queued \/ (\E u \in Unparkers : unparker[u] = "unpark_lock") =>
         \/ word = PARKED /\ pc \in {"park", "asleep", "swap"}
         \/ word = TIMED_OUT /\ pc \in {"expired", "timed_out"}
    /\ (\E u \in Unparkers : unparker[u] = "unpark") =>
         \/ word = UNPARKED /\ pc \in {"park", "asleep", "swap"}
         \/ word = TIMED_OUT /\ pc = "asleep" /\ deadline = "never"
    /\ InPark /\ ~queued /\ (\A u \in Unparkers : unparker[u] = "idle") =>
         word = UNPARKED /\ pc \in {"expired", "timed_out"}

Inv == TypeOK /\ Owners /\ FlagInv /\ UnixInv /\ KeyedInv

LEMMA InvIsExact == Inv => UnparkIsExact
<1> SUFFICES ASSUME Inv PROVE UnparkIsExact
  OBVIOUS
<1>1. ~InPark => ~queued BY DEF Inv, Owners
<1>2. (\E u \in Unparkers : UsesParker(u)) => InPark BY DEF Inv, Owners
<1>3. ASSUME pc = "timed_out", Is("pthread") => mutex = Null
      PROVE  timed_out <=> queued
  <2>1. InPark /\ \A u \in Unparkers : unparker[u] # "unpark_lock"
    BY <1>3, ThreadParkerAssumption DEF Inv, Owners, InPark
  <2>2. CASE Is("flag") BY <2>1, <2>2 DEF Inv, FlagInv, timed_out, Is
  <2>3. CASE Is("pthread")
    <3>1. \A u \in Unparkers : unparker[u] = "idle"
      BY <1>3, <2>1, <2>3, ThreadParkerAssumption DEF Inv, UnixInv, TypeOK
    <3> QED BY <2>1, <2>3, <3>1 DEF Inv, UnixInv, timed_out, Is
  <2>4. CASE Is("keyed")
    <3>1. \A u \in Unparkers : unparker[u] = "idle"
      BY <1>3, <2>1, <2>4 DEF Inv, KeyedInv, TypeOK
    <3> QED BY <1>3, <2>1, <2>4, <3>1 DEF Inv, KeyedInv, timed_out, Is
  <2> QED BY <2>2, <2>3, <2>4 DEF Inv, TypeOK, Families, Is
<1> QED BY <1>1, <1>2, <1>3 DEF UnparkIsExact

LEMMA InitInv == Init => Inv
<1> SUFFICES ASSUME Init PROVE Inv
  OBVIOUS
<1>1. TypeOK
  <2>1. imp \in {Linux, Redox, WasmAtomic, Generic, Sgx, Unix, WaitAddress, KeyedEvent}
    BY DEF Init, Implementations, Windows
  <2>2. imp.family \in Families
    BY <2>1 DEF Families, Flag, Linux, Redox, WasmAtomic, WaitAddress, Generic, Sgx, Unix,
                KeyedEvent
  <2> QED BY <2>2 DEF Init, TypeOK, Labels
<1>2. Owners /\ FlagInv /\ UnixInv /\ KeyedInv
  BY ThreadParkerAssumption
  DEF Init, Owners, FlagInv, UnixInv, KeyedInv, InPark, UsesParker
<1> QED BY <1>1, <1>2 DEF Inv

-----------------------------------------------------------------------------
(* The steps of the parking thread.                                        *)

LEMMA ParkKeepsInv ==
  ASSUME Inv, Prepare \/ Expire \/ LockBucket \/ TimedOut \/ Return
  PROVE  Inv'
<1> USE ThreadParkerAssumption DEF Inv
<1>1. CASE Prepare
  <2> USE <1>1
  <2>1. \A u \in Unparkers : ~UsesParker(u) BY DEF Prepare, Goto, Owners, InPark
  <2>2. TypeOK' BY DEF Prepare, Goto, TypeOK, Labels, kernel
  <2>3. Owners' BY <2>1 DEF Prepare, Goto, Owners, InPark, UsesParker, Is, kernel
  <2>4. FlagInv' BY <2>1 DEF Prepare, Goto, FlagInv, InPark, UsesParker, Is, kernel
  <2>5. UnixInv' BY <2>1 DEF Prepare, Goto, UnixInv, InPark, UsesParker, Is, kernel
  <2>6. KeyedInv' BY <2>1 DEF Prepare, Goto, KeyedInv, InPark, UsesParker, Is, kernel
  <2> QED BY <2>2, <2>3, <2>4, <2>5, <2>6
<1>2. CASE Expire
  <2> USE <1>2 DEF Expire, kernel
  <2>1. TypeOK' BY DEF TypeOK
  <2>2. Owners' BY DEF Owners, InPark, UsesParker, Is
  <2>3. FlagInv' /\ UnixInv' BY DEF FlagInv, UnixInv, InPark, Is
  <2>4. KeyedInv' BY DEF KeyedInv, InPark, Is
  <2> QED BY <2>1, <2>2, <2>3, <2>4
<1>3. CASE LockBucket
  <2> USE <1>3 DEF LockBucket, Goto
  <2>1. TypeOK' BY DEF TypeOK, Labels
  <2>2. Owners' BY DEF Owners, InPark, UsesParker, Is, TypeOK
  <2>3. FlagInv' /\ UnixInv' BY DEF FlagInv, UnixInv, InPark, Is
  <2>4. KeyedInv' BY DEF KeyedInv, InPark, Is
  <2> QED BY <2>1, <2>2, <2>3, <2>4
<1>4. CASE TimedOut
  <2> USE <1>4
  <2>1. ~queued'
    <3>1. timed_out <=> queued BY InvIsExact DEF TimedOut, Goto, UnparkIsExact
    <3> QED BY <3>1 DEF TimedOut, TypeOK
  <2>2. \A u \in Unparkers : ~UsesParker(u)
    <3>1. \A u \in Unparkers : unparker[u] # "unpark_lock"
      BY DEF TimedOut, Goto, Owners
    <3>2. ASSUME NEW u \in Unparkers, unparker[u] = "unpark" PROVE Is("flag")
      BY <3>2 DEF TimedOut, Goto, UnixInv, KeyedInv, TypeOK, Families, Is
    <3> QED BY <3>1, <3>2 DEF UsesParker
  <2>3. TypeOK' BY <2>1 DEF TimedOut, Goto, TypeOK, Labels
  <2>4. Owners' BY <2>1, <2>2 DEF TimedOut, Goto, Owners, InPark, UsesParker, Is
  <2>5. FlagInv' /\ UnixInv' BY <2>2 DEF TimedOut, Goto, FlagInv, UnixInv, InPark, UsesParker, Is
  <2>6. KeyedInv' BY <2>1, <2>2 DEF TimedOut, Goto, KeyedInv, InPark, UsesParker, Is
  <2> QED BY <2>3, <2>4, <2>5, <2>6
<1>5. CASE Return
  <2> USE <1>5 DEF Return, Goto, kernel
  <2>1. TypeOK' BY DEF TypeOK, Labels
  <2>2. Owners' BY DEF Owners, InPark, UsesParker, Is
  <2>3. FlagInv' /\ UnixInv' BY DEF FlagInv, UnixInv, InPark, Is
  <2>4. KeyedInv' BY DEF KeyedInv, Owners, InPark, UsesParker, Is
  <2> QED BY <2>1, <2>2, <2>3, <2>4
<1> QED BY <1>1, <1>2, <1>3, <1>4, <1>5

(* A step that only moves the thread about in park, without the locks and  *)
(* the flag, keeps what does not depend on the place.                      *)
LEMMA MoveKeepsOwners ==
  ASSUME Inv, pc' \in Labels \ {"timed_out"}, pc # "timed_out",
         InPark, InPark' \/ (~queued /\ \A u \in Unparkers : ~UsesParker(u)),
         word' \in {UNPARKED, PARKED, TIMED_OUT}, mutex' \in Unparkers \cup {Parker, Null},
         UNCHANGED <<imp, queued, bucket, unparker>>
  PROVE  TypeOK' /\ Owners'
<1>1. TypeOK' BY DEF Inv, TypeOK
<1>2. \A u \in Unparkers : UsesParker(u)' <=> UsesParker(u) BY DEF UsesParker, Is
<1>3. Owners' BY <1>2 DEF Inv, Owners
<1> QED BY <1>1, <1>3

LEMMA FlagKeepsInv ==
  ASSUME Inv, FlagCheck \/ FlagWait \/ FlagWakes
  PROVE  Inv'
<1> USE DEF Inv
<1>1. Is("flag") /\ Is("flag")' /\ ~Is("pthread")' /\ ~Is("keyed")'
  BY DEF FlagCheck, FlagWait, FlagWakes, Is
<1>2. InPark /\ pc # "timed_out" /\ pc' \in Labels \ {"timed_out"}
  BY DEF FlagCheck, FlagWait, FlagWakes, Goto, InPark, Labels
<1>3. UNCHANGED <<imp, word, queued, bucket, mutex, unparker>>
  BY DEF FlagCheck, FlagWait, FlagWakes, kernel
<1>4. InPark' \/ (~queued /\ \A u \in Unparkers : ~UsesParker(u))
  <2>1. CASE FlagCheck /\ word = UNPARKED
    BY <1>1, <1>2, <2>1 DEF FlagInv, UsesParker
  <2>2. CASE ~(FlagCheck /\ word = UNPARKED)
    BY <2>2 DEF FlagCheck, FlagWait, FlagWakes, Goto, InPark
  <2> QED BY <2>1, <2>2
<1>5. TypeOK' /\ Owners'
  BY <1>2, <1>3, <1>4, MoveKeepsOwners DEF TypeOK
<1>6. FlagInv' BY <1>1, <1>2, <1>3 DEF FlagInv
<1> QED BY <1>1, <1>5, <1>6 DEF UnixInv, KeyedInv

LEMMA UnixKeepsInv ==
  ASSUME Inv, LockMutex \/ UnixCheck \/ UnixWakes
  PROVE  Inv'
<1> USE ThreadParkerAssumption DEF Inv
<1>1. Is("pthread") /\ Is("pthread")' /\ ~Is("flag")' /\ ~Is("keyed")'
  BY DEF LockMutex, UnixCheck, UnixWakes, Is
<1>2. InPark /\ pc # "timed_out" /\ pc' \in Labels \ {"timed_out"}
  BY DEF LockMutex, UnixCheck, UnixWakes, Goto, InPark, Labels
<1>3. UNCHANGED <<imp, word, queued, bucket, unparker>>
  BY DEF LockMutex, UnixCheck, UnixWakes, kernel
<1>4. InPark' \/ (~queued /\ \A u \in Unparkers : ~UsesParker(u))
  <2>1. CASE UnixCheck /\ word = UNPARKED
    BY <1>1, <1>2, <2>1 DEF UnixInv, UsesParker
  <2>2. CASE ~(UnixCheck /\ word = UNPARKED)
    BY <2>2 DEF LockMutex, UnixCheck, UnixWakes, Goto, InPark
  <2> QED BY <2>1, <2>2
<1>5. mutex' \in Unparkers \cup {Parker, Null}
  BY DEF LockMutex, UnixCheck, UnixWakes, kernel, TypeOK
<1>6. TypeOK' /\ Owners'
  BY <1>2, <1>3, <1>4, <1>5, MoveKeepsOwners DEF TypeOK
<1>7. /\ mutex' = Parker <=> pc' = "check"
      /\ \A u \in Unparkers : mutex' = u <=> unparker'[u] = "unpark"
  BY <1>1, <1>3 DEF UnixInv, LockMutex, UnixCheck, UnixWakes, Goto, kernel
<1>8. UnixInv' BY <1>1, <1>2, <1>3, <1>7 DEF UnixInv
<1> QED BY <1>1, <1>6, <1>8 DEF FlagInv, KeyedInv

LEMMA KeyedKeepsInv ==
  ASSUME Inv, KeyedPark \/ KeyedTimeout \/ KeyedSwap
  PROVE  Inv'
<1> USE DEF Inv
<1>1. Is("keyed") /\ Is("keyed")' /\ ~Is("flag")' /\ ~Is("pthread")'
  BY DEF KeyedPark, KeyedTimeout, KeyedSwap, Is
<1>2. InPark /\ InPark' /\ pc # "timed_out" /\ pc' \in Labels \ {"timed_out"}
  BY DEF KeyedPark, KeyedTimeout, KeyedSwap, Goto, InPark, Labels
<1>3. UNCHANGED <<imp, queued, bucket, mutex, unparker>>
  BY DEF KeyedPark, KeyedTimeout, KeyedSwap, kernel
<1>4. word' \in {UNPARKED, PARKED, TIMED_OUT}
  BY DEF KeyedPark, KeyedTimeout, KeyedSwap, TypeOK
<1>5. TypeOK' /\ Owners'
  BY <1>2, <1>3, <1>4, MoveKeepsOwners DEF TypeOK
<1>6. KeyedInv'
  <2>1. CASE KeyedPark
    BY <1>1, <1>2, <1>3, <2>1 DEF KeyedInv, KeyedPark, Goto
  <2>2. CASE KeyedTimeout
    BY <1>1, <1>2, <1>3, <2>2 DEF KeyedInv, KeyedTimeout, Goto
  <2>3. CASE KeyedSwap
    <3>1. queued \/ (\E u \in Unparkers : unparker[u] = "unpark_lock") =>
            word = PARKED /\ \A u \in Unparkers : unparker[u] # "unpark"
      BY <1>1, <2>3 DEF KeyedInv, KeyedSwap, Goto, Owners, UsesParker, Is
    <3>2. (\E u \in Unparkers : unparker[u] = "unpark") => word = UNPARKED
      BY <1>1, <2>3 DEF KeyedInv, KeyedSwap, Goto
    <3>3. queued \/ \E u \in Unparkers : unparker[u] \in {"unpark_lock", "unpark"}
      BY <1>1, <1>2, <2>3 DEF KeyedInv, KeyedSwap, Goto, TypeOK
    <3> QED BY <1>1, <1>3, <2>3, <3>1, <3>2, <3>3 DEF KeyedInv, KeyedSwap, Goto
  <2> QED BY <2>1, <2>2, <2>3
<1> QED BY <1>1, <1>5, <1>6 DEF FlagInv, UnixInv

-----------------------------------------------------------------------------
(* The steps of a thread that unparks it.                                  *)

LEMMA DequeueKeepsInv ==
  ASSUME Inv, NEW u \in Unparkers, Dequeue(u)
  PROVE  Inv'
<1> USE ThreadParkerAssumption DEF Inv
<1>1. /\ queued /\ ~queued' /\ InPark /\ InPark' /\ pc # "timed_out"
      /\ \A v \in Unparkers : ~UsesParker(v)
  BY DEF Dequeue, Owners, InPark
<1>2. /\ unparker[u] = "idle" /\ unparker'[u] = "unpark_lock"
      /\ \A v \in Unparkers \ {u} : unparker'[v] = unparker[v]
  BY DEF Dequeue, UnparkerGoto, TypeOK
<1>3. \A v \in Unparkers : UsesParker(v)' <=> v = u
  BY <1>1, <1>2 DEF Dequeue, UsesParker, Is
<1>4. TypeOK' BY DEF Dequeue, UnparkerGoto, TypeOK
<1>5. Owners' BY <1>1, <1>2, <1>3 DEF Dequeue, Owners
<1>6. FlagInv' BY <1>1, <1>2 DEF Dequeue, FlagInv, Is
<1>7. UnixInv'
  <2>1. ASSUME Is("pthread") PROVE word # UNPARKED
    BY <1>1, <2>1 DEF UnixInv
  <2> QED BY <1>1, <1>2, <2>1 DEF Dequeue, UnixInv, Is
<1>8. KeyedInv'
  <2>1. ASSUME Is("keyed") PROVE \A v \in Unparkers : unparker'[v] # "unpark"
    BY <1>1, <1>2, <2>1 DEF UsesParker, Is
  <2> QED BY <1>1, <1>2, <2>1 DEF Dequeue, KeyedInv, Is
<1> QED BY <1>4, <1>5, <1>6, <1>7, <1>8

LEMMA UnparkLockKeepsInv ==
  ASSUME Inv, NEW u \in Unparkers, UnparkLock(u)
  PROVE  Inv'
<1> USE ThreadParkerAssumption DEF Inv
<1>1. /\ unparker[u] = "unpark_lock" /\ unparker'[u] \in {"idle", "unpark"}
      /\ \A v \in Unparkers \ {u} : unparker'[v] = unparker[v]
      /\ unparker' \in [Unparkers -> {"idle", "unpark_lock", "unpark"}]
  BY DEF UnparkLock, UnparkerGoto, TypeOK
<1>2. UsesParker(u) BY <1>1 DEF UsesParker
<1>3. /\ InPark /\ InPark' /\ ~queued /\ ~queued' /\ bucket = u /\ bucket' = Null
      /\ pc # "timed_out" /\ pc' = pc /\ imp' = imp
      /\ \A v \in Unparkers \ {u} : ~UsesParker(v) /\ ~UsesParker(v)'
  BY <1>1, <1>2 DEF UnparkLock, Owners, InPark, UsesParker, Is
<1>4. TypeOK' BY <1>1 DEF UnparkLock, TypeOK
<1>5. Owners' BY <1>1, <1>3 DEF Owners
<1>6. FlagInv'
  <2>1. ASSUME Is("flag") PROVE word' = UNPARKED BY <2>1 DEF UnparkLock, Is
  <2>2. \A v \in Unparkers : unparker'[v] # "unpark_lock"
    BY <1>1, <1>3 DEF UsesParker
  <2> QED BY <1>3, <2>1, <2>2 DEF FlagInv, Is
<1>7. UnixInv'
  <2> SUFFICES ASSUME Is("pthread") PROVE UnixInv'
    BY <1>3 DEF UnixInv, Is
  <2>1. mutex = Null /\ mutex' = u /\ word' = word /\ unparker'[u] = "unpark"
    BY DEF UnparkLock, UnparkerGoto, Is, TypeOK
  <2>2. word # UNPARKED BY <1>1, <1>3 DEF UnixInv
  <2> QED BY <1>1, <1>3, <2>1, <2>2 DEF UnixInv
<1>8. KeyedInv'
  <2> SUFFICES ASSUME Is("keyed") PROVE KeyedInv'
    BY <1>3 DEF KeyedInv, Is
  <2>1. \A v \in Unparkers \ {u} : unparker'[v] = "idle"
    BY <1>1, <1>3 DEF UsesParker, Is, TypeOK
  <2>2. word' = UNPARKED /\ deadline' = deadline BY DEF UnparkLock, Is
  <2>3. unparker'[u] = IF word # PARKED THEN "idle" ELSE "unpark"
    BY DEF UnparkLock, UnparkerGoto, Is, TypeOK
  <2> QED BY <1>1, <1>3, <2>1, <2>2, <2>3 DEF KeyedInv
<1> QED BY <1>4, <1>5, <1>6, <1>7, <1>8

LEMMA UnparkKeepsInv ==
  ASSUME Inv, NEW u \in Unparkers, FlagUnpark(u) \/ UnixUnpark(u) \/ KeyedUnpark(u)
  PROVE  Inv'
<1> USE ThreadParkerAssumption DEF Inv
<1>1. /\ unparker[u] = "unpark" /\ unparker'[u] = "idle"
      /\ \A v \in Unparkers \ {u} : unparker'[v] = unparker[v]
      /\ unparker' \in [Unparkers -> {"idle", "unpark_lock", "unpark"}]
      /\ imp' = imp /\ queued' = queued /\ bucket' = bucket
  BY DEF FlagUnpark, UnixUnpark, KeyedUnpark, UnparkerGoto, TypeOK, kernel
<1>2. CASE FlagUnpark(u)
  <2>1. InPark' = InPark /\ word' = word /\ (pc' = "timed_out" <=> pc = "timed_out")
    BY <1>2 DEF FlagUnpark, InPark
  <2>2. \A v \in Unparkers : UsesParker(v)' <=> UsesParker(v)
    BY <1>1, <1>2 DEF FlagUnpark, UsesParker, Is
  <2>3. TypeOK' BY <1>1, <1>2 DEF FlagUnpark, TypeOK, Labels
  <2>4. Owners' BY <1>1, <2>1, <2>2 DEF Owners
  <2>5. FlagInv' BY <1>1, <2>1 DEF FlagInv, Is
  <2>6. UnixInv' /\ KeyedInv' BY <1>1, <1>2 DEF FlagUnpark, UnixInv, KeyedInv, Is
  <2> QED BY <2>3, <2>4, <2>5, <2>6
<1>3. CASE UnixUnpark(u) \/ KeyedUnpark(u)
  <2>1. ~Is("flag") /\ ~Is("flag")' BY <1>1, <1>3 DEF UnixUnpark, KeyedUnpark, Is
  <2>2. UsesParker(u) /\ ~UsesParker(u)' BY <1>1, <2>1 DEF UsesParker
  <2>3. InPark /\ ~queued /\ \A v \in Unparkers \ {u} : ~UsesParker(v) /\ ~UsesParker(v)'
    BY <1>1, <2>2 DEF Owners, UsesParker, Is
  <2>4. \A v \in Unparkers : unparker'[v] = "idle"
    BY <1>1, <2>1, <2>3 DEF UsesParker
  <2>5. CASE UnixUnpark(u)
    <3>1. /\ word' = UNPARKED /\ mutex = u /\ mutex' = Null /\ pc # "check" /\ pc' # "check"
          /\ InPark' /\ (pc' = "timed_out" <=> pc = "timed_out") /\ pc' \in Labels
      BY <1>1, <2>3, <2>5 DEF UnixUnpark, UnixInv, InPark, TypeOK, Labels
    <3>2. TypeOK' BY <1>1, <3>1 DEF TypeOK
    <3>3. Owners' BY <1>1, <2>2, <2>3, <3>1 DEF Owners
    <3>4. UnixInv' BY <1>1, <2>3, <2>4, <3>1 DEF UnixInv
    <3> QED BY <1>1, <2>1, <2>5, <3>2, <3>3, <3>4 DEF FlagInv, KeyedInv, UnixUnpark, Is
  <2>6. CASE KeyedUnpark(u)
    <3>1. pc = "asleep" /\ pc' = "returns" /\ word' = word /\ mutex' = mutex
      BY <2>6 DEF KeyedUnpark, Goto, kernel
    <3>2. TypeOK' BY <1>1, <3>1 DEF TypeOK, Labels
    <3>3. Owners' BY <1>1, <2>2, <2>3, <3>1 DEF Owners
    <3>4. KeyedInv' BY <1>1, <2>3, <2>4, <3>1 DEF KeyedInv, InPark
    <3> QED BY <1>1, <2>1, <2>6, <3>2, <3>3, <3>4 DEF FlagInv, UnixInv, KeyedUnpark, Is
  <2> QED BY <1>3, <2>5, <2>6
<1> QED BY <1>2, <1>3

-----------------------------------------------------------------------------

LEMMA NextInv == Inv /\ [Next]_vars => Inv'
<1> SUFFICES ASSUME Inv, [Next]_vars PROVE Inv'
  OBVIOUS
<1>1. CASE UNCHANGED vars
  BY <1>1 DEF vars, kernel, Inv, TypeOK, Owners, FlagInv, UnixInv, KeyedInv, InPark,
              UsesParker, Is
<1> QED BY <1>1, ParkKeepsInv, FlagKeepsInv, UnixKeepsInv, KeyedKeepsInv, DequeueKeepsInv,
           UnparkLockKeepsInv, UnparkKeepsInv
        DEF Next, ParkerStep, Wakes, UnparkerStep

(* On every platform and with any number of threads that unpark it: park   *)
(* never returns while the thread is queued, a thread that timed out       *)
(* learns exactly whether it was unparked, and it does not leave while an  *)
(* unparker uses its parker.                                               *)
THEOREM ThreadParkerUnparkIsExact == Spec => []UnparkIsExact
BY InitInv, NextInv, InvIsExact, PTL DEF Spec
=============================================================================
