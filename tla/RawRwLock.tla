------------------------------ MODULE RawRwLock -----------------------------
(***************************************************************************)
(* src/raw_rwlock.rs: the reader-writer lock built on the parking lot.     *)
(* The lock word is the number of readers and four flags.  Threads wait in *)
(* a main queue; the one that has taken WRITER_BIT while readers remain    *)
(* waits for them in a second queue.                                       *)
(*                                                                         *)
(* The queues are those of AbstractParkingLot.  Every callback the lock    *)
(* passes to the parking lot accesses the lock word once, under the bucket *)
(* lock, so that park, the removal after a timeout and unpark_filter are   *)
(* one step each.  A compare_exchange loop that retries until it succeeds  *)
(* on the value it has checked is one step as well, and spinning is a      *)
(* thread that does not take its next step yet.                            *)
(***************************************************************************)
EXTENDS Naturals, FiniteSetsExt, SequencesExt

CONSTANTS
  Threads,      (* the threads that use the lock                           *)
  MaxReaders,   (* the largest reader count the word has room for          *)
  MaxShared,    (* shared locks a thread takes at most                     *)
  Ops,          (* the operations the threads use, a subset of Operations  *)
  Timeouts      (* subset of BOOLEAN: do threads wait with a timeout?      *)

Waits == {"shared", "recursive", "exclusive", "upgradable"}
Operations == Waits \cup
  {"upgrade", "downgrade", "downgrade_to_upgradable", "downgrade_upgradable",
   "bump_shared", "bump_exclusive", "bump_upgradable",
   "unlock_exclusive_fair", "unlock_upgradable_fair"}

ASSUME RawRwLockAssumption ==
  /\ MaxReaders \in Nat \ {0} /\ MaxShared \in Nat \ {0}
  /\ Ops \subseteq Operations
  /\ Timeouts \subseteq BOOLEAN

VARIABLES
  bits,         (* the flags that are set in the lock word                 *)
  readers,      (* the number of readers in the lock word                  *)
  queue,        (* the threads parked on the address of the lock           *)
  queue2,       (* the threads parked on that address + 1                  *)
  handoff,      (* unpark_token is TOKEN_HANDOFF                           *)
  pc,           (* where each thread is                                    *)
  call,         (* the operation it is in, and its arguments               *)
  shared,       (* the shared locks it holds                               *)
  mode          (* its upgradable or exclusive lock                        *)

word   == <<bits, readers>>
queues == <<queue, queue2, handoff>>
held   == <<shared, mode>>
vars   == <<word, queues, pc, call, held>>

-----------------------------------------------------------------------------

PARKED_BIT        == "PARKED_BIT"
WRITER_PARKED_BIT == "WRITER_PARKED_BIT"
UPGRADABLE_BIT    == "UPGRADABLE_BIT"
WRITER_BIT        == "WRITER_BIT"
Bits == {PARKED_BIT, WRITER_PARKED_BIT, UPGRADABLE_BIT, WRITER_BIT}

(* op is the operation; timed, it was given a timeout; fair, force_fair of *)
(* an unlock; again, the lock is taken again after the unlock (bump).      *)
NoCall == [op |-> "none", timed |-> FALSE, fair |-> FALSE, again |-> FALSE]

Labels == {"idle", "lock", "park", "parked", "readers", "park2", "parked2",
           "revert", "wake", "bump_shared", "unlock_shared", "unlock_exclusive",
           "bump_upgradable", "unlock_upgradable"}

TypeOK ==
  /\ bits \in SUBSET Bits
  /\ readers \in 0 .. MaxReaders
  /\ queue \in Seq(Threads) /\ queue2 \in Seq(Threads)
  /\ handoff \in [Threads -> BOOLEAN]
  /\ pc \in [Threads -> Labels]
  /\ call \in [Threads -> [op: Operations \cup {"none"}, timed: BOOLEAN,
                           fair: BOOLEAN, again: BOOLEAN]]
  /\ shared \in [Threads -> 0 .. MaxShared]
  /\ mode \in [Threads -> {"none", "upgradable", "exclusive"}]

Init ==
  /\ bits = {} /\ readers = 0
  /\ queue = <<>> /\ queue2 = <<>>
  /\ handoff = [t \in Threads |-> FALSE]
  /\ pc = [t \in Threads |-> "idle"]
  /\ call = [t \in Threads |-> NoCall]
  /\ shared = [t \in Threads |-> 0]
  /\ mode = [t \in Threads |-> "none"]

Goto(t, from, to) ==
  /\ pc[t] = from
  /\ pc' = [pc EXCEPT ![t] = to]

Calls(t, op, timed, fair, again) ==
  call' = [call EXCEPT ![t] = [op |-> op, timed |-> timed, fair |-> fair, again |-> again]]

(* The function returns; bump goes on to lock again. *)
Return(t, from, relock) ==
  IF call[t].again
  THEN Goto(t, from, "lock") /\ Calls(t, relock, FALSE, FALSE, FALSE)
  ELSE Goto(t, from, "idle") /\ call' = [call EXCEPT ![t] = NoCall]

Holds(t, n, m) ==
  /\ shared' = [shared EXCEPT ![t] = n]
  /\ mode' = [mode EXCEPT ![t] = m]

HoldsNothing(t) == shared[t] = 0 /\ mode[t] = "none"

-----------------------------------------------------------------------------
(* lock_shared, lock_exclusive, lock_upgradable, their recursive, timed    *)
(* and try variants                                                        *)

(* Mutant: a recursive reader waits for pending writers as others do. *)
BlockedRecursive(op) ==
  IF op \in {"shared", "recursive"}
  THEN WRITER_BIT \in bits
  ELSE bits \cap {WRITER_BIT, UPGRADABLE_BIT} # {}

(* The condition under which try_lock gives up.  A recursive reader may    *)
(* pass a writer that still waits for readers.                             *)
Blocked(op) ==
  CASE op = "shared"    -> WRITER_BIT \in bits
    [] op = "recursive" -> WRITER_BIT \in bits /\ readers = 0
    [] OTHER            -> bits \cap {WRITER_BIT, UPGRADABLE_BIT} # {}

ValidateFlags(op) ==
  IF op \in {"shared", "recursive"} THEN {WRITER_BIT} ELSE {WRITER_BIT, UPGRADABLE_BIT}

(* The ParkToken of a waiting thread: what it is going to add to the word *)
TokenBits(op) ==
  CASE op = "exclusive"  -> {WRITER_BIT}
    [] op = "upgradable" -> {UPGRADABLE_BIT}
    [] OTHER             -> {}

TokenReaders(op) == IF op = "exclusive" THEN 0 ELSE 1

(* t now has what its token stands for.  A writer has only WRITER_BIT and  *)
(* goes on to wait for the readers.                                        *)
Take(t, from, op) ==
  IF op = "exclusive"
  THEN Goto(t, from, "readers") /\ UNCHANGED <<call, held>>
  ELSE /\ Return(t, from, op)
       /\ IF op = "upgradable"
          THEN Holds(t, shared[t], "upgradable")
          ELSE Holds(t, shared[t] + 1, mode[t])

(* A thread that waits for a lock in vain would never release the locks it *)
(* has, so it only asks for more as the documentation of read_recursive    *)
(* allows.                                                                 *)
MayCall(t, op) ==
  /\ op \in Ops
  /\ \/ HoldsNothing(t)
     \/ op = "recursive" /\ shared[t] < MaxShared /\ mode[t] # "exclusive"

Lock(t, op, timeout) ==
  /\ Goto(t, "idle", "lock")
  /\ MayCall(t, op) /\ timeout \in Timeouts
  /\ Calls(t, op, timeout, FALSE, FALSE)
  /\ UNCHANGED <<word, queues, held>>

(* try_lock_exclusive: succeeds only if the whole word is zero. *)
TryLockExclusive(t) ==
  /\ Goto(t, "idle", "idle")
  /\ MayCall(t, "exclusive")
  /\ bits = {} /\ readers = 0
  /\ bits' = {WRITER_BIT}
  /\ Holds(t, 0, "exclusive")
  /\ UNCHANGED <<readers, queues, call>>

(* try_lock_shared, try_lock_shared_recursive, try_lock_upgradable *)
TryLock(t, op) ==
  /\ pc[t] = "idle"
  /\ MayCall(t, op)
  /\ ~Blocked(op) /\ readers < MaxReaders
  /\ readers' = readers + 1
  /\ bits' = bits \cup TokenBits(op)
  /\ Take(t, "idle", op)
  /\ UNCHANGED queues

(* Mutant: the reader count is not checked. *)
GrabWraps(t) ==
  LET op == call[t].op
  IN  /\ pc[t] = "lock"
      /\ ~Blocked(op)
      /\ readers' = (readers + TokenReaders(op)) % (MaxReaders + 1)
      /\ bits' = bits \cup TokenBits(op)
      /\ Take(t, "lock", op)
      /\ UNCHANGED queues

(* try_lock of lock_common succeeds. *)
Grab(t) ==
  LET op == call[t].op
  IN  /\ pc[t] = "lock"
      /\ ~Blocked(op)
      /\ readers + TokenReaders(op) <= MaxReaders
      /\ readers' = readers + TokenReaders(op)
      /\ bits' = bits \cup TokenBits(op)
      /\ Take(t, "lock", op)
      /\ UNCHANGED queues

(* "RwLock reader count overflow": the call panics. *)
Overflow(t) ==
  LET op == call[t].op
  IN  /\ Goto(t, "lock", "idle")
      /\ ~Blocked(op)
      /\ readers + TokenReaders(op) > MaxReaders
      /\ call' = [call EXCEPT ![t] = NoCall]
      /\ UNCHANGED <<word, queues, held>>

(* Set the parked bit. *)
SetParked(t) ==
  /\ Goto(t, "lock", "park")
  /\ Blocked(call[t].op)
  /\ bits' = bits \cup {PARKED_BIT}
  /\ UNCHANGED <<readers, queues, call, held>>

(* Mutant: park without looking at the word again. *)
ParkUnchecked(t) ==
  /\ Goto(t, "park", "parked")
  /\ queue' = Append(queue, t)
  /\ UNCHANGED <<queue2, word, handoff, call, held>>

(* park: join the main queue, unless what the thread waits for may be      *)
(* available by now (validate).                                            *)
Park(t) ==
  /\ pc[t] = "park"
  /\ IF PARKED_BIT \in bits /\ bits \cap ValidateFlags(call[t].op) # {}
     THEN Goto(t, "park", "parked") /\ queue' = Append(queue, t)
     ELSE Goto(t, "park", "lock") /\ UNCHANGED queue
  /\ UNCHANGED <<queue2, word, handoff, call, held>>

Unparked(t) ==
  /\ pc[t] = "parked" /\ ~Contains(queue, t)
  /\ IF handoff[t]
     THEN Take(t, "parked", call[t].op)
     ELSE Goto(t, "parked", "lock") /\ UNCHANGED <<call, held>>
  /\ handoff' = [handoff EXCEPT ![t] = FALSE]
  /\ UNCHANGED <<word, queue, queue2>>

(* The timeout passed while the thread was in the queue: the last one to   *)
(* leave clears the parked bit.                                            *)
TimedOut(t) ==
  /\ Goto(t, "parked", "idle")
  /\ call[t].timed /\ Contains(queue, t)
  /\ queue' = Remove(queue, t)
  /\ bits' = IF queue' = <<>> THEN bits \ {PARKED_BIT} ELSE bits
  /\ call' = [call EXCEPT ![t] = NoCall]
  /\ UNCHANGED <<readers, queue2, handoff, held>>

-----------------------------------------------------------------------------
(* wait_for_readers: the thread owns WRITER_BIT. *)

(* The readers are gone. *)
ReadersGone(t) ==
  /\ Goto(t, "readers", "idle")
  /\ readers = 0
  /\ Holds(t, 0, "exclusive")
  /\ call' = [call EXCEPT ![t] = NoCall]
  /\ UNCHANGED <<word, queues>>

SetWriterParked(t) ==
  /\ Goto(t, "readers", "park2")
  /\ readers # 0
  /\ bits' = bits \cup {WRITER_PARKED_BIT}
  /\ UNCHANGED <<readers, queues, call, held>>

(* Mutant: park without looking whether the readers have left. *)
ParkWriterUnchecked(t) ==
  /\ Goto(t, "park2", "parked2")
  /\ queue2' = Append(queue2, t)
  /\ UNCHANGED <<queue, word, handoff, call, held>>

ParkWriter(t) ==
  /\ pc[t] = "park2"
  /\ IF readers # 0 /\ WRITER_PARKED_BIT \in bits
     THEN Goto(t, "park2", "parked2") /\ queue2' = Append(queue2, t)
     ELSE Goto(t, "park2", "readers") /\ UNCHANGED queue2
  /\ UNCHANGED <<queue, word, handoff, call, held>>

(* Mutant: a woken writer does not check the readers again. *)
WriterUnparkedTrusts(t) ==
  /\ Goto(t, "parked2", "idle")
  /\ ~Contains(queue2, t)
  /\ Holds(t, 0, "exclusive")
  /\ call' = [call EXCEPT ![t] = NoCall]
  /\ UNCHANGED <<word, queues>>

WriterUnparked(t) ==
  /\ Goto(t, "parked2", "readers")
  /\ ~Contains(queue2, t)
  /\ UNCHANGED <<word, queues, call, held>>

WriterTimedOut(t) ==
  /\ Goto(t, "parked2", "revert")
  /\ call[t].timed /\ Contains(queue2, t)
  /\ queue2' = Remove(queue2, t)
  /\ bits' = bits \ {WRITER_PARKED_BIT}
  /\ UNCHANGED <<readers, queue, handoff, call, held>>

(* Mutant: the upgradable lock is not given back. *)
RevertDrops(t) ==
  /\ pc[t] = "revert"
  /\ bits' = bits \ {WRITER_BIT}
  /\ IF PARKED_BIT \in bits
     THEN Goto(t, "revert", "wake") /\ UNCHANGED call
     ELSE Goto(t, "revert", "idle") /\ call' = [call EXCEPT ![t] = NoCall]
  /\ UNCHANGED <<readers, queues, held>>

(* Give WRITER_BIT up, take back the upgradable lock of an upgrade, and    *)
(* wake the threads that wait for WRITER_BIT.  The addition is unchecked.  *)
Revert(t) ==
  LET upgrade == call[t].op = "upgrade"
  IN  /\ pc[t] = "revert"
      /\ bits' = (bits \ {WRITER_BIT}) \cup (IF upgrade THEN {UPGRADABLE_BIT} ELSE {})
      /\ readers' = (readers + (IF upgrade THEN 1 ELSE 0)) % (MaxReaders + 1)
      /\ IF PARKED_BIT \in bits
         THEN Goto(t, "revert", "wake") /\ UNCHANGED call
         ELSE Goto(t, "revert", "idle") /\ call' = [call EXCEPT ![t] = NoCall]
      /\ UNCHANGED <<queues, held>>

-----------------------------------------------------------------------------
(* wake_parked_threads *)

(* Mutant: the filter only wakes readers. *)
FilterReadersOnly(acc, t) ==
  IF TokenBits(call[t].op) # {}
  THEN [acc EXCEPT !.rest = Append(@, t)]
  ELSE [acc EXCEPT !.readers = @ + 1, !.woken = @ \cup {t}]

(* The filter, called for each thread of the main queue with the word the  *)
(* threads woken so far are going to make: nobody after a writer, one      *)
(* upgradable reader or writer, and all readers.                           *)
Filter(acc, t) ==
  LET op == call[t].op
  IN  IF \/ WRITER_BIT \in acc.bits
         \/ TokenBits(op) # {} /\ UPGRADABLE_BIT \in acc.bits
      THEN [acc EXCEPT !.rest = Append(@, t)]
      ELSE [acc EXCEPT !.bits = @ \cup TokenBits(op),
                       !.readers = @ + TokenReaders(op),
                       !.woken = @ \cup {t}]

Wakes(new_bits, new_readers) ==
  FoldLeft(Filter, [bits |-> new_bits, readers |-> new_readers, woken |-> {}, rest |-> <<>>],
           queue)

(* The threads of w leave the queue with the token. *)
Wake(w, handed) ==
  /\ queue' = w.rest
  /\ handoff' = [t \in Threads |-> IF t \in w.woken THEN handed ELSE handoff[t]]
  /\ UNCHANGED queue2

MoreParked(w) == IF w.rest = <<>> THEN {} ELSE {PARKED_BIT}

(* The wakeup after a downgrade or a writer that gave up, which has        *)
(* changed the word already: wake with what the thread itself holds now.   *)
WakeParked(t) ==
  LET w == Wakes(TokenBits(mode[t]), IF HoldsNothing(t) THEN 0 ELSE 1)
  IN  /\ Goto(t, "wake", "idle")
      /\ bits' = IF w.rest = <<>> THEN bits \ {PARKED_BIT} ELSE bits
      /\ Wake(w, FALSE)
      /\ call' = [call EXCEPT ![t] = NoCall]
      /\ UNCHANGED <<readers, held>>

-----------------------------------------------------------------------------
(* unlock_exclusive, unlock_exclusive_fair, bump_exclusive *)

(* The fast path: nothing but WRITER_BIT is set. *)
UnlockExclusive(t) ==
  /\ Goto(t, "idle", "idle")
  /\ mode[t] = "exclusive"
  /\ bits = {WRITER_BIT} /\ readers = 0
  /\ bits' = {}
  /\ Holds(t, 0, "none")
  /\ UNCHANGED <<readers, queues, call>>

UnlockExclusiveSlow(t, op) ==
  /\ Goto(t, "idle", "unlock_exclusive")
  /\ mode[t] = "exclusive" /\ op \in Ops \cup {"none"}
  /\ bits # {WRITER_BIT} \/ readers # 0
  /\ Calls(t, op, FALSE, op # "none", op = "bump_exclusive")
  /\ UNCHANGED <<word, queues, held>>

UnlockExclusiveFair(t) == UnlockExclusiveSlow(t, "unlock_exclusive_fair")

BumpExclusive(t) == PARKED_BIT \in bits /\ UnlockExclusiveSlow(t, "bump_exclusive")

(* Wake threads, and store what they are going to need into the word       *)
(* (TOKEN_HANDOFF), or free the lock.                                      *)
ReleaseExclusive(t) ==
  LET w == Wakes({}, 0)
  IN  /\ pc[t] = "unlock_exclusive"
      /\ \E be_fair \in BOOLEAN :
           IF w.woken # {} /\ (call[t].fair \/ be_fair)
           THEN /\ bits' = w.bits \cup MoreParked(w)
                /\ readers' = w.readers
                /\ Wake(w, TRUE)
           ELSE /\ bits' = MoreParked(w) /\ readers' = 0
                /\ Wake(w, FALSE)
      /\ Holds(t, 0, "none")
      /\ Return(t, "unlock_exclusive", "exclusive")

-----------------------------------------------------------------------------
(* unlock_shared, bump_shared *)

(* bump_shared: let a waiting writer go first. *)
BumpShared(t) ==
  /\ Goto(t, "idle", "bump_shared")
  /\ "bump_shared" \in Ops
  /\ shared[t] = 1 /\ mode[t] = "none"
  /\ WRITER_BIT \in bits
  /\ Calls(t, "bump_shared", FALSE, FALSE, TRUE)
  /\ UNCHANGED <<word, queues, held>>

(* Mutant: the last reader does not wake the writer. *)
UnlockSharedSilent(t) ==
  /\ pc[t] \in {"idle", "bump_shared"} /\ shared[t] > 0
  /\ readers' = readers - 1
  /\ Holds(t, shared[t] - 1, mode[t])
  /\ Return(t, pc[t], "shared")
  /\ UNCHANGED <<bits, queues>>

(* The last reader to leave wakes the writer that waits for it. *)
UnlockShared(t) ==
  /\ pc[t] \in {"idle", "bump_shared"} /\ shared[t] > 0
  /\ readers' = readers - 1
  /\ Holds(t, shared[t] - 1, mode[t])
  /\ IF readers = 1 /\ WRITER_PARKED_BIT \in bits
     THEN Goto(t, pc[t], "unlock_shared") /\ UNCHANGED call
     ELSE Return(t, pc[t], "shared")
  /\ UNCHANGED <<bits, queues>>

(* unlock_shared_slow: unpark_one on the second queue *)
WakeWriter(t) ==
  /\ Return(t, "unlock_shared", "shared")
  /\ queue2' = IF queue2 = <<>> THEN <<>> ELSE Tail(queue2)
  /\ bits' = bits \ {WRITER_PARKED_BIT}
  /\ UNCHANGED <<readers, queue, handoff, held>>

-----------------------------------------------------------------------------
(* unlock_upgradable, unlock_upgradable_fair, bump_upgradable *)

(* bump_upgradable calls unlock_upgradable_slow with force_fair. *)
BumpUpgradable(t) ==
  /\ Goto(t, "idle", "bump_upgradable")
  /\ "bump_upgradable" \in Ops
  /\ shared[t] = 0 /\ mode[t] = "upgradable"
  /\ PARKED_BIT \in bits
  /\ Calls(t, "bump_upgradable", FALSE, TRUE, TRUE)
  /\ UNCHANGED <<word, queues, held>>

(* Nobody is parked: just release. *)
UnlockUpgradable(t) ==
  /\ pc[t] \in {"idle", "bump_upgradable"} /\ mode[t] = "upgradable"
  /\ PARKED_BIT \notin bits
  /\ readers' = readers - 1
  /\ bits' = bits \ {UPGRADABLE_BIT}
  /\ Holds(t, shared[t], "none")
  /\ Return(t, pc[t], "upgradable")
  /\ UNCHANGED queues

(* Threads are parked: unlock_upgradable and bump_upgradable *)
UnlockUpgradableSlow(t) ==
  /\ pc[t] \in {"idle", "bump_upgradable"}
  /\ Goto(t, pc[t], "unlock_upgradable")
  /\ mode[t] = "upgradable" /\ PARKED_BIT \in bits
  /\ UNCHANGED <<call, word, queues, held>>

(* It passes force_fair = false as unlock_upgradable does. *)
UnlockUpgradableFair(t) ==
  /\ Goto(t, "idle", "unlock_upgradable")
  /\ "unlock_upgradable_fair" \in Ops
  /\ mode[t] = "upgradable" /\ PARKED_BIT \in bits
  /\ Calls(t, "unlock_upgradable_fair", FALSE, FALSE, FALSE)
  /\ UNCHANGED <<word, queues, held>>

(* The callback, a compare_exchange loop: hand the lock over, or if the    *)
(* reader count would overflow fall back to a plain release.               *)
ReleaseUpgradable(t) ==
  LET w == Wakes({}, 0)
      rest == (bits \ {UPGRADABLE_BIT, PARKED_BIT}) \cup MoreParked(w)
  IN  /\ pc[t] = "unlock_upgradable"
      /\ \E be_fair \in BOOLEAN :
           LET fair == call[t].fair \/ (be_fair /\ w.woken # {})
           IN  IF fair /\ readers - 1 + w.readers <= MaxReaders
               THEN /\ bits' = rest \cup w.bits
                    /\ readers' = readers - 1 + w.readers
                    /\ Wake(w, TRUE)
               ELSE /\ bits' = rest
                    /\ readers' = readers - 1
                    /\ Wake(w, FALSE)
      /\ Holds(t, shared[t], "none")
      /\ Return(t, "unlock_upgradable", "upgradable")

-----------------------------------------------------------------------------
(* upgrade, try_upgrade, try_upgrade_for, try_upgrade_until *)

(* upgrade and try_upgrade of the only reader *)
TryUpgrade(t) ==
  /\ Goto(t, "idle", "idle")
  /\ "upgrade" \in Ops
  /\ mode[t] = "upgradable" /\ shared[t] = 0
  /\ readers = 1
  /\ readers' = 0
  /\ bits' = (bits \ {UPGRADABLE_BIT}) \cup {WRITER_BIT}
  /\ Holds(t, 0, "exclusive")
  /\ UNCHANGED <<queues, call>>

(* upgrade_slow: the upgrade turns its reader into WRITER_BIT and waits    *)
(* for the others.                                                         *)
UpgradeSlow(t, timeout) ==
  /\ Goto(t, "idle", "readers")
  /\ "upgrade" \in Ops /\ timeout \in Timeouts
  /\ mode[t] = "upgradable" /\ shared[t] = 0
  /\ readers # 1
  /\ readers' = readers - 1
  /\ bits' = (bits \ {UPGRADABLE_BIT}) \cup {WRITER_BIT}
  /\ Calls(t, "upgrade", timeout, FALSE, FALSE)
  /\ UNCHANGED <<queues, held>>

Upgrade(t)      == UpgradeSlow(t, FALSE)
UpgradeTimed(t) == UpgradeSlow(t, TRUE)

-----------------------------------------------------------------------------
(* downgrade, downgrade_to_upgradable, downgrade_upgradable *)

DowngradeTo(t, op, n, m, new_bits, new_readers) ==
  /\ pc[t] = "idle" /\ op \in Ops
  /\ Holds(t, n, m)
  /\ bits' = new_bits
  /\ readers' = new_readers
  /\ IF PARKED_BIT \in bits
     THEN Goto(t, "idle", "wake") /\ Calls(t, op, FALSE, FALSE, FALSE)
     ELSE UNCHANGED <<pc, call>>
  /\ UNCHANGED queues

Downgrade(t) ==
  /\ mode[t] = "exclusive"
  /\ DowngradeTo(t, "downgrade", 1, "none", bits \ {WRITER_BIT}, readers + 1)

DowngradeToUpgradable(t) ==
  /\ mode[t] = "exclusive"
  /\ DowngradeTo(t, "downgrade_to_upgradable", 0, "upgradable",
                 (bits \ {WRITER_BIT}) \cup {UPGRADABLE_BIT}, readers + 1)

DowngradeUpgradable(t) ==
  /\ mode[t] = "upgradable" /\ shared[t] < MaxShared
  /\ DowngradeTo(t, "downgrade_upgradable", shared[t] + 1, "none",
                 bits \ {UPGRADABLE_BIT}, readers)

-----------------------------------------------------------------------------

(* The functions of the traits that lock *)
LockExclusive(t)   == Lock(t, "exclusive", FALSE)
LockShared(t)      == Lock(t, "shared", FALSE)
LockUpgradable(t)  == Lock(t, "upgradable", FALSE)
LockTimed(t)       == Lock(t, "shared", TRUE) \/ Lock(t, "exclusive", TRUE)
LockTimedUpgradable(t) == Lock(t, "upgradable", TRUE)
LockRecursive(t)   == \E timeout \in BOOLEAN : Lock(t, "recursive", timeout)
TryLockShared(t)   == TryLock(t, "shared")
TryLockRecursive(t)  == TryLock(t, "recursive")
TryLockUpgradable(t) == TryLock(t, "upgradable")

LockStep(t) ==
  \/ LockExclusive(t) \/ LockShared(t) \/ LockUpgradable(t)
  \/ LockTimed(t) \/ LockTimedUpgradable(t) \/ LockRecursive(t)
  \/ TryLockExclusive(t) \/ TryLockShared(t) \/ TryLockRecursive(t) \/ TryLockUpgradable(t)
  \/ Grab(t) \/ Overflow(t) \/ SetParked(t) \/ Park(t) \/ Unparked(t) \/ TimedOut(t)
  \/ ReadersGone(t) \/ SetWriterParked(t) \/ ParkWriter(t) \/ WriterUnparked(t)
  \/ WriterTimedOut(t) \/ Revert(t)
  \/ TryUpgrade(t) \/ Upgrade(t) \/ UpgradeTimed(t)

UnlockStep(t) ==
  \/ UnlockExclusive(t)
  \/ UnlockExclusiveSlow(t, "none") \/ UnlockExclusiveFair(t) \/ BumpExclusive(t)
  \/ ReleaseExclusive(t)
  \/ BumpShared(t) \/ UnlockShared(t) \/ WakeWriter(t)
  \/ BumpUpgradable(t) \/ UnlockUpgradable(t)
  \/ UnlockUpgradableSlow(t) \/ UnlockUpgradableFair(t)
  \/ ReleaseUpgradable(t)
  \/ Downgrade(t) \/ DowngradeToUpgradable(t) \/ DowngradeUpgradable(t)
  \/ WakeParked(t)

Step(t) == LockStep(t) \/ UnlockStep(t)

Next == \E t \in Threads : Step(t)

Spec == Init /\ [][Next]_vars

(* A thread that is inside a function goes on, and a thread that holds a   *)
(* lock does something with it and in the end unlocks it.                  *)
Unlocks(t) ==
  \/ UnlockExclusive(t) \/ UnlockExclusiveSlow(t, "none") \/ UnlockShared(t)
  \/ UnlockUpgradable(t) \/ UnlockUpgradableSlow(t)

FairSpec ==
  /\ Spec
  /\ \A t \in Threads : WF_vars(pc[t] # "idle" /\ Step(t))
  /\ \A t \in Threads : WF_vars(pc[t] = "idle" /\ Unlocks(t))

-----------------------------------------------------------------------------
(* Properties *)

(* t has been handed the lock and has yet to return from park. *)
Handed(t) == pc[t] = "parked" /\ handoff[t]

(* t owns WRITER_BIT and waits for the readers to leave. *)
Pending(t) == pc[t] \in {"readers", "park2", "parked2", "revert"}

HasWriterBit(t) ==
  mode[t] = "exclusive" \/ Pending(t) \/ (Handed(t) /\ call[t].op = "exclusive")

HasUpgradableBit(t) ==
  \/ mode[t] = "upgradable" /\ ~Pending(t)
  \/ Handed(t) /\ call[t].op = "upgradable"

Reads(t) ==
  shared[t] + (IF Handed(t) /\ call[t].op \in {"shared", "recursive"} THEN 1 ELSE 0)

Readers(t) == Reads(t) + (IF HasUpgradableBit(t) THEN 1 ELSE 0)

Count(n, bit) == n = IF bit \in bits THEN 1 ELSE 0

(* The lock word says exactly what the threads hold, through fast paths,   *)
(* handoffs, upgrades that wait, and timeouts: the reader count is the     *)
(* number of shared and upgradable locks, and WRITER_BIT and               *)
(* UPGRADABLE_BIT have one owner while they are set and none otherwise.    *)
WordCountsHolders ==
  /\ readers = SumFunction([t \in Threads |-> Readers(t)])
  /\ Count(Cardinality({t \in Threads : HasWriterBit(t)}), WRITER_BIT)
  /\ Count(Cardinality({t \in Threads : HasUpgradableBit(t)}), UPGRADABLE_BIT)

(* The second queue has at most the one thread that owns WRITER_BIT (the   *)
(* debug_assert of wait_for_readers), and while that thread is asleep      *)
(* there is a reader whose unlock is going to wake it, or one that is      *)
(* about to.                                                               *)
PendingWriterIsWoken ==
  /\ Len(queue2) <= 1
  /\ queue2 # <<>> =>
       /\ WRITER_PARKED_BIT \in bits
       /\ WRITER_BIT \in bits
       /\ readers # 0 \/ \E t \in Threads : pc[t] = "unlock_shared"

(* t is going to take WRITER_BIT or UPGRADABLE_BIT, or to find that        *)
(* somebody else has it; or it is about to wake parked threads.            *)
Responsible(t) ==
  \/ pc[t] \in {"revert", "wake", "unlock_exclusive", "unlock_upgradable"}
  \/ /\ call[t].op \in {"exclusive", "upgradable"}
     /\ pc[t] \in {"lock", "park"} \/ (pc[t] = "parked" /\ ~Contains(queue, t))

(* "We must wake up at least one upgrader or writer if there is one,       *)
(* otherwise they may end up parked indefinitely since unlock_shared does  *)
(* not call wake_parked_threads" (wake_parked_threads): while threads are  *)
(* parked, PARKED_BIT shows them to the unlock functions, and somebody     *)
(* owns a bit whose release wakes them, or a thread that is awake is going *)
(* to.                                                                     *)
NoLostWakeup ==
  queue # <<>> =>
    /\ PARKED_BIT \in bits
    /\ \/ bits \cap {WRITER_BIT, UPGRADABLE_BIT} # {}
       \/ \E t \in Threads : Responsible(t)

(* A thread that already has a read lock is not put to sleep by            *)
(* lock_shared_recursive, whatever writers wait (the documentation of      *)
(* RwLock::read_recursive).                                                *)
RecursiveReadNeverSleeps ==
  \A t \in Threads :
    shared[t] > 0 /\ call[t].op = "recursive" => pc[t] \notin {"park", "parked"}

Abstract == INSTANCE AbstractRwLock
  WITH reads <- [t \in Threads |-> Reads(t)],
       mode <- [t \in Threads |-> IF HasUpgradableBit(t) THEN "upgradable" ELSE mode[t]]

(* The lock implements the abstract reader-writer lock: writers are alone, *)
(* upgrades and downgrades let nobody in between, an upgrade that times    *)
(* out still has its upgradable lock, and only a holder gives a lock up.   *)
ImplementsRwLock == Abstract!Spec

(* A parked thread is woken in the end, however others use the lock. *)
ParkedIsWoken == \A t \in Threads : Contains(queue, t) ~> ~Contains(queue, t)

(* A writer that has WRITER_BIT gets the lock: new readers do not delay    *)
(* it ("not vulnerable to write starvation since readers will block if     *)
(* there is a pending writer").                                            *)
PendingWriterGetsLock ==
  \A t \in Threads : Pending(t) /\ ~call[t].timed ~> mode[t] = "exclusive"

-----------------------------------------------------------------------------
(* A statement of the documentation that the code does not live up to *)

(* "Releases an upgradable lock using a fair unlock protocol": the threads *)
(* that unlock_upgradable_fair wakes are handed their locks.               *)
FairUnlockHandsOver ==
  [][\A t \in Threads :
       /\ pc[t] = "unlock_upgradable" /\ pc'[t] = "idle"
       /\ call[t].op = "unlock_upgradable_fair"
       => \A u \in Threads : Contains(queue, u) /\ ~Contains(queue', u) => handoff'[u]]_vars

=============================================================================
