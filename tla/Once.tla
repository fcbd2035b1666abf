-------------------------------- MODULE Once --------------------------------
(***************************************************************************)
(* src/src/once.rs: one-time initialization by threads that wait for the   *)
(* one that runs its closure, which may panic.                             *)
(*                                                                         *)
(* A pass through the loop of call_once_slow reads the state and acts on   *)
(* it with one compare-exchange, which is one step.  Park is one step of   *)
(* the parking lot.  The swap that ends a closure and the unpark_all that  *)
(* follows it are two: other threads may take the lock in between.         *)
(***************************************************************************)
CONSTANT Threads

VARIABLES
  state,        (* the bits that are set                                   *)
  parked,       (* the threads parked on the Once                          *)
  pc,           (* where each thread is                                    *)
  ignore_poison,
  once_state    (* the argument of the closure of each thread              *)

vars == <<state, parked, pc, ignore_poison, once_state>>

DONE_BIT   == "DONE_BIT"
POISON_BIT == "POISON_BIT"
LOCKED_BIT == "LOCKED_BIT"
PARKED_BIT == "PARKED_BIT"

Labels == {"idle", "call", "park", "parked", "run", "unpark_all"}

(* new and new_completed *)
Init ==
  /\ state \in {{}, {DONE_BIT}}
  /\ parked = {}
  /\ pc = [t \in Threads |-> "idle"]
  /\ ignore_poison = [t \in Threads |-> FALSE]
  /\ once_state = [t \in Threads |-> "New"]

Goto(t, from, to) ==
  /\ pc[t] = from
  /\ pc' = [pc EXCEPT ![t] = to]

(* Once::state *)
OnceState ==
  CASE DONE_BIT \in state -> "Done"
    [] DONE_BIT \notin state /\ LOCKED_BIT \in state -> "InProgress"
    [] state \cap {DONE_BIT, LOCKED_BIT} = {} /\ POISON_BIT \in state -> "Poisoned"
    [] OTHER -> "New"

-----------------------------------------------------------------------------

CallOnce(t) ==
  /\ Goto(t, "idle", "call")
  /\ ignore_poison' = [ignore_poison EXCEPT ![t] = FALSE]
  /\ UNCHANGED <<state, parked, once_state>>

CallOnceForce(t) ==
  /\ Goto(t, "idle", "call")
  /\ ignore_poison' = [ignore_poison EXCEPT ![t] = TRUE]
  /\ UNCHANGED <<state, parked, once_state>>

(* The closure of another thread has completed. *)
ReturnDone(t) ==
  /\ Goto(t, "call", "idle")
  /\ DONE_BIT \in state
  /\ UNCHANGED <<state, parked, ignore_poison, once_state>>

(* The call panics because a closure has panicked. *)
ReturnPoisoned(t) ==
  /\ Goto(t, "call", "idle")
  /\ DONE_BIT \notin state /\ POISON_BIT \in state /\ ~ignore_poison[t]
  /\ UNCHANGED <<state, parked, ignore_poison, once_state>>

Proceeds(t) ==
  /\ DONE_BIT \notin state
  /\ POISON_BIT \notin state \/ ignore_poison[t]

(* Mutant: the poison is cleared before the closure is told about it. *)
GrabForgets(t) ==
  /\ Goto(t, "call", "run")
  /\ Proceeds(t) /\ LOCKED_BIT \notin state
  /\ state' = (state \cup {LOCKED_BIT}) \ {POISON_BIT}
  /\ once_state' = [once_state EXCEPT ![t] = "New"]
  /\ UNCHANGED <<parked, ignore_poison>>

(* Grab the lock and clear the poison; the closure is told about it. *)
Grab(t) ==
  /\ Goto(t, "call", "run")
  /\ Proceeds(t) /\ LOCKED_BIT \notin state
  /\ state' = (state \cup {LOCKED_BIT}) \ {POISON_BIT}
  /\ once_state' = [once_state EXCEPT ![t] = IF POISON_BIT \in state THEN "Poisoned" ELSE "New"]
  /\ UNCHANGED <<parked, ignore_poison>>

SetParked(t) ==
  /\ Goto(t, "call", "park")
  /\ Proceeds(t) /\ LOCKED_BIT \in state
  /\ state' = state \cup {PARKED_BIT}
  /\ UNCHANGED <<parked, ignore_poison, once_state>>

(* Mutant: the state is not validated. *)
ParkUnchecked(t) ==
  /\ Goto(t, "park", "parked")
  /\ parked' = parked \cup {t}
  /\ UNCHANGED <<state, ignore_poison, once_state>>

Park(t) ==
  /\ \/ /\ Goto(t, "park", "parked")
        /\ state = {LOCKED_BIT, PARKED_BIT}
        /\ parked' = parked \cup {t}
     \/ /\ Goto(t, "park", "call")
        /\ state # {LOCKED_BIT, PARKED_BIT}
        /\ UNCHANGED parked
  /\ UNCHANGED <<state, ignore_poison, once_state>>

Unparked(t) ==
  /\ Goto(t, "parked", "call")
  /\ t \notin parked
  /\ UNCHANGED <<state, parked, ignore_poison, once_state>>

-----------------------------------------------------------------------------
(* The end of a closure *)

End(t, bit) ==
  /\ Goto(t, "run", IF PARKED_BIT \in state THEN "unpark_all" ELSE "idle")
  /\ state' = {bit}
  /\ UNCHANGED <<parked, ignore_poison, once_state>>

Complete(t) == End(t, DONE_BIT)

(* Mutant: the guard gives the lock up and keeps PARKED_BIT. *)
PanicKeepsParked(t) ==
  /\ Goto(t, "run", "idle")
  /\ state' = (state \cup {POISON_BIT}) \ {LOCKED_BIT}
  /\ UNCHANGED <<parked, ignore_poison, once_state>>

(* The closure panics and PanicGuard is dropped. *)
Panic(t) == End(t, POISON_BIT)

UnparkAll(t) ==
  /\ Goto(t, "unpark_all", "idle")
  /\ parked' = {}
  /\ UNCHANGED <<state, ignore_poison, once_state>>

-----------------------------------------------------------------------------

InCall(t) ==
  \/ ReturnDone(t) \/ ReturnPoisoned(t) \/ Grab(t)
  \/ SetParked(t) \/ Park(t) \/ Unparked(t)
  \/ Complete(t) \/ Panic(t) \/ UnparkAll(t)

Next == \E t \in Threads : CallOnce(t) \/ CallOnceForce(t) \/ InCall(t)

Spec == Init /\ [][Next]_vars

(* A thread in a call goes on, and closures end. *)
FairSpec == Spec /\ \A t \in Threads : WF_vars(InCall(t))

-----------------------------------------------------------------------------

(* The bits and the labels are what they should be. *)
TypeOK ==
  /\ state \in SUBSET {DONE_BIT, POISON_BIT, LOCKED_BIT, PARKED_BIT}
  /\ parked \subseteq Threads
  /\ pc \in [Threads -> Labels]
  /\ ignore_poison \in [Threads -> BOOLEAN]
  /\ once_state \in [Threads -> {"New", "Poisoned"}]

(* Why a parked thread is woken: it parked while a closure ran and left a  *)
(* bit for the end of it, or that end is about to call unpark_all.         *)
NoLostWakeup ==
  parked # {} =>
    \/ PARKED_BIT \in state /\ \E t \in Threads : pc[t] = "run"
    \/ \E t \in Threads : pc[t] = "unpark_all"

(* What a thread does, in the terms of the documentation. *)
CallOf(t) ==
  IF pc[t] \in {"call", "park", "parked"} THEN IF ignore_poison[t] THEN "force" ELSE "once"
  ELSE IF pc[t] = "run" THEN "run" ELSE "none"

Abstract ==
  INSTANCE AbstractOnce WITH phase <- OnceState, told <- once_state,
                             call <- [t \in Threads |-> CallOf(t)]

(* Once does what its documentation says: a closure runs alone and never   *)
(* after one has completed, call_once returns only when one has and panics *)
(* only while the last one to end has panicked, and a forced closure is    *)
(* told exactly then that the Once was poisoned.                           *)
ImplementsOnce == Abstract!Spec

(* Every thread that parks is woken, however closures end, and also when   *)
(* another call takes the lock before unpark_all has run.                  *)
ParkedIsWoken == \A t \in Threads : (t \in parked) ~> (t \notin parked)

=============================================================================
