----------------------------- MODULE OnceProofs -----------------------------
(***************************************************************************)
(* Proofs about Once, for any set of threads: its type invariant, that     *)
(* closures run alone, that no wakeup is lost, and that it implements      *)
(* AbstractOnce.                                                           *)
(***************************************************************************)
EXTENDS Once, TLAPS

USE DEF DONE_BIT, POISON_BIT, LOCKED_BIT, PARKED_BIT

(* The inductive invariant.  POISON_BIT is never set together with         *)
(* LOCKED_BIT, which is why a call that finds POISON_BIT may panic without *)
(* looking whether a closure runs; LOCKED_BIT is set while a thread runs   *)
(* its closure, and that thread is the only one.                           *)
States == {{}, {DONE_BIT}, {POISON_BIT}, {LOCKED_BIT}, {LOCKED_BIT, PARKED_BIT}}

Inv ==
  /\ TypeOK
  /\ state \in States
  /\ \A t, u \in Threads : pc[t] = "run" /\ pc[u] = "run" => t = u
  /\ LOCKED_BIT \in state <=> \E t \in Threads : pc[t] = "run"

LEMMA InitInv == Init => Inv
BY DEF Init, Inv, TypeOK, States, Labels

(* One step of one thread keeps the types and the states of the word. *)
LEMMA StepTypeOK ==
  ASSUME TypeOK, state \in States, NEW t \in Threads,
         CallOnce(t) \/ CallOnceForce(t) \/ InCall(t)
  PROVE  TypeOK' /\ state' \in States
<1>1. CASE CallOnce(t) BY <1>1 DEF CallOnce, Goto, TypeOK, Labels
<1>2. CASE CallOnceForce(t) BY <1>2 DEF CallOnceForce, Goto, TypeOK, Labels
<1>3. CASE ReturnDone(t) BY <1>3 DEF ReturnDone, Goto, TypeOK, Labels
<1>4. CASE ReturnPoisoned(t) BY <1>4 DEF ReturnPoisoned, Goto, TypeOK, Labels
<1>5. CASE Grab(t)
  <2>1. state' = {LOCKED_BIT} BY <1>5 DEF Grab, Proceeds, States
  <2> QED BY <1>5, <2>1 DEF Grab, Goto, TypeOK, Labels, States
<1>6. CASE SetParked(t)
  <2>1. state' = {LOCKED_BIT, PARKED_BIT} BY <1>6 DEF SetParked, States
  <2> QED BY <1>6, <2>1 DEF SetParked, Goto, TypeOK, Labels, States
<1>7. CASE Park(t) BY <1>7 DEF Park, Goto, TypeOK, Labels
<1>8. CASE Unparked(t) BY <1>8 DEF Unparked, Goto, TypeOK, Labels
<1>9. CASE Complete(t) BY <1>9 DEF Complete, End, Goto, TypeOK, Labels, States
<1>10. CASE Panic(t) BY <1>10 DEF Panic, End, Goto, TypeOK, Labels, States
<1>11. CASE UnparkAll(t) BY <1>11 DEF UnparkAll, Goto, TypeOK, Labels
<1> QED BY <1>1, <1>2, <1>3, <1>4, <1>5, <1>6, <1>7, <1>8, <1>9, <1>10, <1>11 DEF InCall

(* One step of one thread keeps the thread that runs a closure alone. *)
LEMMA StepRuns ==
  ASSUME Inv, NEW t \in Threads, CallOnce(t) \/ CallOnceForce(t) \/ InCall(t)
  PROVE  /\ \A r, u \in Threads : pc'[r] = "run" /\ pc'[u] = "run" => r = u
         /\ LOCKED_BIT \in state' <=> \E r \in Threads : pc'[r] = "run"
<1> USE DEF Inv
<1>1. CASE Grab(t)
  <2>1. LOCKED_BIT \in state' BY <1>1 DEF Grab
  <2>2. \A u \in Threads : pc[u] # "run" BY <1>1 DEF Grab
  <2> QED BY <1>1, <2>1, <2>2 DEF Grab, Goto, TypeOK
<1>2. CASE Complete(t) \/ Panic(t)
  <2>1. LOCKED_BIT \notin state' BY <1>2 DEF Complete, Panic, End
  <2>2. pc'[t] # "run" BY <1>2 DEF Complete, Panic, End, Goto, TypeOK
  <2>3. \A u \in Threads \ {t} : pc'[u] = pc[u] /\ pc[u] # "run"
    BY <1>2 DEF Complete, Panic, End, Goto, TypeOK
  <2> QED BY <2>1, <2>2, <2>3
<1>3. CASE ~Grab(t) /\ ~Complete(t) /\ ~Panic(t)
  <2>1. \A u \in Threads : pc'[u] = "run" <=> pc[u] = "run"
    BY <1>3 DEF CallOnce, CallOnceForce, InCall, ReturnDone, ReturnPoisoned, SetParked,
                Park, Unparked, UnparkAll, Goto, TypeOK
  <2>2. LOCKED_BIT \in state' <=> LOCKED_BIT \in state
    BY <1>3 DEF CallOnce, CallOnceForce, InCall, ReturnDone, ReturnPoisoned, SetParked,
                Park, Unparked, UnparkAll
  <2> QED BY <2>1, <2>2
<1> QED BY <1>1, <1>2, <1>3

LEMMA NextInv == Inv /\ [Next]_vars => Inv'
<1> SUFFICES ASSUME Inv, [Next]_vars PROVE Inv'
  OBVIOUS
<1>1. CASE Next
  <2> PICK t \in Threads : CallOnce(t) \/ CallOnceForce(t) \/ InCall(t) BY <1>1 DEF Next
  <2> QED BY StepTypeOK, StepRuns DEF Inv
<1>2. CASE UNCHANGED vars BY <1>2 DEF vars, Inv, TypeOK
<1> QED BY <1>1, <1>2

THEOREM OnceInv == Spec => []Inv
BY InitInv, NextInv, PTL DEF Spec

(* The variables keep their types. *)
THEOREM OnceTypeOK == Spec => []TypeOK
<1>1. Inv => TypeOK BY DEF Inv
<1> QED BY <1>1, OnceInv, PTL

-----------------------------------------------------------------------------
(* No wakeup is lost.                                                      *)

LEMMA StepNoLostWakeup ==
  ASSUME Inv, NoLostWakeup, NEW t \in Threads,
         CallOnce(t) \/ CallOnceForce(t) \/ InCall(t)
  PROVE  NoLostWakeup'
<1> USE DEF Inv
<1>1. CASE Park(t)
  <2>1. pc'[t] # pc[t] /\ pc[t] = "park" /\ \A u \in Threads \ {t} : pc'[u] = pc[u]
    BY <1>1 DEF Park, Goto, TypeOK
  <2>2. CASE state = {LOCKED_BIT, PARKED_BIT}
    <3>1. PICK u \in Threads : pc[u] = "run" BY <2>2
    <3>2. pc'[u] = "run" BY <2>1, <3>1
    <3> QED BY <1>1, <2>2, <3>2 DEF NoLostWakeup, Park
  <2>3. CASE state # {LOCKED_BIT, PARKED_BIT}
    <3>1. parked' = parked /\ state' = state BY <1>1, <2>3 DEF Park
    <3> QED BY <2>1, <3>1 DEF NoLostWakeup
  <2> QED BY <2>2, <2>3
<1>2. CASE Complete(t) \/ Panic(t)
  <2>1. parked' = parked /\ pc[t] = "run" /\ \A u \in Threads \ {t} : pc'[u] = pc[u]
    BY <1>2 DEF Complete, Panic, End, Goto, TypeOK
  <2>2. PARKED_BIT \in state => pc'[t] = "unpark_all"
    BY <1>2 DEF Complete, Panic, End, Goto, TypeOK
  <2> QED BY <2>1, <2>2 DEF NoLostWakeup
<1>3. CASE UnparkAll(t) BY <1>3 DEF UnparkAll, NoLostWakeup
<1>4. CASE ~Park(t) /\ ~Complete(t) /\ ~Panic(t) /\ ~UnparkAll(t)
  <2>1. parked' = parked /\ (PARKED_BIT \in state => PARKED_BIT \in state')
    BY <1>4 DEF CallOnce, CallOnceForce, InCall, ReturnDone, ReturnPoisoned, Grab,
                SetParked, Unparked
  <2>2. pc[t] \notin {"run", "unpark_all"} /\ \A u \in Threads \ {t} : pc'[u] = pc[u]
    BY <1>4 DEF CallOnce, CallOnceForce, InCall, ReturnDone, ReturnPoisoned, Grab,
                SetParked, Unparked, Goto, TypeOK
  <2> QED BY <2>1, <2>2 DEF NoLostWakeup
<1> QED BY <1>1, <1>2, <1>3, <1>4

(* While threads are parked on the Once, a closure runs and its end will   *)
(* see PARKED_BIT, or a thread is about to call unpark_all.                *)
THEOREM OnceNoLostWakeup == Spec => []NoLostWakeup
<1>1. Init => NoLostWakeup BY DEF Init, NoLostWakeup
<1>2. Inv /\ NoLostWakeup /\ [Next]_vars => NoLostWakeup'
  <2> SUFFICES ASSUME Inv, NoLostWakeup, [Next]_vars PROVE NoLostWakeup'
    OBVIOUS
  <2>1. CASE Next BY <2>1, StepNoLostWakeup DEF Next
  <2>2. CASE UNCHANGED vars BY <2>2 DEF vars, NoLostWakeup
  <2> QED BY <2>1, <2>2
<1> QED BY <1>1, <1>2, OnceInv, PTL DEF Spec

-----------------------------------------------------------------------------
(* Once implements AbstractOnce.                                           *)

Calls == [t \in Threads |-> CallOf(t)]

(* OnceState by the values the word can have. *)
LEMMA OnceStateIs ==
  ASSUME state \in States
  PROVE  OnceState = IF state = {DONE_BIT} THEN "Done"
                     ELSE IF state = {POISON_BIT} THEN "Poisoned"
                     ELSE IF state = {} THEN "New" ELSE "InProgress"
BY DEF OnceState, States

LEMMA OnceStateIsNext ==
  ASSUME state' \in States
  PROVE  OnceState' = IF state' = {DONE_BIT} THEN "Done"
                      ELSE IF state' = {POISON_BIT} THEN "Poisoned"
                      ELSE IF state' = {} THEN "New" ELSE "InProgress"
BY DEF OnceState, States

(* A step of t changes at most the call of t. *)
LEMMA CallsOfOthers ==
  ASSUME TypeOK, NEW t \in Threads,
         pc' = [pc EXCEPT ![t] = pc'[t]],
         \A u \in Threads \ {t} : ignore_poison'[u] = ignore_poison[u]
  PROVE  Calls' = [Calls EXCEPT ![t] = CallOf(t)']
<1>1. \A u \in Threads \ {t} : CallOf(u)' = CallOf(u) BY DEF CallOf, TypeOK
<1> QED BY <1>1 DEF Calls

(* Every step of a thread is a step of AbstractOnce, or leaves its         *)
(* variables alone.                                                        *)
LEMMA StepRefines ==
  ASSUME Inv, NEW t \in Threads, CallOnce(t) \/ CallOnceForce(t) \/ InCall(t)
  PROVE  [Abstract!Next]_(Abstract!vars)
<1> USE DEF Inv
<1>a. TypeOK' /\ state' \in States BY StepTypeOK
<1>b. Calls' = [Calls EXCEPT ![t] = CallOf(t)']
  <2>1. pc' = [pc EXCEPT ![t] = pc'[t]]
    BY DEF CallOnce, CallOnceForce, InCall, ReturnDone, ReturnPoisoned, Grab, SetParked,
           Park, Unparked, Complete, Panic, End, UnparkAll, Goto, TypeOK
  <2>2. \A u \in Threads \ {t} : ignore_poison'[u] = ignore_poison[u]
    BY DEF CallOnce, CallOnceForce, InCall, ReturnDone, ReturnPoisoned, Grab, SetParked,
           Park, Unparked, Complete, Panic, End, UnparkAll, Goto, TypeOK
  <2> QED BY <2>1, <2>2, CallsOfOthers
<1>c. Calls[t] = CallOf(t) /\ Calls \in [Threads -> {"none", "once", "force", "run"}]
  BY DEF Calls, CallOf
<1>1. CASE CallOnce(t)
  <2>1. CallOf(t) = "none" /\ CallOf(t)' = "once"
    BY <1>1, <1>a DEF CallOnce, Goto, CallOf, TypeOK
  <2>2. OnceState' = OnceState /\ once_state' = once_state BY <1>1 DEF CallOnce, OnceState
  <2>3. Abstract!Call(t, "once") BY <1>b, <1>c, <2>1, <2>2 DEF Abstract!Call, Calls
  <2> QED BY <2>3 DEF Abstract!Next
<1>2. CASE CallOnceForce(t)
  <2>1. CallOf(t) = "none" /\ CallOf(t)' = "force"
    BY <1>2, <1>a DEF CallOnceForce, Goto, CallOf, TypeOK
  <2>2. OnceState' = OnceState /\ once_state' = once_state BY <1>2 DEF CallOnceForce, OnceState
  <2>3. Abstract!Call(t, "force") BY <1>b, <1>c, <2>1, <2>2 DEF Abstract!Call, Calls
  <2> QED BY <2>3 DEF Abstract!Next
<1>3. CASE ReturnDone(t) \/ ReturnPoisoned(t)
  <2>1. CallOf(t) \in {"once", "force"} /\ CallOf(t)' = "none"
    BY <1>3, <1>a DEF ReturnDone, ReturnPoisoned, Goto, CallOf, TypeOK
  <2>2. OnceState' = OnceState /\ once_state' = once_state
    BY <1>3 DEF ReturnDone, ReturnPoisoned, OnceState
  <2>3. OnceState = "Done" \/ (OnceState = "Poisoned" /\ CallOf(t) = "once")
    <3>1. CASE ReturnDone(t)
      <4>1. state = {DONE_BIT} BY <3>1 DEF ReturnDone, States
      <4> QED BY <4>1, OnceStateIs
    <3>2. CASE ReturnPoisoned(t)
      <4>1. state = {POISON_BIT} BY <3>2 DEF ReturnPoisoned, States
      <4>2. CallOf(t) = "once" BY <3>2 DEF ReturnPoisoned, Goto, CallOf
      <4> QED BY <4>1, <4>2, OnceStateIs
    <3> QED BY <1>3, <3>1, <3>2
  <2>4. Abstract!Return(t) BY <1>b, <1>c, <2>1, <2>2, <2>3 DEF Abstract!Return, Calls
  <2> QED BY <2>4 DEF Abstract!Next
<1>4. CASE Grab(t)
  <2>1. state' = {LOCKED_BIT} /\ OnceState' = "InProgress"
    <3>1. state' = {LOCKED_BIT} BY <1>4 DEF Grab, Proceeds, States
    <3> QED BY <1>a, <3>1, OnceStateIsNext
  <2>2. CallOf(t) = (IF ignore_poison[t] THEN "force" ELSE "once") /\ CallOf(t)' = "run"
    BY <1>4, <1>a DEF Grab, Goto, CallOf, TypeOK
  <2>3. \/ OnceState = "New" /\ state = {}
        \/ OnceState = "Poisoned" /\ state = {POISON_BIT} /\ ignore_poison[t]
    BY <1>4, OnceStateIs DEF Grab, Proceeds, States
  <2>4. once_state' = [once_state EXCEPT ![t] = OnceState] BY <1>4, <2>3 DEF Grab
  <2>5. Abstract!Run(t) BY <1>b, <1>c, <2>1, <2>2, <2>3, <2>4 DEF Abstract!Run, Calls
  <2> QED BY <2>5 DEF Abstract!Next
<1>5. CASE SetParked(t) \/ Park(t) \/ Unparked(t) \/ UnparkAll(t)
  <2>1. CallOf(t)' = CallOf(t)
    BY <1>5, <1>a DEF SetParked, Park, Unparked, UnparkAll, Goto, CallOf, TypeOK
  <2>2. Calls' = Calls BY <1>b, <1>c, <2>1
  <2>3. OnceState' = OnceState
    BY <1>5 DEF SetParked, Proceeds, Park, Unparked, UnparkAll, OnceState
  <2>4. once_state' = once_state BY <1>5 DEF SetParked, Park, Unparked, UnparkAll
  <2> QED BY <2>2, <2>3, <2>4 DEF Abstract!vars, Calls
<1>6. CASE Complete(t) \/ Panic(t)
  <2>1. CallOf(t) = "run" /\ CallOf(t)' = "none" /\ once_state' = once_state
    BY <1>6, <1>a DEF Complete, Panic, End, Goto, CallOf, TypeOK
  <2>2. OnceState' \in {"Done", "Poisoned"}
    <3>1. state' \in {{DONE_BIT}, {POISON_BIT}} BY <1>6 DEF Complete, Panic, End
    <3> QED BY <1>a, <3>1, OnceStateIsNext
  <2>3. Abstract!End(t, OnceState') BY <1>b, <1>c, <2>1 DEF Abstract!End, Calls
  <2> QED BY <2>2, <2>3 DEF Abstract!Next
<1> QED BY <1>1, <1>2, <1>3, <1>4, <1>5, <1>6 DEF InCall

(* Once does what its documentation says: its steps are those of           *)
(* AbstractOnce, for any set of threads.                                   *)
THEOREM OnceImplementsOnce == Spec => ImplementsOnce
<1>1. Init => Abstract!Init BY DEF Init, Abstract!Init, OnceState, CallOf
<1>2. Inv /\ [Next]_vars => [Abstract!Next]_(Abstract!vars)
  <2> SUFFICES ASSUME Inv, [Next]_vars PROVE [Abstract!Next]_(Abstract!vars)
    OBVIOUS
  <2>1. CASE Next BY <2>1, StepRefines DEF Next
  <2>2. CASE UNCHANGED vars BY <2>2 DEF vars, Abstract!vars, OnceState, CallOf
  <2> QED BY <2>1, <2>2
<1> QED BY <1>1, <1>2, OnceInv, PTL DEF Spec, ImplementsOnce, Abstract!Spec
=============================================================================
