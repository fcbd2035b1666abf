---------------------------- MODULE AbstractOnce ----------------------------
(***************************************************************************)
(* What the documentation of src/src/once.rs promises: one closure runs at *)
(* a time, and none after one has completed; call_once returns only when   *)
(* one has completed, and panics only when the last one to end panicked;   *)
(* call_once_force runs its closure all the same, and tells it so.         *)
(***************************************************************************)
CONSTANT Threads

VARIABLES
  phase,        (* an OnceState                                            *)
  call,         (* what each thread does: "none", "once", "force" or "run" *)
  told          (* the OnceState that its closure was given                *)

vars == <<phase, call, told>>

Init ==
  /\ phase \in {"New", "Done"}
  /\ call = [t \in Threads |-> "none"]
  /\ told = [t \in Threads |-> "New"]

Call(t, kind) ==
  /\ call[t] = "none"
  /\ call' = [call EXCEPT ![t] = kind]
  /\ UNCHANGED <<phase, told>>

Run(t) ==
  /\ \/ phase = "New" /\ call[t] \in {"once", "force"}
     \/ phase = "Poisoned" /\ call[t] = "force"
  /\ phase' = "InProgress"
  /\ call' = [call EXCEPT ![t] = "run"]
  /\ told' = [told EXCEPT ![t] = phase]

(* The closure completes, or panics. *)
End(t, outcome) ==
  /\ call[t] = "run"
  /\ phase' = outcome
  /\ call' = [call EXCEPT ![t] = "none"]
  /\ UNCHANGED told

(* call_once returns, or panics, without running its closure. *)
Return(t) ==
  /\ \/ phase = "Done" /\ call[t] \in {"once", "force"}
     \/ phase = "Poisoned" /\ call[t] = "once"
  /\ call' = [call EXCEPT ![t] = "none"]
  /\ UNCHANGED <<phase, told>>

Next ==
  \E t \in Threads :
    \/ \E kind \in {"once", "force"} : Call(t, kind)
    \/ Run(t)
    \/ \E outcome \in {"Done", "Poisoned"} : End(t, outcome)
    \/ Return(t)

Spec == Init /\ [][Next]_vars

=============================================================================
