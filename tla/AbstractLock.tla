---------------------------- MODULE AbstractLock ----------------------------
(***************************************************************************)
(* What a lock promises its users.  A thread is outside of the lock, in a  *)
(* call of a lock function, between the return of that call and its call   *)
(* of an unlock function, or in the unlock function.  The lock has at most *)
(* one owner; it is granted only while it is free, and only its owner      *)
(* gives it up, to nobody or to a thread that is waiting for it (the fair  *)
(* unlock of RawMutex, TOKEN_HANDOFF).                                     *)
(*                                                                         *)
(* WordLock and RawMutex are shown to implement this specification.        *)
(***************************************************************************)

CONSTANTS
  Threads,   (* the threads that use the lock                              *)
  Null       (* the owner of a free lock                                   *)

VARIABLES
  owner,     (* the thread the lock belongs to, or Null                    *)
  client     (* client[t]: where t is                                      *)

Init ==
  /\ owner = Null
  /\ client = [t \in Threads |-> "out"]

Moves(t, to) == client' = [client EXCEPT ![t] = to]

(* A lock function is called. *)
Request(t) ==
  /\ client[t] = "out"
  /\ Moves(t, "locking")
  /\ UNCHANGED owner

(* The lock is free, the thread takes it and the lock function returns. *)
Acquire(t) ==
  /\ client[t] \in {"out", "locking"}
  /\ owner = Null
  /\ owner' = t
  /\ Moves(t, "in")

(* The lock function returns with the lock that was handed to the thread. *)
Receive(t) ==
  /\ client[t] = "locking"
  /\ owner = t
  /\ Moves(t, "in")
  /\ UNCHANGED owner

(* The lock function returns without the lock, after a timeout.  It never  *)
(* does so once the lock is the thread's own.                              *)
GiveUp(t) ==
  /\ client[t] = "locking"
  /\ owner # t
  /\ Moves(t, "out")
  /\ UNCHANGED owner

StartUnlock(t) ==
  /\ client[t] = "in"
  /\ Moves(t, "unlocking")
  /\ UNCHANGED owner

Release(t) ==
  /\ client[t] \in {"in", "unlocking"}
  /\ owner = t
  /\ owner' = Null
  /\ Moves(t, "out") \/ Moves(t, "unlocking")

HandOff(t, u) ==
  /\ client[t] = "unlocking"
  /\ client[u] = "locking"
  /\ owner = t
  /\ owner' = u
  /\ UNCHANGED client

(* The unlock function returns, not before the lock was given up, or locks *)
(* again (RawMutex::bump).                                                 *)
EndUnlock(t) ==
  /\ client[t] = "unlocking"
  /\ owner # t
  /\ Moves(t, "out") \/ Moves(t, "locking")
  /\ UNCHANGED owner

Next ==
  \E t \in Threads :
    \/ Request(t) \/ Acquire(t) \/ Receive(t) \/ GiveUp(t)
    \/ StartUnlock(t) \/ Release(t) \/ EndUnlock(t)
    \/ \E u \in Threads : HandOff(t, u)

Spec == Init /\ [][Next]_<<owner, client>>

=============================================================================
