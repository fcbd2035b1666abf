------------------------ MODULE AbstractParkingLot --------------------------
(***************************************************************************)
(* What the parking lot (core/src/parking_lot.rs) promises to the locks    *)
(* built on it: one first-in first-out queue of waiting threads for every  *)
(* key.  There are no buckets and no hash table here, and every operation  *)
(* takes effect at one instant.                                            *)
(*                                                                         *)
(* A thread that was taken out of a queue by another one is owed the       *)
(* wakeup: it returns Unparked with the token of that thread, it can       *)
(* neither time out nor be unparked a second time.                         *)
(***************************************************************************)
EXTENDS Naturals, Sequences

CONSTANTS
  Threads,   (* the threads that park and unpark                           *)
  Keys,      (* the addresses they park on                                 *)
  Null       (* no thread                                                  *)

VARIABLES
  call,      (* call[t]: the function of the parking lot t is calling      *)
  waiters,   (* waiters[k]: the queue of the threads parked on key k       *)
  by         (* by[t]: the thread that unparked t, until t returns         *)

avars == <<call, waiters, by>>

Members(q) == {q[i] : i \in DOMAIN q}

(* The queue q without the threads of the set S *)
Without(q, S) == SelectSeq(q, LAMBDA t : t \notin S)

Parked(t) == \E k \in Keys : t \in Members(waiters[k])

Init ==
  /\ call = [t \in Threads |-> "none"]
  /\ waiters = [k \in Keys |-> <<>>]
  /\ by = [t \in Threads |-> Null]

(* A thread calls a function of the parking lot, or its call returns. *)
Call(t) ==
  /\ call[t] = "none"
  /\ \E f \in {"park", "unpark_one", "unpark_all", "unpark_requeue", "unpark_filter"} :
       call' = [call EXCEPT ![t] = f]
  /\ UNCHANGED <<waiters, by>>

Return(t) ==
  /\ call[t] # "none" /\ ~Parked(t)
  /\ call' = [call EXCEPT ![t] = "none"]
  /\ by' = [by EXCEPT ![t] = Null]
  /\ UNCHANGED waiters

Park(t, k) ==
  /\ call[t] = "park"
  /\ ~Parked(t) /\ by[t] = Null
  /\ waiters' = [waiters EXCEPT ![k] = Append(@, t)]
  /\ UNCHANGED <<call, by>>

TimeOut(t) ==
  \E k \in Keys :
    /\ t \in Members(waiters[k])
    /\ waiters' = [waiters EXCEPT ![k] = Without(@, {t})]
    /\ UNCHANGED <<call, by>>

(* Take the threads of S out of the queue of k and owe each a wakeup. *)
Unpark(u, k, S) ==
  /\ S # {} /\ S \subseteq Members(waiters[k])
  /\ waiters' = [waiters EXCEPT ![k] = Without(@, S)]
  /\ by' = [t \in Threads |-> IF t \in S THEN u ELSE by[t]]
  /\ UNCHANGED call

UnparkOne(u, k) ==
  /\ call[u] = "unpark_one"
  /\ waiters[k] # <<>>
  /\ Unpark(u, k, {Head(waiters[k])})

UnparkAll(u, k) ==
  /\ call[u] = "unpark_all"
  /\ Unpark(u, k, Members(waiters[k]))

UnparkFilter(u, k) ==
  /\ call[u] = "unpark_filter"
  /\ \E S \in SUBSET Members(waiters[k]) : Unpark(u, k, S)

(* Unpark the first n threads of from (n is 0 or 1) and move the m threads *)
(* after them to the end of the queue of to, in the same order.            *)
UnparkRequeue(u, from, to) ==
  LET q == waiters[from]
  IN  /\ call[u] = "unpark_requeue"
      /\ from # to /\ q # <<>>
      /\ \E <<n, m>> \in {<<1, 0>>, <<0, 1>>, <<1, Len(q) - 1>>, <<0, Len(q)>>} :
           /\ waiters' = [waiters EXCEPT
                            ![from] = SubSeq(q, n + m + 1, Len(q)),
                            ![to] = @ \o SubSeq(q, n + 1, n + m)]
           /\ by' = [t \in Threads |-> IF n = 1 /\ t = q[1] THEN u ELSE by[t]]
      /\ UNCHANGED call

Next ==
  \E t \in Threads :
    \/ Call(t)
    \/ Return(t)
    \/ TimeOut(t)
    \/ \E k \in Keys :
         \/ Park(t, k)
         \/ UnparkOne(t, k)
         \/ UnparkAll(t, k)
         \/ UnparkFilter(t, k)
         \/ \E to \in Keys : UnparkRequeue(t, k, to)

Spec == Init /\ [][Next]_avars

=============================================================================
