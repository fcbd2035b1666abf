----------------------------- MODULE ParkingLot -----------------------------
(***************************************************************************)
(* core/src/parking_lot.rs: the global hash table of queues of parked      *)
(* threads.  Modelled: the creation and the growth of the table, the       *)
(* bucket locks (lock_bucket, lock_bucket_checked, lock_bucket_pair), park *)
(* with and without a timeout, unpark_one, unpark_all, unpark_requeue and  *)
(* unpark_filter, and the creation and the end of threads.                 *)
(*                                                                         *)
(* A table is identified by its hash_bits, since every new table is larger *)
(* than the one it replaces.  A bucket is a pair <<bits, index>>.  The     *)
(* mutex of a bucket is a lock that is free or held (WordLock implements   *)
(* it); its queue is the sequence of the threads its linked list holds.    *)
(* The callbacks of the functions are arbitrary: they are nondeterministic *)
(* choices, made at the point where the code calls them.                   *)
(*                                                                         *)
(* Code that touches only what a held bucket lock protects is one step up  *)
(* to the next access that other threads can see: HASHTABLE, the key of a  *)
(* thread, its parker, a bucket lock or a callback.                        *)
(***************************************************************************)
EXTENDS Naturals, FiniteSets, SequencesExt

CONSTANTS
  Threads,      (* the threads that call the parking lot                   *)
  Keys,         (* the addresses they park on                              *)
  Null,         (* no thread, no table, no key                             *)
  LOAD_FACTOR,  (* buckets per thread                                      *)
  HashWidth,    (* bits of the product that hash() shifts                  *)
  HashValue,    (* HashValue[k]: the product, key times a constant         *)
  MayCall,      (* MayCall[t]: the functions thread t calls                *)
  MaxBits,      (* bound: hash_bits of the largest table                   *)
  MaxCalls      (* bound: calls of the parking lot's functions             *)

ASSUME ParkingLotAssumption ==
  /\ Null \notin Threads \cup Keys \cup Nat
  /\ LOAD_FACTOR \in Nat \ {0}
  /\ HashWidth \in Nat /\ MaxBits \in 0 .. HashWidth
  /\ HashValue \in [Keys -> 0 .. 2 ^ HashWidth - 1]
  /\ IsFiniteSet(Threads)
  /\ LOAD_FACTOR * LOAD_FACTOR <= 2 ^ MaxBits
  /\ LOAD_FACTOR * Cardinality(Threads) <= 2 ^ MaxBits
  /\ MayCall \in [Threads -> SUBSET {"park", "unpark_one", "unpark_all",
                                      "unpark_requeue", "unpark_filter"}]
  /\ MaxCalls \in Nat

VARIABLES
  HASHTABLE,    (* hash_bits of the current table, Null before there is one*)
  mutex,        (* mutex[b]: the thread that holds the lock of bucket b    *)
  queue,        (* queue[b]: queue_head .. queue_tail of bucket b          *)
  NUM_THREADS,  (* live ThreadData objects                                 *)
  live,         (* live[t]: t has a ThreadData                             *)
  key,          (* ThreadData.key                                          *)
  futex,        (* ThreadData.parker: TRUE from prepare_park to unpark_lock*)
  token,        (* ThreadData.unpark_token, here the thread that set it    *)
  pc,           (* where each thread is                                    *)
  call,         (* the function it calls                                   *)
  arg,          (* arg[t]: the keys it passed, and whether with a timeout  *)
  expired,      (* its timeout has passed: it locks its bucket again       *)
  table,        (* the local variable hashtable                            *)
  num,          (* the argument num_threads of grow_hashtable              *)
  idx,          (* the buckets grow_hashtable has locked                   *)
  wake,         (* the threads it took from a queue, not yet unparked      *)
  more,         (* have_more_threads, or ~was_last_thread                  *)
  calls         (* calls made so far (bound)                               *)

vars == <<HASHTABLE, mutex, queue, NUM_THREADS, live, key, futex, token, pc,
          call, arg, expired, table, num, idx, wake, more, calls>>

shared == <<HASHTABLE, mutex, queue>>
threadData == <<NUM_THREADS, live, key, futex, token>>

-----------------------------------------------------------------------------

Tables  == 0 .. MaxBits
Buckets == {<<b, i>> \in Tables \X (0 .. 2 ^ MaxBits - 1) : i < 2 ^ b}

(* hash(key, bits): the high bits of the product *)
Hash(k, bits) == HashValue[k] \div 2 ^ (HashWidth - bits)

Bucket(k, bits) == <<bits, Hash(k, bits)>>

(* hash_bits of HashTable::new(num_threads): next_power_of_two *)
HashBits(num_threads) ==
  CHOOSE b \in Tables :
    /\ num_threads * LOAD_FACTOR <= 2 ^ b
    /\ \A c \in 0 .. b - 1 : 2 ^ c < num_threads * LOAD_FACTOR

(* The threads of a queue that wait on key k, in the order of the queue *)
Waiting(q, k) == SelectSeq(q, LAMBDA t : key[t] = k)
Without(q, S) == SelectSeq(q, LAMBDA t : t \notin S)

Calls == {"park", "unpark_one", "unpark_all", "unpark_requeue", "unpark_filter"}

Labels == {"idle", "grow", "grow_lock", "grow_unlock", "get", "get_key", "lock",
           "lock2", "locked", "parked", "callback", "deliver", "timed_out"}

Args == [key : Keys, to : Keys, timeout : BOOLEAN]
NoArg == [key |-> Null, to |-> Null, timeout |-> FALSE]

TypeOK ==
  /\ HASHTABLE \in Tables \cup {Null}
  /\ mutex \in [Buckets -> Threads \cup {Null}]
  /\ queue \in [Buckets -> Seq(Threads)]
  /\ NUM_THREADS = Cardinality({t \in Threads : live[t]})
  /\ live \in [Threads -> BOOLEAN]
  /\ key \in [Threads -> Keys \cup {Null}]
  /\ futex \in [Threads -> BOOLEAN]
  /\ token \in [Threads -> Threads \cup {Null}]
  /\ pc \in [Threads -> Labels]
  /\ call \in [Threads -> Calls \cup {"none"}]
  /\ arg \in [Threads -> Args \cup {NoArg}]
  /\ expired \in [Threads -> BOOLEAN]
  /\ table \in [Threads -> Tables \cup {Null}]
  /\ num \in [Threads -> Nat]
  /\ idx \in [Threads -> 0 .. 2 ^ MaxBits]
  /\ wake \in [Threads -> Seq(Threads)]
  /\ more \in [Threads -> BOOLEAN]
  /\ calls \in 0 .. MaxCalls

Init ==
  /\ HASHTABLE = Null
  /\ mutex = [b \in Buckets |-> Null]
  /\ queue = [b \in Buckets |-> <<>>]
  /\ NUM_THREADS = 0
  /\ live = [t \in Threads |-> FALSE]
  /\ key = [t \in Threads |-> Null]
  /\ futex = [t \in Threads |-> FALSE]
  /\ token = [t \in Threads |-> Null]
  /\ pc = [t \in Threads |-> "idle"]
  /\ call = [t \in Threads |-> "none"]
  /\ arg = [t \in Threads |-> NoArg]
  /\ expired = [t \in Threads |-> FALSE]
  /\ table = [t \in Threads |-> Null]
  /\ num = [t \in Threads |-> 0]
  /\ idx = [t \in Threads |-> 0]
  /\ wake = [t \in Threads |-> <<>>]
  /\ more = [t \in Threads |-> FALSE]
  /\ calls = 0

Goto(t, from, to) ==
  /\ pc[t] = from
  /\ pc' = [pc EXCEPT ![t] = to]

(* The function returns; its local variables are gone. *)
Return(t) ==
  /\ pc' = [pc EXCEPT ![t] = "idle"]
  /\ call' = [call EXCEPT ![t] = "none"]
  /\ arg' = [arg EXCEPT ![t] = NoArg]
  /\ expired' = [expired EXCEPT ![t] = FALSE]
  /\ table' = [table EXCEPT ![t] = Null]
  /\ more' = [more EXCEPT ![t] = FALSE]
  /\ UNCHANGED <<num, idx, wake, calls>>

(* Unlock the buckets of the set B. *)
Unlocked(B) == [b \in Buckets |-> IF b \in B THEN Null ELSE mutex[b]]

Held(t) == {b \in Buckets : mutex[b] = t}

-----------------------------------------------------------------------------
(* Threads and the hash table *)

(* A thread calls a function of the parking lot.  The first call of park   *)
(* by a thread creates its ThreadData, which may have to grow the table.   *)
Call(t) ==
  /\ calls < MaxCalls
  /\ calls' = calls + 1
  /\ \E f \in MayCall[t], a \in Args :
       /\ f = "unpark_requeue" => a.key # a.to
       /\ f # "unpark_requeue" => a.key = a.to
       /\ a.timeout => f = "park"
       /\ call' = [call EXCEPT ![t] = f]
       /\ arg' = [arg EXCEPT ![t] = a]
       /\ IF f = "park" /\ ~live[t]
          THEN /\ Goto(t, "idle", "grow")
               /\ NUM_THREADS' = NUM_THREADS + 1
               /\ num' = [num EXCEPT ![t] = NUM_THREADS + 1]
               /\ live' = [live EXCEPT ![t] = TRUE]
          ELSE /\ Goto(t, "idle", "get")
               /\ UNCHANGED <<NUM_THREADS, num, live>>
  /\ UNCHANGED <<shared, key, futex, token, expired, table, idx, wake, more>>

(* The thread ends and its ThreadData is dropped. *)
ThreadExit(t) ==
  /\ pc[t] = "idle" /\ live[t]
  /\ live' = [live EXCEPT ![t] = FALSE]
  /\ NUM_THREADS' = NUM_THREADS - 1
  /\ key' = [key EXCEPT ![t] = Null]
  /\ token' = [token EXCEPT ![t] = Null]
  /\ UNCHANGED <<shared, futex, pc, call, arg, expired, table, num, idx, wake,
                 more, calls>>

(* get_hashtable: load the current table, or create the first one.  When   *)
(* two threads create it, the compare_exchange lets one of them win.       *)
GetHashtable(t) ==
  /\ HASHTABLE' = IF HASHTABLE = Null THEN HashBits(LOAD_FACTOR) ELSE HASHTABLE
  /\ table' = [table EXCEPT ![t] = HASHTABLE']

(* grow_hashtable: nothing to do, or lock the buckets one after the other. *)
GrowGet(t) ==
  /\ pc[t] = "grow"
  /\ GetHashtable(t)
  /\ idx' = [idx EXCEPT ![t] = 0]
  /\ IF 2 ^ table'[t] >= LOAD_FACTOR * num[t]
     THEN /\ Goto(t, "grow", "get")
          /\ num' = [num EXCEPT ![t] = 0]
     ELSE /\ Goto(t, "grow", "grow_lock")
          /\ UNCHANGED num
  /\ UNCHANGED <<mutex, queue, threadData, call, arg, expired, wake, more, calls>>

GrowLock(t) ==
  LET b == <<table[t], idx[t]>>
  IN  /\ pc[t] = "grow_lock"
      /\ idx[t] < 2 ^ table[t]
      /\ mutex[b] = Null
      /\ mutex' = [mutex EXCEPT ![b] = t]
      /\ idx' = [idx EXCEPT ![t] = @ + 1]
      /\ UNCHANGED <<HASHTABLE, queue, threadData, pc, call, arg, expired, table,
                     num, wake, more, calls>>

(* Mutant: any larger table will do. *)
GrowRetrySatisfied(t) ==
  /\ Goto(t, "grow_lock", "get")
  /\ idx[t] = 2 ^ table[t]
  /\ HASHTABLE # table[t]
  /\ mutex' = Unlocked(Held(t))
  /\ num' = [num EXCEPT ![t] = 0]
  /\ UNCHANGED <<HASHTABLE, queue, threadData, call, arg, expired, table, idx,
                 wake, more, calls>>

(* Another thread has grown the table in the meantime: start again. *)
GrowRetry(t) ==
  /\ Goto(t, "grow_lock", "grow")
  /\ idx[t] = 2 ^ table[t]
  /\ HASHTABLE # table[t]
  /\ mutex' = Unlocked(Held(t))
  /\ UNCHANGED <<HASHTABLE, queue, threadData, call, arg, expired, table, num,
                 idx, wake, more, calls>>

(* rehash_bucket_into for every bucket in order.  The lists of the old     *)
(* table are left as they are.                                             *)
Entries(bits) == [n \in 1 .. 2 ^ bits |-> queue[<<bits, n - 1>>]]

(* Mutant: rehashing pushes the threads in front of each other. *)
RehashedReversed(old, new) ==
  [b \in Buckets |->
     IF b[1] = new
     THEN SelectSeq(Reverse(FlattenSeq(Entries(old))),
                    LAMBDA t : Bucket(key[t], new) = b)
     ELSE queue[b]]

Rehashed(old, new) ==
  [b \in Buckets |->
     IF b[1] = new
     THEN SelectSeq(FlattenSeq(Entries(old)), LAMBDA t : Bucket(key[t], new) = b)
     ELSE queue[b]]

GrowPublish(t) ==
  LET new == HashBits(num[t])
  IN  /\ Goto(t, "grow_lock", "grow_unlock")
      /\ idx[t] = 2 ^ table[t]
      /\ HASHTABLE = table[t]
      /\ queue' = Rehashed(table[t], new)
      /\ HASHTABLE' = new
      /\ UNCHANGED <<mutex, threadData, call, arg, expired, table, num, idx,
                     wake, more, calls>>

GrowUnlock(t) ==
  /\ Goto(t, "grow_unlock", "get")
  /\ mutex' = Unlocked(Held(t))
  /\ num' = [num EXCEPT ![t] = 0]
  /\ idx' = [idx EXCEPT ![t] = 0]
  /\ UNCHANGED <<HASHTABLE, queue, threadData, call, arg, expired, table, wake,
                 more, calls>>

-----------------------------------------------------------------------------
(* Bucket locks.  A thread whose timeout expired locks the bucket of the   *)
(* key it waits on now (lock_bucket_checked); unpark_requeue locks two     *)
(* buckets, the lower index first (lock_bucket_pair).                      *)

Get(t) ==
  /\ Goto(t, "get", IF expired[t] THEN "get_key" ELSE "lock")
  /\ GetHashtable(t)
  /\ UNCHANGED <<mutex, queue, threadData, call, arg, expired, num, idx, wake,
                 more, calls>>

GetKey(t) ==
  /\ Goto(t, "get_key", "lock")
  /\ arg' = [arg EXCEPT ![t].key = key[t]]
  /\ UNCHANGED <<shared, threadData, call, expired, table, num, idx, wake, more,
                 calls>>

(* Mutant: the bucket of key_from is always locked first. *)
BucketsUnordered(t) ==
  <<Bucket(arg[t].key, table[t]), Bucket(arg[t].to, table[t])>>

BucketsInOrder(t) ==
  LET b1 == Bucket(arg[t].key, table[t])
      b2 == Bucket(arg[t].to, table[t])
  IN  IF call[t] # "unpark_requeue" \/ b1[2] <= b2[2]
      THEN <<b1, b2>> ELSE <<b2, b1>>

Bucket1(t) == BucketsInOrder(t)[1]
Bucket2(t) == BucketsInOrder(t)[2]

(* Mutants: the key, or the table, is not looked at again. *)
StillCurrentTable(t) == HASHTABLE = table[t]
StillCurrentKey(t) == expired[t] => key[t] = arg[t].key

(* The lock is worth keeping if the table, and for an expired wait the     *)
(* key, are still the ones it was chosen by.                               *)
StillCurrent(t) ==
  /\ HASHTABLE = table[t]
  /\ expired[t] => key[t] = arg[t].key

Lock(t) ==
  /\ pc[t] = "lock"
  /\ mutex[Bucket1(t)] = Null
  /\ IF StillCurrent(t)
     THEN /\ mutex' = [mutex EXCEPT ![Bucket1(t)] = t]
          /\ Goto(t, "lock", IF call[t] = "unpark_requeue" /\ Bucket1(t) # Bucket2(t)
                             THEN "lock2" ELSE "locked")
     ELSE /\ Goto(t, "lock", "get")
          /\ UNCHANGED mutex
  /\ UNCHANGED <<HASHTABLE, queue, threadData, call, arg, expired, table, num,
                 idx, wake, more, calls>>

Lock2(t) ==
  /\ Goto(t, "lock2", "locked")
  /\ mutex[Bucket2(t)] = Null
  /\ mutex' = [mutex EXCEPT ![Bucket2(t)] = t]
  /\ UNCHANGED <<HASHTABLE, queue, threadData, call, arg, expired, table, num,
                 idx, wake, more, calls>>

(* The thread has locked what the function f needs. *)
Locked(t, f) ==
  /\ pc[t] = "locked"
  /\ call[t] = f

-----------------------------------------------------------------------------
(* park *)


ParkInvalid(t) ==
  /\ Locked(t, "park") /\ ~expired[t]
  /\ mutex' = Unlocked(Held(t))
  /\ Return(t)
  /\ UNCHANGED <<HASHTABLE, queue, threadData>>

(* validate returned true: append the thread and unlock the bucket. *)
Park(t) ==
  /\ Locked(t, "park") /\ ~expired[t]
  /\ Goto(t, "locked", "parked")
  /\ key' = [key EXCEPT ![t] = arg[t].key]
  /\ futex' = [futex EXCEPT ![t] = TRUE]
  /\ queue' = [queue EXCEPT ![Bucket1(t)] = Append(@, t)]
  /\ mutex' = Unlocked(Held(t))
  /\ table' = [table EXCEPT ![t] = Null]
  /\ UNCHANGED <<HASHTABLE, NUM_THREADS, live, token, call, arg, expired, num,
                 idx, wake, more, calls>>

(* parker.park() or park_until() saw that the thread was unparked. *)
Unparked(t) ==
  /\ pc[t] = "parked" /\ ~futex[t]
  /\ Return(t)
  /\ UNCHANGED <<shared, threadData>>

(* park_until() gave up while the thread was still parked. *)
Expire(t) ==
  /\ Goto(t, "parked", "get")
  /\ arg[t].timeout /\ futex[t]
  /\ expired' = [expired EXCEPT ![t] = TRUE]
  /\ UNCHANGED <<shared, threadData, call, arg, table, num, idx, wake, more, calls>>

(* timed_out() is false: the thread was unparked before it got the lock.   *)
UnparkedLate(t) ==
  /\ Locked(t, "park") /\ expired[t] /\ ~futex[t]
  /\ mutex' = Unlocked(Held(t))
  /\ Return(t)
  /\ UNCHANGED <<HASHTABLE, queue, threadData>>

(* The thread removes itself from the queue, if it finds itself there, and *)
(* computes was_last_thread.                                               *)
RemoveSelf(t) ==
  LET q == queue[Bucket1(t)]
  IN  /\ Locked(t, "park") /\ expired[t] /\ futex[t]
      /\ Goto(t, "locked", "timed_out")
      /\ queue' = [queue EXCEPT ![Bucket1(t)] = Without(q, {t})]
      /\ more' = [more EXCEPT ![t] = Waiting(Without(q, {t}), arg[t].key) # <<>>]
      /\ UNCHANGED <<HASHTABLE, mutex, threadData, call, arg, expired, table, num,
                     idx, wake, calls>>

(* The timed_out callback, then the bucket is unlocked. *)
TimedOut(t) ==
  /\ pc[t] = "timed_out"
  /\ mutex' = Unlocked(Held(t))
  /\ Return(t)
  /\ UNCHANGED <<HASHTABLE, queue, threadData>>

-----------------------------------------------------------------------------
(* unpark_one, unpark_all, unpark_requeue, unpark_filter *)

(* Take the threads of the sequence s out of the queue and leave them to   *)
(* Deliver; what remains for the key is reported as have_more_threads.     *)
Take(t, s, have_more) ==
  /\ Goto(t, "locked", "callback")
  /\ queue' = [queue EXCEPT ![Bucket1(t)] = Without(@, ToSet(s))]
  /\ wake' = [wake EXCEPT ![t] = s]
  /\ more' = [more EXCEPT ![t] = have_more]
  /\ UNCHANGED <<HASHTABLE, mutex, threadData, call, arg, expired, table, num,
                 idx, calls>>

Matching(t) == Waiting(queue[Bucket(arg[t].key, table[t])], arg[t].key)


UnparkOne(t) ==
  LET s == Matching(t)
  IN  /\ Locked(t, "unpark_one")
      /\ IF s = <<>> THEN Take(t, <<>>, FALSE)
         ELSE Take(t, <<s[1]>>, Len(s) > 1)

UnparkAll(t) ==
  /\ Locked(t, "unpark_all")
  /\ Take(t, Matching(t), FALSE)

(* The filter looks at the first n threads, unparks some and skips the     *)
(* others, and stops at the next one if there is one.                      *)
UnparkFilter(t) ==
  LET s == Matching(t)
  IN  /\ Locked(t, "unpark_filter")
      /\ \E n \in 0 .. Len(s) : \E U \in SUBSET ToSet(SubSeq(s, 1, n)) :
           Take(t, SelectSeq(s, LAMBDA u : u \in U),
                n < Len(s) \/ U # ToSet(SubSeq(s, 1, n)))

(* RequeueOp::Abort *)
RequeueAbort(t) ==
  /\ Locked(t, "unpark_requeue")
  /\ mutex' = Unlocked(Held(t))
  /\ Return(t)
  /\ UNCHANGED <<HASHTABLE, queue, threadData>>

(* Unpark the first thread if the operation says so, move the next m to    *)
(* the queue of the other key.                                             *)
Requeue(t, n, m, have_more) ==
  LET s == Matching(t)
      from == Bucket(arg[t].key, table[t])
      to == Bucket(arg[t].to, table[t])
      moved == SubSeq(s, n + 1, n + m)
      removed == [queue EXCEPT ![from] = Without(@, ToSet(SubSeq(s, 1, n + m)))]
  IN  /\ Goto(t, "locked", "callback")
      /\ queue' = [removed EXCEPT ![to] = @ \o moved]
      /\ key' = [u \in Threads |-> IF u \in ToSet(moved) THEN arg[t].to ELSE key[u]]
      /\ wake' = [wake EXCEPT ![t] = SubSeq(s, 1, n)]
      /\ more' = [more EXCEPT ![t] = have_more]
      /\ UNCHANGED <<HASHTABLE, mutex, NUM_THREADS, live, futex, token, call, arg,
                     expired, table, num, idx, calls>>

UnparkRequeue(t) ==
  LET len == Len(Matching(t))
  IN  /\ Locked(t, "unpark_requeue")
      /\ \/ len = 0 /\ Requeue(t, 0, 0, FALSE)
         \/ len > 0 /\ Requeue(t, 1, len - 1, FALSE)    \* UnparkOneRequeueRest
         \/ len > 0 /\ Requeue(t, 0, len, FALSE)        \* RequeueAll
         \/ len > 0 /\ Requeue(t, 1, 0, len > 1)        \* UnparkOne
         \/ len > 0 /\ Requeue(t, 0, 1, len > 1)        \* RequeueOne

(* Mutant: the buckets are unlocked before the threads are unparked. *)
CallbackUnlocks(t) ==
  /\ Goto(t, "callback", "deliver")
  /\ mutex' = Unlocked(Held(t))
  /\ UNCHANGED <<HASHTABLE, queue, threadData, call, arg, expired, table, num, idx,
                 wake, more, calls>>

(* The callback chooses the token, under the bucket locks. *)
Callback(t) ==
  /\ Goto(t, "callback", "deliver")
  /\ UNCHANGED <<shared, threadData, call, arg, expired, table, num, idx, wake,
                 more, calls>>

(* Set the token of the next thread and let its parker go (unpark_lock). *)
Deliver(t) ==
  LET u == Head(wake[t])
  IN  /\ pc[t] = "deliver" /\ wake[t] # <<>>
      /\ token' = [token EXCEPT ![u] = t]
      /\ futex' = [futex EXCEPT ![u] = FALSE]
      /\ wake' = [wake EXCEPT ![t] = Tail(@)]
      /\ UNCHANGED <<shared, NUM_THREADS, live, key, pc, call, arg, expired, table,
                     num, idx, more, calls>>

(* Unlock the bucket or buckets; handle.unpark() makes the system calls.   *)
Unlock(t) ==
  /\ pc[t] = "deliver" /\ wake[t] = <<>>
  /\ mutex' = Unlocked(Held(t))
  /\ Return(t)
  /\ UNCHANGED <<HASHTABLE, queue, threadData>>

-----------------------------------------------------------------------------

ThreadStep(t) ==
  \/ Call(t) \/ ThreadExit(t)
  \/ GrowGet(t) \/ GrowLock(t) \/ GrowRetry(t) \/ GrowPublish(t) \/ GrowUnlock(t)
  \/ Get(t) \/ GetKey(t) \/ Lock(t) \/ Lock2(t)

ParkStep(t) ==
  \/ ParkInvalid(t) \/ Park(t) \/ Unparked(t) \/ Expire(t) \/ UnparkedLate(t)
  \/ RemoveSelf(t) \/ TimedOut(t)

UnparkStep(t) ==
  \/ UnparkOne(t) \/ UnparkAll(t) \/ UnparkFilter(t)
  \/ RequeueAbort(t) \/ UnparkRequeue(t)
  \/ Callback(t) \/ Deliver(t) \/ Unlock(t)

Step(t) == ThreadStep(t) \/ ParkStep(t) \/ UnparkStep(t)

Next == \E t \in Threads : Step(t)

Spec == Init /\ [][Next]_vars

(* Threads run, bucket locks are granted and timeouts pass. *)
FairSpec == Spec /\ \A t \in Threads : WF_vars(Step(t))

-----------------------------------------------------------------------------
(* Properties *)

(* t is inside park, after it was put into a queue and before it returned. *)
InPark(t) ==
  /\ call[t] = "park"
  /\ \/ pc[t] = "parked"
     \/ expired[t] /\ pc[t] \in {"get", "get_key", "lock", "locked"}

(* Some thread took t out of its queue and has not yet unparked it. *)
Taken(t) == \E u \in Threads : t \in ToSet(wake[u])

Entry(b, t) == \E i \in DOMAIN queue[b] : queue[b][i] = t

(* No thread is lost or duplicated: a thread that waits and was not taken  *)
(* out is in the queue of exactly the bucket its key hashes to in the      *)
(* current table, once, whatever rehashes, requeues and timeouts happened; *)
(* and only such threads are in these queues (the lists hold pointers to   *)
(* their ThreadData).                                                      *)
QueuesHoldWaiters ==
  HASHTABLE # Null =>
    \A t \in Threads :
      LET places == {<<i, n>> \in (0 .. 2 ^ HASHTABLE - 1) \X (1 .. Cardinality(Threads)) :
                       /\ n <= Len(queue[<<HASHTABLE, i>>])
                       /\ queue[<<HASHTABLE, i>>][n] = t}
      IN  IF InPark(t) /\ futex[t] /\ ~Taken(t)
          THEN \E n \in 1 .. Cardinality(Threads) :
                 places = {<<Hash(key[t], HASHTABLE), n>>}
          ELSE places = {}

(* A thread that was taken out of a queue stays inside park, where its     *)
(* ThreadData is valid, until it is unparked, even when its timeout passes *)
(* (the comments in unpark_one), and only one thread unparks it.           *)
ThreadDataAlive ==
  \A u \in Threads : \A t \in ToSet(wake[u]) :
    /\ live[t] /\ InPark(t) /\ futex[t]
    /\ \A v \in Threads \ {u} : t \notin ToSet(wake[v])

(* The debug_assert at the end of park: a thread whose parker says that it *)
(* timed out is still in the queue of the bucket it locked.                *)
TimedOutInQueue ==
  \A t \in Threads :
    Locked(t, "park") /\ expired[t] /\ futex[t] => Entry(Bucket1(t), t)

(* The waiting threads of key k: what the hash table implements *)
Waiters(k) ==
  IF HASHTABLE = Null THEN <<>>
  ELSE Waiting(queue[Bucket(k, HASHTABLE)], k)


(* The bucket a thread waits for while it holds others *)
WaitsFor(t) ==
  CASE pc[t] = "grow_lock" /\ idx[t] < 2 ^ table[t] -> {<<table[t], idx[t]>>}
    [] pc[t] = "lock" -> {Bucket1(t)}
    [] pc[t] = "lock2" -> {Bucket2(t)}
    [] OTHER -> {}

(* Bucket locks cannot deadlock: a thread that waits for a bucket holds    *)
(* only buckets of the same table with a smaller index.                    *)
LockOrder ==
  \A t \in Threads : \A b \in WaitsFor(t) : \A h \in Held(t) :
    h[1] = b[1] /\ h[2] < b[2]

(* The table has LOAD_FACTOR buckets for every thread that has been set up *)
(* (grow_hashtable, the comment at LOAD_FACTOR), although threads come, go *)
(* and grow the table at the same time.                                    *)
TableLargeEnough ==
  LET ready == {t \in Threads : live[t] /\ pc[t] \notin {"grow", "grow_lock", "grow_unlock"}}
  IN  ready # {} =>
        /\ HASHTABLE # Null
        /\ 2 ^ HASHTABLE >= LOAD_FACTOR * Cardinality(ready)


-----------------------------------------------------------------------------

(* The thread that unparked t: the one that took it out of the queue, or   *)
(* once the token is delivered, the thread whose token it is.              *)
UnparkedBy(t) ==
  IF Taken(t) THEN CHOOSE u \in Threads : t \in ToSet(wake[u])
  ELSE IF InPark(t) /\ ~futex[t] THEN token[t]
  ELSE Null

Abstract == INSTANCE AbstractParkingLot
              WITH waiters <- [k \in Keys |-> Waiters(k)],
                   by <- [t \in Threads |-> UnparkedBy(t)]

(* The hash table implements one FIFO queue per key with atomic            *)
(* operations: growing the table is invisible, a thread that was taken out *)
(* returns Unparked with the token of the thread that took it, and one     *)
(* that timed out was not unparked.                                        *)
ImplementsQueues == Abstract!Spec

=============================================================================
