---------------------------- MODULE MCParkingLot ----------------------------
(* Model checking ParkingLot with two keys.                                *)
EXTENDS ParkingLot

CONSTANTS k1, k2,    (* the keys                                           *)
          Parkers    (* the threads that FewRoles lets park                *)

(* The keys share the bucket of the first table and have buckets of their  *)
(* own in the second.                                                      *)
Apart == k1 :> 2 @@ k2 :> 0

AnyCall == [t \in Threads |-> Calls]

(* Only the functions that lock one bucket, two or all of them *)
FewRoles == [t \in Threads |-> IF t \in Parkers THEN {"park"}
                               ELSE {"unpark_requeue"}]

Symmetry == Permutations(Parkers) \cup Permutations(Threads \ Parkers)

=============================================================================
