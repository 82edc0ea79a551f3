------------------------------ MODULE MCHashMap ------------------------------
(* An instance of HashMap for TLC.  k1, k2 and k5 share bucket 1 of every    *)
(* capacity up to 8 and form a chain of three there; k3 and k4 form a chain  *)
(* of two in bucket 0, which the resize to 8 takes apart.                    *)
EXTENDS HashMap

CONSTANTS k1, k2, k3, k4, k5

HashValues ==
  LET h == k1 :> 1 @@ k2 :> 9 @@ k3 :> 4 @@ k4 :> 0 @@ k5 :> 17
  IN [k \in Keys |-> h[k]]
=============================================================================
