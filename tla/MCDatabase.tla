----------------------------- MODULE MCDatabase -----------------------------
(* Database with the hash values of its table names. *)
EXTENDS Database
CONSTANTS a, b, c
\* Capacity 3: a and b have a bucket each; c shares that of a until the map
\* has grown, then has its own.
FlatHash == [n \in Names \cup {NoName} |-> CASE n = a -> 1 [] n = b -> 2 [] n = c -> 4 [] OTHER -> 5]
\* a is in bucket 0.
ZeroHash == [n \in Names \cup {NoName} |-> CASE n = a -> 0 [] n = b -> 1 [] n = c -> 3 [] OTHER -> 5]
=============================================================================
