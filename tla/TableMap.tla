------------------------------ MODULE TableMap ------------------------------
(* What the hash map promises: a finite map from table names to tables, in   *)
(* which an operation changes what it was called with and nothing else.      *)
CONSTANTS Keys, Values, NoTable

VARIABLES
  map,      \* map[k] is the table of name k, or NoTable
  last      \* the last operation: its key, and the table set or NoTable

vars == <<map, last>>

Change(k, v) ==
  /\ map' = [map EXCEPT ![k] = v]
  /\ last' = [key |-> k, value |-> v]

Init == map = [k \in Keys |-> NoTable] /\ last = [key |-> NoTable, value |-> NoTable]

Set(k, v) == Change(k, v)
Delete(k) == map[k] # NoTable /\ Change(k, NoTable)

Next == \E k \in Keys : Delete(k) \/ \E v \in Values : Set(k, v)

Spec == Init /\ [][Next]_vars
=============================================================================
