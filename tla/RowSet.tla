------------------------------- MODULE RowSet -------------------------------
(***************************************************************************)
(* What a table promises, without pages, slots or a file: its rows, those  *)
(* stored by the last close, and when the one falls back to the other.     *)
(* TableRows implements it.                                                *)
(*                                                                         *)
(* A table is a set of rows and the number of rows a SELECT shows.  The    *)
(* two agree until a DELETE fails on the way: it may leave a row twice,    *)
(* and such rows are remembered in doubled.                                *)
(*                                                                         *)
(* The promise has a limit, and the variable intact marks it.  Two courses *)
(* of events may damage the table, and no other: a session that has        *)
(* deleted rows, or whose writes failed, ends without a full close; or a   *)
(* session that could not restore the table does more than exit.  Nothing  *)
(* is promised of a damaged table.                                         *)
(***************************************************************************)
EXTENDS Integers

CONSTANTS Values, NoValue

VARIABLES table,    \* the rows of the table, their number, the id of the next one
          stored,   \* the same as the last close stored it
          doubled,  \* the rows that failed DELETEs have left twice
          session,  \* "open", "closed", or "failed": the table was not restored
          where,    \* the condition of the DELETE under way, or NoDelete
          risky,    \* a row was deleted or a write failed in this session
          intact    \* FALSE once the table may be damaged

vars == <<table, stored, doubled, session, where, risky, intact>>

NoDelete == [op |-> "none"]
Condition(w) == [op |-> "delete", where |-> w]
Empty == [rows |-> {}, size |-> 0, next |-> 1]

Init ==
  /\ table = Empty /\ stored = Empty /\ doubled = {}
  /\ session = "open" /\ where = NoDelete /\ risky = FALSE /\ intact = TRUE

Ready == intact /\ session = "open" /\ where = NoDelete
InDelete == intact /\ session = "open" /\ where # NoDelete

\* A row with a new id is added; the write behind it may fail.
Insert(v) ==
  /\ Ready
  /\ table' = [rows |-> table.rows \cup {[id |-> table.next, val |-> v]},
               size |-> table.size + 1, next |-> table.next + 1]
  /\ risky' \in {risky, TRUE}
  /\ UNCHANGED <<stored, doubled, session, where, intact>>

\* An insert that finds no room spends an id.
SpendId ==
  /\ Ready
  /\ table' = [table EXCEPT !.next = @ + 1]
  /\ UNCHANGED <<stored, doubled, session, where, risky, intact>>

BeginDelete(w) ==
  /\ Ready
  /\ where' = Condition(w)
  /\ UNCHANGED <<table, stored, doubled, session, risky, intact>>

\* The rows once one of them, which matches, has been taken out.  A row that
\* is there twice may stay behind.
Without ==
  UNION {{table.rows \ {r}} \cup (IF r \in doubled THEN {table.rows} ELSE {}) :
           r \in {q \in table.rows : q.val \in where.where}}

\* A DELETE removes one row at a time, and only rows that match.
Remove ==
  /\ InDelete
  /\ \E left \in Without :
       table' = [rows |-> left, size |-> table.size - 1, next |-> table.next]
  /\ risky' = TRUE
  /\ UNCHANGED <<stored, doubled, session, where, intact>>

\* It ends when none is left that matches.
EndDelete ==
  /\ InDelete
  /\ \A r \in table.rows : r.val \notin where.where
  /\ where' = NoDelete /\ risky' \in {risky, TRUE}
  /\ UNCHANGED <<table, stored, doubled, session, intact>>

\* Or it fails in the middle of taking out a row, and leaves another one of
\* them twice in its place.
FailDelete ==
  /\ InDelete
  /\ \E left \in Without : \E copied \in left :
       /\ table' = [rows |-> left, size |-> table.size, next |-> table.next]
       /\ doubled' = doubled \cup {copied}
  /\ where' = NoDelete /\ risky' = TRUE
  /\ UNCHANGED <<stored, session, intact>>

Close ==
  /\ Ready
  /\ stored' = table /\ session' = "closed"
  /\ UNCHANGED <<table, doubled, where, risky, intact>>

\* The close has been carried out in full.
Closed ==
  /\ intact /\ session = "closed"
  /\ risky' = FALSE
  /\ UNCHANGED <<table, stored, doubled, session, where, intact>>

\* The session ends without storing: back to what was stored.
Lose ==
  /\ intact /\ ~risky
  /\ table' = stored
  /\ session' = "closed" /\ where' = NoDelete
  /\ UNCHANGED <<stored, doubled, risky, intact>>

\* The next session, which may not be able to restore the table.
Open ==
  /\ intact /\ session = "closed"
  /\ session' \in {"open", "failed"} /\ risky' = FALSE
  /\ UNCHANGED <<table, stored, doubled, where, intact>>

\* A session that has deleted rows, or seen a write fail, is cut short, or
\* one that has not restored the table goes on with it.
Damage ==
  /\ intact /\ (risky \/ where # NoDelete \/ session = "failed")
  /\ intact' = FALSE /\ risky' = TRUE
  /\ table' = Empty /\ stored' = Empty /\ doubled' = {}
  /\ session' = "closed" /\ where' = NoDelete

Next ==
  \/ \E v \in Values : Insert(v)
  \/ SpendId
  \/ \E w \in SUBSET (Values \cup {NoValue}) : BeginDelete(w)
  \/ Remove \/ EndDelete \/ FailDelete
  \/ Close \/ Closed \/ Lose \/ Open \/ Damage

Spec == Init /\ [][Next]_vars
=============================================================================
