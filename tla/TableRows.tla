------------------------------ MODULE TableRows ------------------------------
(***************************************************************************)
(* One table of the database: its rows in cached pages, the database file  *)
(* behind them, and its header slot, through INSERT, DELETE, close, exit   *)
(* and open (core/row, storage/pager.c, storage/header_*.c).               *)
(*                                                                         *)
(* A row slot is numbered across the pages of the table: slot s is row     *)
(* s % RowsPerPage of page s \div RowsPerPage, as the code computes it.    *)
(* Column values are abstracted to one value per row, which is what a      *)
(* WHERE condition sees.  Other tables and the header count are the        *)
(* business of module Database; here the table owns its extent.            *)
(***************************************************************************)
EXTENDS Integers, FiniteSets

CONSTANTS
  Values,        \* the column values a row may carry
  NoValue,       \* what an all-zero (calloc'ed) slot reads as
  RowsPerPage,   \* calculate_rows_per_page(table)
  MaxPages,      \* TABLE_MAX_PAGES
  MaxRows,       \* TABLE_MAX_ROWS
  MaxId,         \* bound: inserts stop once next_id exceeds it
  Faults         \* TRUE: reads and writes may fail, the process may die

ASSUME ParamAssumption ==
  /\ NoValue \notin Values
  /\ RowsPerPage \in Nat \ {0}
  /\ MaxPages \in Nat \ {0}
  /\ MaxRows \in Nat
  /\ MaxId \in Nat
  /\ Faults \in BOOLEAN

VARIABLES
  num_rows, next_id,   \* Table.num_rows, Table.next_id
  cached,              \* page numbers p with Table.pages[p] # NULL
  pages,               \* slot contents of the cached pages
  file,                \* slot contents of the table's extent in the file
  header,              \* num_rows and next_id of the table's header slot
  session,             \* where the process is
  stmt,                \* the DELETE under way, or no statement
  result,              \* result of the last statement
  saved,               \* history: the live rows at the last header store
  touched,             \* history: rows deleted or a write failed since open
  doubled,             \* history: the rows that failed DELETEs have left twice
  sound                \* history: no such session ended without a full close,
                       \* and none went on with a table it could not restore

vars == <<num_rows, next_id, cached, pages, file, header, session, stmt,
          result, saved, touched, doubled, sound>>

-----------------------------------------------------------------------------
PageNums == 0 .. MaxPages - 1
Slots == 0 .. MaxPages * RowsPerPage - 1
PageOf(s) == s \div RowsPerPage
StartsPage(s) == s % RowsPerPage = 0

Row == [id : 0 .. MaxId, val : Values \cup {NoValue}]
BlankRow == [id |-> 0, val |-> NoValue]
Blank == [s \in Slots |-> BlankRow]

\* The slots of page p taken from g, the others from f: one page of f
\* loaded, flushed, zeroed or released.
Overlay(f, g, p) == [s \in Slots |-> IF PageOf(s) = p THEN g[s] ELSE f[s]]

\* The first n slots of f, the rest blank.
Prefix(f, n) == [s \in Slots |-> IF s < n THEN f[s] ELSE BlankRow]

Idle == [op |-> "idle"]
Deleting == [op : {"delete"}, where : SUBSET (Values \cup {NoValue}),
             index : Nat, deleted_any : BOOLEAN]
Results == {"none", "success", "not_found", "failure"}

-----------------------------------------------------------------------------
\* A table just created, stored and opened again.
Init ==
  /\ num_rows = 0 /\ next_id = 1
  /\ cached = {} /\ pages = Blank /\ file = Blank
  /\ header = [num_rows |-> 0, next_id |-> 1]
  /\ session = "open" /\ stmt = Idle /\ result = "none"
  /\ saved = Blank /\ touched = FALSE /\ doubled = {} /\ sound = TRUE

Ready == session = "open" /\ stmt = Idle
Unsaved == <<header, session, saved, doubled, sound>>

\* The table stays sound or not, and while it does, rows are known to be there
\* twice.
Sound(kept, rows) ==
  /\ sound' = (sound /\ kept)
  /\ doubled' = IF sound /\ kept THEN rows ELSE {}

\* pager_page_load of the pages P: a cached page is used as it is, another
\* one is read from the file.
Load(P) ==
  [s \in Slots |-> IF PageOf(s) \in P \ cached THEN file[s] ELSE pages[s]]

-----------------------------------------------------------------------------
(* INSERT                                                                  *)

\* The executor refuses a row once the table holds TABLE_MAX_ROWS.
InsertRefused ==
  /\ Ready /\ num_rows >= MaxRows
  /\ result' = "failure"
  /\ UNCHANGED <<num_rows, next_id, cached, pages, file, stmt, touched, Unsaved>>

\* The new row would start a page beyond TABLE_MAX_PAGES: pager_page_alloc
\* refuses, after initialize_row has spent the id.
InsertNoPage ==
  /\ Ready /\ num_rows < MaxRows /\ next_id <= MaxId
  /\ PageOf(num_rows) \notin PageNums
  /\ next_id' = next_id + 1
  /\ result' = "failure"
  /\ UNCHANGED <<num_rows, cached, pages, file, stmt, touched, Unsaved>>

\* The page the row is put in: zeroed by pager_page_alloc when the row starts
\* it and it is not cached, loaded otherwise.
InsertPages(p) ==
  IF StartsPage(num_rows) /\ p \notin cached THEN Overlay(pages, Blank, p)
                                             ELSE Load({p})

\* Mutant of InsertRow: the id is the row number instead of next_id.
MutInsertRow(v) ==
  LET p == PageOf(num_rows)
  IN /\ Ready /\ num_rows < MaxRows /\ next_id <= MaxId
     /\ p \in PageNums
     /\ next_id' = next_id + 1
     /\ pages' = [InsertPages(p) EXCEPT ![num_rows] = [id |-> num_rows + 1, val |-> v]]
     /\ cached' = cached \cup {p}
     /\ num_rows' = num_rows + 1
     /\ file' = Overlay(file, pages', p)
     /\ result' = "success"
     /\ UNCHANGED <<stmt, touched, Unsaved>>

\* The row goes to slot num_rows, then its page is flushed.  When the flush
\* fails the statement fails, but the row stays in the table.
InsertRow(v) ==
  LET p == PageOf(num_rows)
  IN /\ Ready /\ num_rows < MaxRows /\ next_id <= MaxId
     /\ p \in PageNums
     /\ next_id' = next_id + 1
     /\ pages' = [InsertPages(p) EXCEPT ![num_rows] = [id |-> next_id, val |-> v]]
     /\ cached' = cached \cup {p}
     /\ num_rows' = num_rows + 1
     /\ \/ file' = Overlay(file, pages', p) /\ result' = "success" /\ touched' = touched
        \/ Faults /\ file' = file /\ result' = "failure" /\ touched' = TRUE
     /\ UNCHANGED <<stmt, Unsaved>>

-----------------------------------------------------------------------------
(* DELETE: delete_row, one action per way through an iteration of its loop *)

BeginDelete(w) ==
  /\ Ready
  /\ stmt' = [op |-> "delete", where |-> w, index |-> 0, deleted_any |-> FALSE]
  /\ result' = "none"
  /\ UNCHANGED <<num_rows, next_id, cached, pages, file, touched, Unsaved>>

InLoop == session = "open" /\ stmt # Idle /\ stmt.index < num_rows
\* Mutant of Last: the slot after the last row.
MutLast == num_rows

Last == num_rows - 1

\* The loop has loaded the pages of the slots S.
LoopLoads(S) ==
  LET P == {PageOf(s) : s \in S}
  IN pages' = Load(P) /\ cached' = cached \cup P

\* The row at stmt.index satisfies the condition of the statement.
Matches == Load({PageOf(stmt.index)})[stmt.index].val \in stmt.where

\* Mutant of DeleteSkip: the index is not advanced.
MutDeleteSkip ==
  /\ InLoop /\ ~Matches
  /\ LoopLoads({stmt.index})
  /\ UNCHANGED <<num_rows, next_id, file, stmt, result, touched, Unsaved>>

\* The row does not match: on to the next slot.
DeleteSkip ==
  /\ InLoop /\ ~Matches
  /\ LoopLoads({stmt.index})
  /\ stmt' = [stmt EXCEPT !.index = @ + 1]
  /\ UNCHANGED <<num_rows, next_id, file, result, touched, Unsaved>>

\* Mutant of DeleteLast: num_rows is not decremented.
MutDeleteLast ==
  /\ InLoop /\ Matches /\ stmt.index = Last
  /\ LoopLoads({stmt.index})
  /\ stmt' = [stmt EXCEPT !.deleted_any = TRUE]
  /\ touched' = TRUE
  /\ UNCHANGED <<num_rows, next_id, file, result, Unsaved>>

\* The last row matches: it is cut off.
DeleteLast ==
  /\ InLoop /\ Matches /\ stmt.index = Last
  /\ LoopLoads({stmt.index})
  /\ num_rows' = num_rows - 1
  /\ stmt' = [stmt EXCEPT !.deleted_any = TRUE]
  /\ touched' = TRUE
  /\ UNCHANGED <<next_id, file, result, Unsaved>>

\* Another row matches: the last row is copied over it and the page of the
\* LAST row is flushed; the same slot is looked at again.
MoveLast ==
  LET loaded == Load({PageOf(stmt.index), PageOf(Last)})
  IN /\ InLoop /\ Matches /\ stmt.index # Last
     /\ pages' = [loaded EXCEPT ![stmt.index] = loaded[Last]]
     /\ cached' = cached \cup {PageOf(stmt.index), PageOf(Last)}
     /\ touched' = TRUE

\* Mutant of DeleteMove: the index is advanced past the row just moved in.
MutDeleteMove ==
  /\ MoveLast
  /\ file' = Overlay(file, pages', PageOf(Last))
  /\ num_rows' = num_rows - 1
  /\ stmt' = [stmt EXCEPT !.deleted_any = TRUE, !.index = @ + 1]
  /\ UNCHANGED <<next_id, result, Unsaved>>

DeleteMove ==
  /\ MoveLast
  /\ file' = Overlay(file, pages', PageOf(Last))
  /\ num_rows' = num_rows - 1
  /\ stmt' = [stmt EXCEPT !.deleted_any = TRUE]
  /\ UNCHANGED <<next_id, result, Unsaved>>

\* The flush in the middle of the loop fails: the statement stops there, with
\* the last row in the table twice.  The session goes on.
DeleteAborts ==
  /\ Faults /\ MoveLast
  /\ stmt' = Idle /\ result' = "failure"
  /\ Sound(TRUE, doubled \cup {pages'[Last]})
  /\ UNCHANGED <<num_rows, next_id, file, header, session, saved>>

\* Mutant of AfterLoop: the loop stops after the first row removed.
MutAfterLoop == session = "open" /\ stmt # Idle
                /\ (stmt.deleted_any \/ stmt.index >= num_rows)

AfterLoop == session = "open" /\ stmt # Idle /\ stmt.index >= num_rows

\* Past the loop the page of slot num_rows is flushed.  Page TABLE_MAX_PAGES
\* is an element past the end of Table.pages: whatever lies there is NULL, or
\* fails the write, or is written outside this table's extent.
DeleteEnd ==
  LET p == PageOf(num_rows)
  IN /\ AfterLoop
     /\ stmt' = Idle
     /\ \/ /\ p \notin PageNums \/ p \in cached
           /\ file' = IF p \in PageNums THEN Overlay(file, pages, p) ELSE file
           /\ result' = IF stmt.deleted_any THEN "success" ELSE "not_found"
           /\ touched' = touched
        \/ /\ p \notin cached \/ Faults
           /\ file' = file /\ result' = "failure"
           /\ touched' = (touched \/ p \in cached)
     /\ UNCHANGED <<num_rows, next_id, cached, pages, Unsaved>>

-----------------------------------------------------------------------------
(* The end of a session, and the next one                                  *)

\* database_close: the header of the table is written first; nobody looks
\* whether the write succeeds ...
CloseBegin ==
  /\ Ready
  /\ session' = "closing"
  /\ \/ /\ header' = [num_rows |-> num_rows, next_id |-> next_id]
        /\ saved' = Prefix(pages, num_rows)
        /\ Sound(TRUE, doubled)
     \/ /\ Faults
        /\ header' = header /\ saved' = saved
        /\ Sound(~touched, doubled)
  /\ UNCHANGED <<num_rows, next_id, cached, pages, file, stmt, result, touched>>

\* Mutant of CloseFlush: the pages are released and not written.
MutCloseFlush ==
  /\ session = "closing"
  /\ \E p \in cached :
       /\ \A q \in cached : p <= q
       /\ pages' = Overlay(pages, Blank, p)
       /\ cached' = cached \ {p}
  /\ UNCHANGED <<num_rows, next_id, file, header, session, stmt, result, saved, touched,
                 doubled, sound>>

\* ... then its cached pages, from page 0 up, each released once written ...
CloseFlush ==
  /\ session = "closing"
  /\ \E p \in cached :
       /\ \A q \in cached : p <= q
       /\ file' = Overlay(file, pages, p)
       /\ pages' = Overlay(pages, Blank, p)
       /\ cached' = cached \ {p}
  /\ UNCHANGED <<num_rows, next_id, header, session, stmt, result, saved, touched,
                 doubled, sound>>

\* ... and the file is closed.
CloseEnd ==
  /\ session = "closing" /\ cached = {}
  /\ session' = "closed" /\ touched' = FALSE
  /\ UNCHANGED <<num_rows, next_id, cached, pages, file, header, stmt, result,
                 saved, doubled, sound>>

\* The process is gone with what it had not written: `.exit` between two
\* statements, a failed flush in database_close, the death of the process.
Leave ==
  /\ session' = "closed" /\ stmt' = Idle
  /\ cached' = {} /\ pages' = Blank
  /\ Sound(~touched, doubled) /\ touched' = FALSE
  /\ UNCHANGED <<num_rows, next_id, file, header, result, saved>>

MetaExit == (Ready \/ session = "dangling") /\ Leave

CloseAborts == Faults /\ session = "closing" /\ cached # {} /\ Leave

Crash == Faults /\ session \in {"open", "closing", "dangling"} /\ Leave

\* header_table_initialize: for i < num_rows page i is loaded.  A page beyond
\* TABLE_MAX_PAGES, or a failed read, has the table freed while the hash map
\* still refers to it ("dangling").
OpenedPages == 0 .. header.num_rows - 1

OpenRestores ==
  /\ session = "closed"
  /\ OpenedPages \subseteq PageNums
  /\ num_rows' = header.num_rows /\ next_id' = header.next_id
  /\ cached' = OpenedPages
  /\ pages' = [s \in Slots |-> IF PageOf(s) \in OpenedPages THEN file[s] ELSE BlankRow]
  /\ session' = "open" /\ result' = "none"
  /\ UNCHANGED <<file, header, stmt, saved, touched, doubled, sound>>

OpenDangles ==
  /\ session = "closed"
  /\ ~(OpenedPages \subseteq PageNums) \/ (Faults /\ OpenedPages # {})
  /\ session' = "dangling" /\ result' = "none"
  /\ UNCHANGED <<num_rows, next_id, cached, pages, file, header, stmt, saved,
                 touched, doubled, sound>>

\* The session goes on and uses what was freed: a statement on the table, a
\* CREATE that asks where the tables end, `.tables`, or, when the input ends,
\* database_close, which writes a header and pages from it and frees it once
\* more.  What then becomes of the process and the file is undefined, and the
\* model stops.
UseFreed ==
  /\ session = "dangling"
  /\ session' = "undefined" /\ Sound(FALSE, {})
  /\ UNCHANGED <<num_rows, next_id, cached, pages, file, header, stmt, result, saved,
                 touched>>

Undefined == session = "undefined" /\ UNCHANGED vars

-----------------------------------------------------------------------------
DeleteStep == DeleteSkip \/ DeleteLast \/ DeleteMove \/ DeleteAborts \/ DeleteEnd
CloseStep == CloseFlush \/ CloseEnd \/ CloseAborts

Next ==
  \/ InsertRefused \/ InsertNoPage
  \/ \E v \in Values : InsertRow(v)
  \/ \E w \in SUBSET (Values \cup {NoValue}) : BeginDelete(w)
  \/ DeleteStep
  \/ CloseBegin \/ CloseStep
  \/ MetaExit \/ Crash
  \/ OpenRestores \/ OpenDangles \/ UseFreed \/ Undefined

Spec == Init /\ [][Next]_vars

\* One thread runs a statement, and a close, to its end.
FairSpec == Spec /\ WF_vars(DeleteStep) /\ WF_vars(CloseStep)

-----------------------------------------------------------------------------
(* Properties                                                              *)

\* Every variable keeps its type.
TypeOK ==
  /\ num_rows \in Nat /\ next_id \in 1 .. MaxId + 1
  /\ cached \in SUBSET PageNums
  /\ pages \in [Slots -> Row] /\ file \in [Slots -> Row] /\ saved \in [Slots -> Row]
  /\ header \in [num_rows : Nat, next_id : 1 .. MaxId + 1]
  /\ session \in {"open", "closing", "closed", "dangling", "undefined"}
  /\ stmt \in {Idle} \cup Deleting
  /\ result \in Results /\ touched \in BOOLEAN /\ doubled \in SUBSET Row
  /\ sound \in BOOLEAN

LiveSlots == {s \in Slots : s < num_rows}
LiveRows == {pages[s] : s \in LiveSlots}

\* The pages of all live rows are in the cache while a session is open: no
\* statement reads the file, so an insert never puts a row on a zeroed page
\* that has rows in the file, and a delete never fails half-way on a load.
LivePagesCached ==
  session = "open" => \A s \in 0 .. num_rows - 1 : PageOf(s) \in cached

\* Once a DELETE has removed a row, the page flushed after its loop exists:
\* it does not end in the error of flushing a page that is not there.
FinalFlushHasPage ==
  session = "open" /\ stmt # Idle /\ stmt.deleted_any => PageOf(num_rows) \in cached

\* The rows a DELETE has left behind its index do not match its condition,
\* in particular the row moved in from the end has been looked at.
DeleteScanned ==
  session = "open" /\ stmt # Idle =>
    \A s \in LiveSlots : s < stmt.index => pages[s].val \notin stmt.where

\* The rows in the slots S of f have different ids, all below n.  Only a row
\* of D may be there more than once, and then as the same row.
Distinct(f, S, n, D) ==
  /\ \A s, t \in S : s # t /\ f[s].id = f[t].id => f[s] = f[t] /\ f[s] \in D
  /\ \A s \in S : f[s].id < n

\* No two rows of a table have one id, but for the copies left by a DELETE
\* whose flush failed, and none has the next id: in every session, also the
\* one of that DELETE and those after it, until a session that deleted rows
\* or saw a write fail ends without a full close, or one goes on with a
\* table it could not restore.
IdsUnique ==
  session = "open" /\ sound => Distinct(pages, LiveSlots, next_id, doubled)

\* What is in the file is what the last header store saved: a clean close,
\* and also `.exit`, a crash or a failed close of a session that only
\* inserted rows, leave all of the saved rows in place.
SavedInFile ==
  session = "closed" /\ sound => Prefix(file, header.num_rows) = saved

\* The invariants above hold together with these, which say of every moment
\* of a session what SavedInFile says of its end.
StmtInSession == stmt # Idle => session = "open"

SavedSlots == {s \in Slots : s < header.num_rows}

SavedKept ==
  sound =>
    /\ saved = Prefix(saved, header.num_rows)
    /\ ~touched \/ session \in {"closed", "dangling"} =>
         \A s \in SavedSlots : file[s] = saved[s]
    /\ session = "open" /\ ~touched =>
         header.num_rows <= num_rows /\ \A s \in LiveSlots : file[s] = pages[s]
    /\ session = "closing" =>
         \A s \in SavedSlots : IF PageOf(s) \in cached THEN pages[s] = saved[s]
                                                        ELSE file[s] = saved[s]

SavedIdsUnique == sound => Distinct(saved, SavedSlots, header.next_id, doubled)

\* The inductive invariant: the part about types and pages, and all of it.
CoreInv == TypeOK /\ StmtInSession /\ LivePagesCached
IInv == CoreInv /\ FinalFlushHasPage /\ DeleteScanned /\ IdsUnique
        /\ SavedKept /\ SavedIdsUnique

\* A statement never loses a row it is not meant to delete, even when it
\* fails on the way: a live row that goes away matched the DELETE.
NoCollateralLoss ==
  [][session = "open" /\ session' = "open" =>
       \A s \in LiveSlots : pages[s] \in LiveRows' \/
         (stmt # Idle /\ pages[s].val \in stmt.where)]_vars

\* The table as RowSet sees it: the live rows while a session is open, the
\* rows of the last header store between sessions.
SavedRows == {saved[s] : s \in SavedSlots}
Stored == [rows |-> SavedRows, size |-> header.num_rows, next |-> header.next_id]
Shown == IF session = "open" THEN [rows |-> LiveRows, size |-> num_rows, next |-> next_id]
                             ELSE Stored
Nothing == [rows |-> {}, size |-> 0, next |-> 1]

Promise == INSTANCE RowSet WITH
  table   <- IF sound THEN Shown ELSE Nothing,
  stored  <- IF sound THEN Stored ELSE Nothing,
  doubled <- IF sound THEN doubled ELSE {},
  session <- CASE sound /\ session = "open" -> "open"
               [] sound /\ session = "dangling" -> "failed"
               [] OTHER -> "closed",
  where   <- IF sound /\ stmt # Idle THEN [op |-> "delete", where |-> stmt.where]
             ELSE [op |-> "none"],
  risky   <- sound => touched,
  intact  <- sound

\* The table keeps the promise of RowSet: a set of rows that INSERT extends by
\* a fresh id, that DELETE reduces to the rows that do not match, and that
\* survives close and open; a DELETE whose flush fails leaves one row twice,
\* and that row stays twice through close and open until a DELETE takes it.
RefinesRowSet == Promise!Spec

\* A table that was closed in full is restored by the next open.
CloseThenRestore ==
  [][session = "closed" /\ sound => session' # "dangling"]_vars

\* A DELETE comes to its end.
DeleteTerminates == [](stmt # Idle => <>(stmt = Idle))

=============================================================================
