----------------------------- MODULE Statements -----------------------------
(***************************************************************************)
(* What becomes of a statement once it is parsed: the semantic analyzer,   *)
(* the executor, and the rows as they lie in the pages (semantic_analyzer, *)
(* executor.c, core/row, row_storage.c, convertions.c).                    *)
(*                                                                         *)
(* A page is a row of cells: a field of a row takes one, a text one for    *)
(* each character and one for its terminator.  A row has a slot of fixed   *)
(* size, but is written and read back field behind field.  Texts are       *)
(* numbers with a length, a cell of one holds the text and the place in    *)
(* it.  An INT is one of 2 * IntHalf numbers without a sign.  A name that  *)
(* takes MAX_NAME_LENGTH characters or more is its first MAX_NAME_LENGTH   *)
(* ones (head, full) and the rest (tail).                                  *)
(*                                                                         *)
(* When behaviour is undefined the model says of what kind and stops.      *)
(* What reaches the file and when, writes that fail and restores that do,  *)
(* are the business of TableRows, what other tables leave in a page that   *)
(* of Database, the map of tables that of HashMap.                         *)
(***************************************************************************)
EXTENDS Integers, Sequences, FiniteSets, SequencesExt

CONSTANTS
  TableNames,   \* the names statements use
  LongTables,   \* those that take MAX_NAME_LENGTH characters or more
  ColumnLists,  \* the column lists of CREATE
  InsertValues, \* the value lists of INSERT
  Wheres,       \* the conditions of SELECT and DELETE
  SelectLists,  \* the column lists of SELECT
  TextLength,   \* the length of each text
  TextRoom,     \* the characters a slot reserves for a text, MAX_NAME_LENGTH
  IntHalf,      \* half the values an INT has, 2^31
  PageSize,     \* the cells of a page
  MaxPages,     \* TABLE_MAX_PAGES
  MaxRows,      \* TABLE_MAX_ROWS
  MaxId         \* bound: inserts stop once next_id exceeds it

VARIABLES
  tables,    \* the tables by name: columns, num_rows, next_id, the cells of all
             \* pages, and how many pages are cached: always the first ones
  stmt,      \* the SELECT or DELETE under way, or the last statement
  at,        \* "ready", or inside a loop over the rows
  index,     \* the row the loop is at
  output,    \* what SELECT printed
  deleted_any, \* of delete_row
  result,    \* of the last statement
  undefined, \* the kind of undefined behaviour met, or "none"
  ideal,     \* history: the columns and rows of each table as the statements had them
  before     \* history: the rows when the statement began

vars == <<tables, stmt, at, index, output, deleted_any, result, undefined, ideal, before>>

-----------------------------------------------------------------------------
(* Values and their place *)

Types == {"INT", "TEXT", "REAL", "BOOL"}

CellsOf(type) ==
  CASE type = "TEXT" -> 2 + TextRoom
    [] type \in Types \ {"TEXT"} -> 2
    [] OTHER -> 1

(* calculate_row_size, calculate_rows_per_page *)
RowSize(columns) == FoldLeft(LAMBDA n, c : n + CellsOf(c.type), 2, columns)
RowsPerPage(columns) == PageSize \div RowSize(columns)

(* Any keyword may stand for a type.  A restore ends a name with a type, or *)
(* with nothing.                                                           *)
ColumnTypes == Types \cup {"UNKNOWN"}
Tails == STRING \cup ColumnTypes \cup {""}
Names == [head : STRING, full : BOOLEAN, tail : Tails]
Columns == [name : Names, type : ColumnTypes]
Values == [type : {"INT"}, v : -IntHalf .. IntHalf - 1]
            \cup [type : {"TEXT"}, v : DOMAIN TextLength]
            \cup [type : {"REAL"}, v : Int] \cup [type : {"BOOL"}, v : {0, 1}]
Conditions == [column : Names, op : {"none", "=", "<", ">"}, value : Values]

(* Any list of MAX_COLUMNS columns makes a row that a page has room for.   *)
ASSUME StatementsAssumption ==
  /\ TextRoom \in Nat /\ IntHalf \in Nat \ {0} /\ PageSize \in Nat
  /\ MaxPages \in Nat /\ MaxRows \in Nat /\ MaxId \in Nat
  /\ TextLength \in [DOMAIN TextLength -> Nat]
  /\ ColumnLists \subseteq Seq(Columns) /\ InsertValues \subseteq Seq(Values)
  /\ Wheres \subseteq Conditions /\ SelectLists \subseteq Seq(Names)
  /\ \A columns \in ColumnLists : RowSize(columns) <= PageSize

(* The address of a row slot, the pages one behind the other. *)
Address(columns, n) ==
  (n \div RowsPerPage(columns)) * PageSize + (n % RowsPerPage(columns)) * RowSize(columns)
PageEnd(columns, n) == (n \div RowsPerPage(columns) + 1) * PageSize

Cell(kind, v) == [kind |-> kind, v |-> v, k |-> 0]
Char(text, k) == [kind |-> "char", v |-> text, k |-> k]
Blank == [a \in 0 .. MaxPages * PageSize - 1 |-> Cell("zero", 0)]

Bits(v) == v % (2 * IntHalf)
Signed(n) == IF n >= IntHalf THEN n - 2 * IntHalf ELSE n

(* serialize_row *)
Fields(value) ==
  CASE value.type = "TEXT" ->
         <<Cell("type", "TEXT"), Cell("len", TextLength[value.v])>>
           \o [k \in 1 .. TextLength[value.v] + 1 |-> Char(value.v, k)]
    [] value.type = "INT" -> <<Cell("type", "INT"), Cell("INT", Bits(value.v))>>
    [] OTHER -> <<Cell("type", value.type), Cell(value.type, value.v)>>

Serialize(id, size, values) ==
  <<Cell("id", id), Cell("size", size)>> \o FlattenSeq([i \in DOMAIN values |-> Fields(values[i])])

(* deserialize_row: value by value from the cell behind the last one; the  *)
(* type comes from the row.  "read" is FALSE once a cell is not what it is *)
(* taken for.                                                              *)
ReadValue(pages, row) ==
  LET p == row.next
      known(a) == a \in DOMAIN pages
      type == pages[p].v
      length == pages[p + 1].v
      text == pages[p + 2].v
      whole == /\ known(p + 2 + length)
               /\ \A k \in 1 .. length + 1 :
                    LET c == pages[p + 1 + k] IN c.kind = "char" /\ c.v = text /\ c.k = k
      value(v, size) == [row EXCEPT !.values = Append(@, [type |-> type, v |-> v]), !.next = p + size]
      failed == [row EXCEPT !.read = FALSE]
  IN IF ~(row.read /\ known(p + 1) /\ pages[p].kind = "type") THEN failed
     ELSE IF type = "TEXT"
          THEN IF pages[p + 1].kind = "len" /\ whole THEN value(text, length + 3) ELSE failed
     ELSE IF pages[p + 1].kind # type THEN failed
     ELSE value(pages[p + 1].v, 2)

Deserialize(pages, columns, address) ==
  FoldLeft(LAMBDA row, c : ReadValue(pages, row),
           [read |-> TRUE, id |-> pages[address].v, values |-> <<>>, next |-> address + 2],
           columns)

-----------------------------------------------------------------------------
(* Columns and conditions *)

(* The first column of that name, or 0. *)
IndexOf(columns, name) ==
  LET named == {i \in DOMAIN columns : columns[i].name = name}
  IN IF named = {} THEN 0 ELSE CHOOSE i \in named : \A j \in named : i <= j

HasWhere(s) == s.where.op # "none"

(* evaluate_where_condition of two values of one type. *)
Compare(type, op, a, b) ==
  LET x == IF type = "INT" THEN Bits(a) ELSE a
      y == IF type = "INT" THEN Bits(b) ELSE b
  IN \/ op = "=" /\ x = y
     \/ op = "<" /\ type \in {"INT", "REAL"} /\ x < y
     \/ op = ">" /\ type \in {"INT", "REAL"} /\ x > y

\* Mutant of Chosen: a REAL is compared as an INT.
MutChosen(columns, s, values) ==
  LET i == IndexOf(columns, s.where.column)
  IN HasWhere(s) => i # 0 /\ Compare("INT", s.where.op, values[i].v, s.where.value.v)

(* The row meets the condition of the statement, if it has one. *)
Chosen(columns, s, values) ==
  LET i == IndexOf(columns, s.where.column)
  IN HasWhere(s) => i # 0 /\ Compare(values[i].type, s.where.op, values[i].v, s.where.value.v)

(* The members of a union are read as they were written. *)
WhereTyped(columns, s, values) ==
  LET i == IndexOf(columns, s.where.column)
  IN HasWhere(s) /\ i # 0 => values[i].type = s.where.value.type

(* print_row: the columns it prints, and what it prints of a row. *)
Printed(columns, s) ==
  IF s.all THEN [i \in DOMAIN columns |-> i]
  ELSE [k \in DOMAIN s.list |-> IndexOf(columns, s.list[k])]

PrintTyped(columns, s, values) ==
  \A k \in DOMAIN Printed(columns, s) :
    LET i == Printed(columns, s)[k] IN i # 0 /\ values[i].type = columns[i].type

PrintValue(value) == IF value.type = "INT" THEN Signed(value.v) ELSE value.v

PrintRow(columns, s, values) ==
  [k \in DOMAIN Printed(columns, s) |-> PrintValue(values[Printed(columns, s)[k]])]

-----------------------------------------------------------------------------
(* The semantic analyzer *)

Creates == [op : {"create"}, table : TableNames, columns : ColumnLists]
Drops == [op : {"drop"}, table : TableNames]
Inserts == [op : {"insert"}, table : TableNames, values : InsertValues]
Selects == [op : {"select"}, table : TableNames, all : {TRUE}, list : {<<>>}, where : Wheres]
             \cup [op : {"select"}, table : TableNames, all : {FALSE}, list : SelectLists, where : Wheres]
Deletes == [op : {"delete"}, table : TableNames, where : Wheres]

\* Mutant of ColumnsUnique: a column is compared with the next one only.
MutColumnsUnique(columns) ==
  \A i, j \in DOMAIN columns : i + 1 = j => columns[i].name # columns[j].name

(* semantic_validate_columns_uniqueness *)
ColumnsUnique(columns) ==
  \A i, j \in DOMAIN columns : i < j => columns[i].name # columns[j].name

(* semantic_validate_table_exists *)
Known(s) == s.table \in DOMAIN tables

\* Mutant of AnalyzeCreate: the length of the name is not looked at.
MutAnalyzeCreate(s) ==
  CASE Known(s) -> "DUPLICATE_TABLE"
    [] ~Known(s) /\ ~ColumnsUnique(s.columns) -> "DUPLICATE_COLUMN"
    [] OTHER -> "SUCCESS"

AnalyzeCreate(s) ==
  CASE Known(s) -> "DUPLICATE_TABLE"
    [] ~Known(s) /\ s.table \in LongTables -> "INVALID_NAME_LENGTH"
    [] ~Known(s) /\ s.table \notin LongTables /\ ~ColumnsUnique(s.columns) -> "DUPLICATE_COLUMN"
    [] OTHER -> "SUCCESS"

AnalyzeDrop(s) == IF Known(s) THEN "SUCCESS" ELSE "TABLE_NOT_FOUND"

(* semantic_validate_data_types *)
TypesMatch(columns, values) == \A i \in DOMAIN columns : columns[i].type = values[i].type

AnalyzeInsert(s) ==
  IF ~Known(s) THEN "TABLE_NOT_FOUND"
  ELSE IF Len(tables[s.table].columns) # Len(s.values) THEN "COLUMN_COUNT_MISMATCH"
  ELSE IF ~TypesMatch(tables[s.table].columns, s.values) THEN "TYPE_MISMATCH"
  ELSE "SUCCESS"

(* semantic_is_operator_compatible *)
Compatible(type, op) == type \in {"TEXT", "BOOL"} => op = "="

\* Mutant of AnalyzeWhere: the type of the value is not looked at.
MutAnalyzeWhere(columns, where) ==
  LET i == IndexOf(columns, where.column)
  IN IF i = 0 THEN "COLUMN_NOT_FOUND"
     ELSE IF Compatible(columns[i].type, where.op) THEN "SUCCESS" ELSE "INVALID_OPERATOR"

AnalyzeWhere(columns, where) ==
  LET i == IndexOf(columns, where.column)
  IN IF i = 0 THEN "COLUMN_NOT_FOUND"
     ELSE IF columns[i].type # where.value.type THEN "TYPE_MISMATCH"
     ELSE IF Compatible(columns[i].type, where.op) THEN "SUCCESS" ELSE "INVALID_OPERATOR"

(* semantic_validate_select_columns *)
ColumnsKnown(columns, names) == \A k \in DOMAIN names : IndexOf(columns, names[k]) # 0

AnalyzeSelect(s) ==
  IF ~Known(s) THEN "TABLE_NOT_FOUND"
  ELSE LET columns == tables[s.table].columns
           where == IF HasWhere(s) THEN AnalyzeWhere(columns, s.where) ELSE "SUCCESS"
       IN IF where # "SUCCESS" THEN where
          ELSE IF s.all \/ ColumnsKnown(columns, s.list) THEN "SUCCESS" ELSE "COLUMN_NOT_FOUND"

AnalyzeDelete(s) ==
  IF ~Known(s) THEN "TABLE_NOT_FOUND"
  ELSE IF HasWhere(s) THEN AnalyzeWhere(tables[s.table].columns, s.where) ELSE "SUCCESS"

-----------------------------------------------------------------------------
NoStmt == [op |-> "none"]

Init ==
  /\ tables = <<>> /\ stmt = NoStmt /\ at = "ready" /\ index = 0
  /\ output = <<>> /\ deleted_any = FALSE
  /\ result = "none" /\ undefined = "none"
  /\ ideal = <<>> /\ before = {}

Ready == at = "ready" /\ undefined = "none"

(* A statement that is over in one step; the loops leave these as they are.*)
Finished(s, r) ==
  /\ stmt' = [op |-> s.op] /\ result' = r
  /\ index' = 0 /\ output' = <<>> /\ deleted_any' = FALSE /\ before' = {}
  /\ UNCHANGED at

(* The analyzer reports an error: the statement is dropped. *)
Refused ==
  /\ Ready
  /\ \/ \E s \in Creates : AnalyzeCreate(s) # "SUCCESS" /\ Finished(s, AnalyzeCreate(s))
     \/ \E s \in Drops : AnalyzeDrop(s) # "SUCCESS" /\ Finished(s, AnalyzeDrop(s))
     \/ \E s \in Inserts : AnalyzeInsert(s) # "SUCCESS" /\ Finished(s, AnalyzeInsert(s))
     \/ \E s \in Selects : AnalyzeSelect(s) # "SUCCESS" /\ Finished(s, AnalyzeSelect(s))
     \/ \E s \in Deletes : AnalyzeDelete(s) # "SUCCESS" /\ Finished(s, AnalyzeDelete(s))
  /\ UNCHANGED <<tables, undefined, ideal>>

(* table_initialize, table_columns_set *)
NewTable(columns) == [columns |-> columns, num_rows |-> 0, next_id |-> 1,
                       pages |-> Blank, cached |-> 0]

With(f, x, v) == [y \in DOMAIN f \cup {x} |-> IF y = x THEN v ELSE f[y]]
Without(f, x) == [y \in DOMAIN f \ {x} |-> f[y]]

(* table_create *)
Create ==
  /\ Ready
  /\ \E s \in Creates :
       /\ AnalyzeCreate(s) = "SUCCESS"
       /\ tables' = With(tables, s.table, NewTable(s.columns))
       /\ ideal' = With(ideal, s.table, [columns |-> s.columns, rows |-> {}])
       /\ Finished(s, "EXECUTE_SUCCESS")
  /\ UNCHANGED undefined

(* table_drop *)
Drop ==
  /\ Ready
  /\ \E s \in Drops :
       /\ AnalyzeDrop(s) = "SUCCESS"
       /\ tables' = Without(tables, s.table) /\ ideal' = Without(ideal, s.table)
       /\ Finished(s, "EXECUTE_SUCCESS")
  /\ UNCHANGED undefined

-----------------------------------------------------------------------------
(* INSERT *)

(* The page a new row is written to. *)
LastPage(t) == t.num_rows \div RowsPerPage(t.columns)

(* pager_page_alloc: that page starts out as zeros, unless it is cached.   *)
Allocated(t) ==
  [a \in DOMAIN t.pages |->
     IF LastPage(t) >= t.cached /\ a \div PageSize = LastPage(t) THEN Blank[a] ELSE t.pages[a]]

\* Mutant of Written: the row is placed behind the one before it.
MutWritten(t, cells) ==
  LET from == IF t.num_rows = 0 THEN 0
              ELSE Address(t.columns, t.num_rows - 1) + RowSize(t.columns) - 1
      pages == Allocated(t)
  IN [a \in DOMAIN pages |->
        IF a \in from .. from + Len(cells) - 1 THEN cells[a - from + 1] ELSE pages[a]]

(* The pages once the row is serialized into slot num_rows. *)
Written(t, cells) ==
  LET from == Address(t.columns, t.num_rows)
      pages == Allocated(t)
  IN [a \in DOMAIN pages |->
        IF a \in from .. from + Len(cells) - 1 THEN cells[a - from + 1] ELSE pages[a]]

(* The executor refuses a row once the table holds TABLE_MAX_ROWS; a page  *)
(* beyond TABLE_MAX_PAGES is refused when the id is spent.                 *)
InsertFails ==
  /\ Ready
  /\ \E s \in Inserts :
       /\ AnalyzeInsert(s) = "SUCCESS"
       /\ LET t == tables[s.table]
          IN \/ t.num_rows >= MaxRows /\ UNCHANGED tables
             \/ /\ t.num_rows < MaxRows /\ t.next_id <= MaxId
                /\ LastPage(t) >= MaxPages
                /\ tables' = [tables EXCEPT ![s.table].next_id = @ + 1]
       /\ Finished(s, "EXECUTE_FAILURE")
  /\ UNCHANGED <<undefined, ideal>>

(* A row whose texts are too long may be written past the end of its page. *)
Insert ==
  /\ Ready
  /\ \E s \in Inserts :
       /\ AnalyzeInsert(s) = "SUCCESS"
       /\ LET t == tables[s.table]
              cells == Serialize(t.next_id, RowSize(t.columns), s.values)
          IN /\ t.num_rows < MaxRows /\ t.next_id <= MaxId
             /\ LastPage(t) < MaxPages
             /\ tables' = [tables EXCEPT ![s.table] =
                  [t EXCEPT !.pages = Written(t, cells), !.num_rows = @ + 1, !.next_id = @ + 1,
                            !.cached = IF @ <= LastPage(t) THEN LastPage(t) + 1 ELSE @]]
             /\ ideal' = [ideal EXCEPT ![s.table].rows =
                  @ \cup {[id |-> t.next_id, values |-> s.values]}]
             /\ undefined' = IF Address(t.columns, t.num_rows) + Len(cells) > PageEnd(t.columns, t.num_rows)
                             THEN "overflow" ELSE "none"
       /\ Finished(s, "EXECUTE_SUCCESS")

(* Whatever its type, a value is copied as INT, as REAL and as BOOL: its   *)
(* first byte is read as a truth value, which that of an INT or a REAL     *)
(* need not be.                                                            *)
NotABool(value) ==
  \/ value.type = "INT" /\ Bits(value.v) % 256 \notin {0, 1}
  \/ value.type = "REAL"

(* Such a read is undefined.  As gcc builds the program it copies the byte *)
(* as it is, and all goes on as in Insert and InsertFails.                 *)
InsertFaults ==
  /\ Ready
  /\ \E s \in Inserts :
       /\ AnalyzeInsert(s) = "SUCCESS"
       /\ tables[s.table].num_rows < MaxRows /\ tables[s.table].next_id <= MaxId
       /\ \E i \in DOMAIN s.values : NotABool(s.values[i])
       /\ tables' = [tables EXCEPT ![s.table].next_id = @ + 1]
       /\ stmt' = s
  /\ undefined' = "bool"
  /\ UNCHANGED <<at, index, output, deleted_any, result, ideal, before>>

-----------------------------------------------------------------------------
(* The loops of SELECT and DELETE *)

Begin(s, loop) ==
  /\ stmt' = s /\ at' = loop /\ index' = 0 /\ output' = <<>> /\ deleted_any' = FALSE
  /\ result' = "none" /\ before' = ideal[s.table].rows
  /\ UNCHANGED <<tables, undefined, ideal>>

BeginSelect == Ready /\ \E s \in Selects : AnalyzeSelect(s) = "SUCCESS" /\ Begin(s, "select")
BeginDelete == Ready /\ \E s \in Deletes : AnalyzeDelete(s) = "SUCCESS" /\ Begin(s, "delete")

Table == tables[stmt.table]
Here == Deserialize(Table.pages, Table.columns, Address(Table.columns, index))

(* What goes wrong with the row at index: it does not read back, or a      *)
(* union is read as what it is not.                                        *)
RowFault ==
  CASE ~Here.read -> "decode"
    [] /\ Here.read
       /\ \/ ~WhereTyped(Table.columns, stmt, Here.values)
          \/ /\ at = "select" /\ Chosen(Table.columns, stmt, Here.values)
             /\ ~PrintTyped(Table.columns, stmt, Here.values) -> "type"
    [] OTHER -> "none"

InLoop(loop) == at = loop /\ undefined = "none" /\ index < Table.num_rows

LoopFaults ==
  /\ InLoop("select") \/ InLoop("delete")
  /\ RowFault # "none"
  /\ undefined' = RowFault
  /\ UNCHANGED <<tables, stmt, at, index, output, deleted_any, result, ideal, before>>

SelectTurn ==
  /\ InLoop("select") /\ RowFault = "none"
  /\ output' = IF Chosen(Table.columns, stmt, Here.values)
               THEN Append(output, [id |-> Here.id, values |-> PrintRow(Table.columns, stmt, Here.values)])
               ELSE output
  /\ index' = index + 1
  /\ UNCHANGED <<tables, stmt, at, deleted_any, result, undefined, ideal, before>>

(* The row variable is released after the loop.  If there was no row its   *)
(* num_columns was never written; unless it is zero by chance, values is   *)
(* looked at, which is NULL.                                               *)
EndSelect ==
  /\ at = "select" /\ undefined = "none" /\ index >= Table.num_rows
  /\ \/ undefined' = "none"
     \/ index = 0 /\ undefined' = "empty"
  /\ at' = "ready" /\ result' = "EXECUTE_SUCCESS"
  /\ UNCHANGED <<tables, stmt, index, output, deleted_any, ideal, before>>

\* Mutant of DeleteTurn: the row moved in is not looked at.
MutDeleteTurn ==
  /\ InLoop("delete") /\ RowFault = "none"
  /\ LET t == Table
         last == Address(t.columns, t.num_rows - 1)
         first == Address(t.columns, index)
         moved == [a \in DOMAIN t.pages |->
                     IF a \in first .. first + RowSize(t.columns) - 1
                     THEN t.pages[last + a - first] ELSE t.pages[a]]
     IN IF Chosen(t.columns, stmt, Here.values)
        THEN /\ tables' = [tables EXCEPT ![stmt.table] = [t EXCEPT !.pages = moved, !.num_rows = @ - 1]]
             /\ ideal' = [ideal EXCEPT ![stmt.table].rows = {r \in @ : r.id # Here.id}]
             /\ index' = index + 1 /\ deleted_any' = TRUE
        ELSE index' = index + 1 /\ UNCHANGED <<tables, ideal, deleted_any>>
  /\ UNCHANGED <<stmt, at, output, result, undefined, before>>

(* A row that meets the condition gives its slot to the last row, which is *)
(* looked at next.  Its values are released before.                        *)
DeleteTurn ==
  /\ InLoop("delete") /\ RowFault = "none"
  /\ LET t == Table
         last == Address(t.columns, t.num_rows - 1)
         first == Address(t.columns, index)
         moved == [a \in DOMAIN t.pages |->
                     IF a \in first .. first + RowSize(t.columns) - 1
                     THEN t.pages[last + a - first] ELSE t.pages[a]]
     IN IF Chosen(t.columns, stmt, Here.values)
        THEN /\ tables' = [tables EXCEPT ![stmt.table] = [t EXCEPT !.pages = moved, !.num_rows = @ - 1]]
             /\ ideal' = [ideal EXCEPT ![stmt.table].rows = {r \in @ : r.id # Here.id}]
             /\ deleted_any' = TRUE /\ UNCHANGED index
        ELSE index' = index + 1 /\ UNCHANGED <<tables, ideal, deleted_any>>
  /\ UNCHANGED <<stmt, at, output, result, undefined, before>>

(* The page behind the last row is written, which fails if it is not       *)
(* cached.  If all pages are full it is looked for behind the array of     *)
(* pages: a NULL lies there, or what is there is taken for a page.         *)
EndDelete ==
  /\ at = "delete" /\ undefined = "none" /\ index >= Table.num_rows
  /\ at' = "ready"
  /\ \/ undefined' = "none"
     \/ LastPage(Table) >= MaxPages /\ undefined' = "pages"
  /\ result' = IF deleted_any /\ LastPage(Table) < Table.cached
               THEN "EXECUTE_SUCCESS" ELSE "EXECUTE_FAILURE"
  /\ UNCHANGED <<tables, stmt, index, output, deleted_any, ideal, before>>

-----------------------------------------------------------------------------
(* The end of a session and the next one *)

(* A name that leaves no room for its NUL is cut off, and read back with   *)
(* the type that lies behind it, up to a zero byte: COLUMN_TYPE_INT is 0.  *)
Restored(column) ==
  IF column.name.full
  THEN [column EXCEPT !.name.tail = IF column.type = "INT" THEN "" ELSE column.type]
  ELSE column

(* header_table_write, header_table_initialize, which reads as many pages  *)
(* as there are rows.  A session that ends in another way, and an open     *)
(* that fails, are the business of TableRows.                              *)
Reopen ==
  /\ Ready
  /\ \A n \in DOMAIN tables : tables[n].num_rows <= MaxPages
  /\ tables' = [n \in DOMAIN tables |->
       [tables[n] EXCEPT !.columns = [i \in DOMAIN @ |-> Restored(@[i])],
                         !.cached = tables[n].num_rows]]
  /\ Finished([op |-> "reopen"], "none")
  /\ UNCHANGED <<undefined, ideal>>

Next ==
  \/ Refused \/ Create \/ Drop \/ InsertFails \/ Insert \/ InsertFaults
  \/ BeginSelect \/ SelectTurn \/ EndSelect
  \/ BeginDelete \/ DeleteTurn \/ EndDelete \/ LoopFaults
  \/ Reopen

Spec == Init /\ [][Next]_vars

-----------------------------------------------------------------------------
(* Properties *)

Faults == {"none", "overflow", "bool", "decode", "type", "empty", "pages"}

(* Every variable has the type its code gives it, and a table's ids are    *)
(* below its next_id.                                                      *)
TypeOK ==
  /\ DOMAIN tables \subseteq TableNames \ LongTables
  /\ at \in {"ready", "select", "delete"} /\ undefined \in Faults
  /\ index \in 0 .. MaxRows
  /\ \A n \in DOMAIN tables :
       /\ tables[n].num_rows \in 0 .. MaxRows /\ tables[n].cached \in 0 .. MaxPages
       /\ tables[n].next_id \in 1 .. MaxId + 1
       /\ DOMAIN tables[n].pages = DOMAIN Blank
       /\ \A r \in ideal[n].rows : r.id \in 1 .. tables[n].next_id - 1

(* The row takes no more than a slot; only long texts make it take more.   *)
Fitting(columns, values) == Len(Serialize(0, 0, values)) <= RowSize(columns)

RowAt(n, i) == Deserialize(tables[n].pages, tables[n].columns, Address(tables[n].columns, i))

(* Whatever the rows before, behind and in its slot earlier, a row that    *)
(* fits reads back as it was inserted, and no row is lost or doubled:      *)
(* although a row may be written past its slot, and serialize_row and      *)
(* deserialize_row go by the texts' lengths and not by the slot.           *)
FittingRowsIntact ==
  undefined # "overflow" =>
    \A n \in DOMAIN tables :
      /\ {RowAt(n, i).id : i \in 0 .. tables[n].num_rows - 1} = {r.id : r \in ideal[n].rows}
      /\ Cardinality(ideal[n].rows) = tables[n].num_rows
      /\ \A i \in 0 .. tables[n].num_rows - 1 : \A r \in ideal[n].rows :
           r.id = RowAt(n, i).id /\ Fitting(ideal[n].columns, r.values) =>
             /\ RowAt(n, i).read
             /\ Len(RowAt(n, i).values) = Len(r.values)
             /\ \A k \in DOMAIN r.values :
                  /\ RowAt(n, i).values[k].type = r.values[k].type
                  /\ PrintValue(RowAt(n, i).values[k]) = r.values[k].v

(* What a condition means for the values as they were written: an INT is   *)
(* compared by its value if both have the same sign, and a negative one is *)
(* larger than the others.                                                 *)
Less(type, a, b) == IF type = "INT" /\ (a < 0) # (b < 0) THEN b < 0 ELSE a < b
Meets(columns, where, values) ==
  LET i == IndexOf(columns, where.column)
  IN CASE where.op = "none" -> TRUE
       [] where.op = "=" -> values[i].v = where.value.v
       [] where.op = "<" -> Less(values[i].type, values[i].v, where.value.v)
       [] where.op = ">" -> Less(values[i].type, where.value.v, values[i].v)

Done(op) == at = "ready" /\ stmt.op = op /\ "table" \in DOMAIN stmt /\ undefined = "none"

(* A SELECT that comes to its end has printed exactly the columns asked    *)
(* for of exactly the rows that meet its condition, no row twice, and      *)
(* changed none.  Of a row that does not fit it may print anything: what   *)
(* follows the slot is read as its end.                                    *)
SelectsWhatItSays ==
  Done("select") =>
    LET columns == tables[stmt.table].columns
        fit == {r \in before : Fitting(columns, r.values)}
        met == {r \in fit : Meets(columns, stmt.where, r.values)}
        shown(values) ==
          IF stmt.all THEN [k \in DOMAIN values |-> values[k].v]
          ELSE [k \in DOMAIN stmt.list |-> values[IndexOf(columns, stmt.list[k])].v]
        printed == {output[k] : k \in DOMAIN output}
    IN /\ ideal[stmt.table].rows = before
       /\ \A j, k \in DOMAIN output : output[j].id = output[k].id => j = k
       /\ \A o \in printed : \E r \in before : r.id = o.id
       /\ {o \in printed : \E r \in fit : r.id = o.id}
            = {[id |-> r.id, values |-> shown(r.values)] : r \in met}

(* A DELETE that comes to its end has removed exactly the rows that meet   *)
(* its condition, the rows it moved among them looked at too, and succeeds *)
(* just when it removed one; again but for the rows that do not fit.       *)
DeletesWhatItSays ==
  Done("delete") =>
    LET columns == tables[stmt.table].columns
        left == ideal[stmt.table].rows
    IN /\ left \subseteq before
       /\ \A r \in before : Fitting(columns, r.values) =>
            (r \in left <=> ~Meets(columns, stmt.where, r.values))
       /\ result = "EXECUTE_SUCCESS" <=> left # before

(* Behaviour is undefined only where                                       *)
(*  - a text was too long for its slot, in the row being written or read:  *)
(*    in any other row the analyzer lets nothing through that reads a      *)
(*    union wrongly or a column that is not there;                         *)
(*  - an INSERT is into a table with an INT or REAL column;                *)
(*  - a SELECT is from an empty table;                                     *)
(*  - a DELETE removes nothing from a table whose pages are all full: one  *)
(*    that removes a row stays within the array of pages.                  *)
FaultsExplained ==
  /\ undefined = "empty" => stmt.op = "select" /\ Table.num_rows = 0
  /\ undefined = "bool" =>
       stmt.op = "insert" /\ \E i \in DOMAIN Table.columns : Table.columns[i].type \in {"INT", "REAL"}
  /\ undefined = "pages" =>
       /\ stmt.op = "delete" /\ ideal[stmt.table].rows = before
       /\ Table.num_rows = MaxPages * RowsPerPage(Table.columns)
  /\ undefined \in {"decode", "type"} =>
       \E r \in ideal[stmt.table].rows : r.id = Here.id /\ ~Fitting(Table.columns, r.values)
  /\ undefined = "overflow" =>
       \E n \in DOMAIN tables : \E r \in ideal[n].rows :
         r.id = tables[n].next_id - 1 /\ ~Fitting(tables[n].columns, r.values)

(* Through closing and opening again a name goes on to mean the column it  *)
(* was declared for, or none; unless two names of the table have the same  *)
(* first MAX_NAME_LENGTH characters, and names shorter than that always    *)
(* mean their column.                                                      *)
NamesMeanTheirColumn ==
  \A n \in DOMAIN tables :
    LET declared == ideal[n].columns
        apart == \A i, j \in DOMAIN declared :
                   i # j => declared[i].name.head # declared[j].name.head
    IN \A i \in DOMAIN declared :
         LET found == IndexOf(tables[n].columns, declared[i].name)
         IN /\ apart => found \in {0, i}
            /\ ~declared[i].name.full => found = i
=============================================================================
