------------------------------ MODULE Database ------------------------------
(***************************************************************************)
(* All tables of a database in one file, through CREATE and DROP TABLE,    *)
(* rows inserted and deleted, close, exit and open (core/database.c,       *)
(* core/table*.c, core/row, storage/header_*.c, pager_init).               *)
(*                                                                         *)
(* The file: a word that counts the tables, header slots of which the      *)
(* first MaxTables have room, and data pages.  The slots from MaxTables on *)
(* lie on data page 0.  A table owns no pages: its page i lies page_offset *)
(* + i pages into the data, wherever that may be.  The loop of DELETE and  *)
(* its failures are the business of TableRows, the loops over the hash map *)
(* of HashMap; the latter are taken in the closed form of Chains.          *)
(***************************************************************************)
EXTENDS Chains

CONSTANTS
  Names,             \* names a table can be created with
  NoName,            \* the empty name of a header slot that was never written
  Capacity,          \* HASHMAP_CAPACITY
  MaxTables,         \* MAX_TABLES
  RowsPerPage,       \* calculate_rows_per_page, the same for all tables
  MaxRows, MaxId,    \* bounds: rows of a table, ids given out to a table
  DataPages,         \* bound: data pages of the file
  MaxStatements,     \* bound: statements run over all sessions
  NoRow,             \* what a zeroed row slot reads as
  Torn,              \* a page or header overwritten by the other
  Uncached,          \* no page
  Faults             \* TRUE: a write in close may fail, the process may die

ASSUME DatabaseAssumption ==
  /\ NoName \notin Names
  /\ Capacity \in Nat \ {0} /\ MaxTables \in Nat \ {0}
  /\ RowsPerPage \in Nat \ {0}
  /\ MaxRows \in Nat \ {0} /\ MaxId \in Nat /\ DataPages \in Nat \ {0}
  /\ MaxRows <= DataPages
  /\ MaxStatements \in Nat
  /\ HashOf \in [Names \cup {NoName} -> Nat]
  /\ Faults \in BOOLEAN

VARIABLES
  session,             \* "open", "storing", "flushing", "closed", "undefined"
  num_tables,          \* Pager.num_tables
  buckets,             \* the hash map; its values are Tables
  todo,                \* header_tables_write: tables still to be visited
  idx,                 \* header_tables_write: the next header slot
  count,               \* the file: the number of tables
  slots,               \* the file: header slots
  data,                \* the file: data pages
  length,              \* the file: its length, in count word and slots
  ending,              \* history: how the last session ended, "lost" when
                       \* something that it should have stored was not
  expected,            \* history: what the tables held then
  calm,                \* history: see ExtentsDisjoint
  statements           \* the statements run so far

memory == <<num_tables, buckets>>
disk == <<count, slots, data, length>>
vars == <<session, memory, todo, idx, disk, ending, expected, calm, statements>>

-----------------------------------------------------------------------------
Row == [table : Names, id : 1 .. MaxId]
RowNums == 0 .. MaxRows - 1

\* A table caches at most the pages that database_open loads: one per row.
Pages == RowNums
NoPages == [i \in Pages |-> Uncached]
PageOf(r) == r \div RowsPerPage
BlankPage == [k \in 0 .. RowsPerPage - 1 |-> NoRow]
TornPage == [k \in 0 .. RowsPerPage - 1 |-> Torn]

\* A Table: its header fields and its cached pages.
NewTable(offset) ==
  [num_rows |-> 0, next_id |-> 1, page_offset |-> offset, pages |-> NoPages]

\* Mutant of Header: page_offset is left out.
MutHeader(t, table) ==
  [name |-> t, num_rows |-> table.num_rows, next_id |-> table.next_id,
   page_offset |-> 0]

Header(t, table) ==
  [name |-> t, num_rows |-> table.num_rows, next_id |-> table.next_id,
   page_offset |-> table.page_offset]
ZeroHeader == [name |-> NoName, num_rows |-> 0, next_id |-> 0, page_offset |-> 0]

\* A page has room for five headers.
SlotNums == 0 .. MaxTables + 4
PageNums == 0 .. DataPages - 1
LengthToSlot(i) == i + 2
LengthToPage(p) == 1 + MaxTables + 5 * (p + 1)
Larger(m, n) == IF m > n THEN m ELSE n

TablesIn(b) == {e.key : e \in EntriesOf(b)}
Tables == TablesIn(buckets)
Table(t) == ValueAt(buckets, t)

\* Row r of a table, through its cache; and all the rows of all tables, which
\* is what users of the database see.
RowAt(table, r) == table.pages[PageOf(r)][r % RowsPerPage]
ContentsOf(b) ==
  [t \in TablesIn(b) |->
     [r \in 0 .. ValueAt(b, t).num_rows - 1 |-> RowAt(ValueAt(b, t), r)]]

\* hashmap_set of a table, with the resize it may begin with.
SetTable(b, t, table) ==
  Put(IF Overloaded(Cardinality(EntriesOf(b)), CapacityOf(b)) THEN Resized(b) ELSE b,
      t, table)

\* Header slots from MaxTables on lie on data page 0: writing the one destroys
\* the other.
WriteSlot(i, h) ==
  /\ slots' = [slots EXCEPT ![i] = h]
  /\ data' = IF i >= MaxTables THEN [data EXCEPT ![0] = TornPage] ELSE data

\* Mutant of Flush: the header slots have room for one table less.
MutFlush(table, I) ==
  LET written == {table.page_offset + i : i \in I}
  IN /\ data' = [p \in PageNums |-> IF p \in written
                                    THEN table.pages[p - table.page_offset] ELSE data[p]]
     /\ slots' = [i \in SlotNums |-> IF 0 \in written /\ i >= MaxTables - 1
                                     THEN Torn ELSE slots[i]]
     /\ length' = Max({length} \cup {LengthToPage(p) : p \in written})

\* The pages I of a table's cache are written to the file.
Flush(table, I) ==
  LET written == {table.page_offset + i : i \in I}
  IN /\ data' = [p \in PageNums |-> IF p \in written
                                    THEN table.pages[p - table.page_offset] ELSE data[p]]
     /\ slots' = [i \in SlotNums |-> IF 0 \in written /\ i >= MaxTables
                                     THEN Torn ELSE slots[i]]
     /\ length' = Max({length} \cup {LengthToPage(p) : p \in written})

Cached(table) == {i \in Pages : table.pages[i] # Uncached}
LivePages(table) == {PageOf(r) : r \in 0 .. table.num_rows - 1}

\* What it takes for a close to store everything: the loop over the map sees
\* every table once, each has a header slot and is counted, and no page that
\* one table caches lies on a page of another one's rows.
NoStalePages ==
  \A t, u \in Tables : t # u =>
    \A i \in LivePages(Table(t)), j \in Cached(Table(u)) :
      Table(t).page_offset + i # Table(u).page_offset + j
HeadersFit ==
  Flat(buckets) /\ num_tables = Cardinality(Tables) /\ num_tables <= MaxTables

-----------------------------------------------------------------------------
\* A file that does not exist yet.
Init ==
  /\ session = "closed"
  /\ num_tables = 0 /\ buckets = NoEntries(Capacity)
  /\ todo = <<>> /\ idx = 0
  /\ count = 0 /\ slots = [i \in SlotNums |-> ZeroHeader]
  /\ data = [p \in PageNums |-> BlankPage] /\ length = 0
  /\ ending = "safe" /\ expected = ContentsOf(NoEntries(Capacity)) /\ calm = TRUE
  /\ statements = 0

Statement ==
  /\ session = "open" /\ statements < MaxStatements
  /\ statements' = statements + 1
  /\ UNCHANGED <<session, todo, idx, count, ending, expected>>

\* Mutant of PagesCount: an empty table takes no page.
MutPagesCount(table) == Cardinality(LivePages(table))

\* table_pages_count: at least one page.
PagesCount(table) == Larger(1, Cardinality(LivePages(table)))

\* table_position: past the pages that the tables seen by a loop over the map
\* have now.
Position == FoldLeft(LAMBDA n, e : n + PagesCount(e.value), 0, Visits(buckets))

\* The bound on num_tables lets one table more be created than there is room
\* for; nothing in the code refuses any.
CreateTable(t) ==
  /\ Statement /\ t \notin Tables
  /\ num_tables <= MaxTables /\ Position + MaxRows <= DataPages
  /\ num_tables' = num_tables + 1
  /\ buckets' = SetTable(buckets, t, NewTable(Position))
  /\ calm' = (calm /\ Flat(buckets))
  /\ UNCHANGED <<slots, data, length>>

\* Mutant of DropTable: num_tables is decremented twice.
MutDropTable(t) ==
  /\ Statement /\ t \in Tables
  /\ buckets' = Unlink(buckets, t)
  /\ num_tables' = num_tables - 2
  /\ calm' = FALSE
  /\ UNCHANGED <<slots, data, length>>

DropTable(t) ==
  /\ Statement /\ t \in Tables
  /\ buckets' = Unlink(buckets, t)
  /\ num_tables' = num_tables - 1
  /\ calm' = FALSE
  /\ UNCHANGED <<slots, data, length>>

\* A row goes behind the last one, on a page that is zeroed when the row
\* starts it and it is not cached; the page is flushed.
Insert(t) ==
  LET old == Table(t)
      p == PageOf(old.num_rows)
      page == IF old.pages[p] = Uncached THEN BlankPage ELSE old.pages[p]
      new == [old EXCEPT
                !.num_rows = @ + 1, !.next_id = @ + 1,
                !.pages[p] = [page EXCEPT ![old.num_rows % RowsPerPage] =
                                            [table |-> t, id |-> old.next_id]]]
  IN /\ Statement /\ t \in Tables
     /\ old.num_rows < MaxRows /\ old.next_id <= MaxId
     /\ buckets' = Put(buckets, t, new)
     /\ Flush(new, {p})
     /\ calm' = (calm /\ p = 0)
     /\ UNCHANGED num_tables

\* A DELETE that only row r satisfies: the last row takes its place in the
\* cache, and the page of the LAST row is flushed.
DeleteRow(t, r) ==
  LET old == Table(t)
      last == old.num_rows - 1
      new == [old EXCEPT
                !.num_rows = last,
                !.pages[PageOf(r)] = [@ EXCEPT ![r % RowsPerPage] = RowAt(old, last)]]
  IN /\ Statement /\ t \in Tables /\ r < old.num_rows
     /\ buckets' = Put(buckets, t, new)
     /\ Flush(new, {PageOf(last)})
     /\ UNCHANGED <<num_tables, calm>>

\* A DELETE that no row satisfies still flushes the page a new row would go
\* to, when it is cached.
DeleteNone(t) ==
  /\ Statement /\ t \in Tables
  /\ Flush(Table(t), Cached(Table(t)) \cap {PageOf(Table(t).num_rows)})
  /\ UNCHANGED <<memory, calm>>

-----------------------------------------------------------------------------
(* database_close: header_tables_store, then everything is freed           *)

\* Nobody looks whether the count or a header was written: the close goes on
\* without it.
WriteLost == Faults /\ UNCHANGED disk /\ ending' = "lost" /\ calm' = FALSE

CountWritten ==
  /\ count' = num_tables /\ length' = Larger(length, 1)
  /\ ending' = IF HeadersFit /\ NoStalePages THEN "safe" ELSE "full"
  /\ calm' = (calm /\ HeadersFit)
  /\ UNCHANGED <<slots, data>>

CloseBegin ==
  /\ session = "open"
  /\ session' = "storing"
  /\ CountWritten \/ WriteLost
  /\ todo' = [n \in DOMAIN Visits(buckets) |-> Visits(buckets)[n].key] /\ idx' = 0
  /\ expected' = ContentsOf(buckets)
  /\ UNCHANGED <<memory, statements>>

\* header_table_write of the next table.
HeaderWritten ==
  /\ WriteSlot(idx, Header(Head(todo), Table(Head(todo))))
  /\ length' = Larger(length, LengthToSlot(idx))
  /\ UNCHANGED <<count, ending, calm>>

StoreHeader ==
  /\ session = "storing" /\ todo # <<>>
  /\ session' = "flushing"
  /\ HeaderWritten \/ WriteLost
  /\ UNCHANGED <<memory, todo, idx, expected, statements>>

\* pager_pages_flush of that table: its cached pages, from page 0 up, each
\* released once it is written.
FlushPage ==
  LET table == Table(Head(todo))
      p == Min(Cached(table))
  IN /\ session = "flushing" /\ Cached(table) # {}
     /\ Flush(table, {p})
     /\ buckets' = Put(buckets, Head(todo), [table EXCEPT !.pages[p] = Uncached])
     /\ UNCHANGED <<session, num_tables, todo, idx, count, ending, expected, calm,
                    statements>>

NextTable ==
  /\ session = "flushing" /\ Cached(Table(Head(todo))) = {}
  /\ todo' = Tail(todo) /\ idx' = idx + 1 /\ session' = "storing"
  /\ UNCHANGED <<memory, disk, ending, expected, calm, statements>>

Forget ==
  /\ session' = "closed" /\ num_tables' = 0 /\ buckets' = NoEntries(Capacity)
  /\ todo' = <<>> /\ idx' = 0
  /\ UNCHANGED <<disk, statements>>

CloseEnd ==
  /\ session = "storing" /\ todo = <<>>
  /\ Forget /\ UNCHANGED <<ending, expected, calm>>

\* `.exit`: the process goes without storing.
MetaExit ==
  /\ session = "open"
  /\ Forget /\ ending' = "exit" /\ expected' = ContentsOf(buckets) /\ calm' = FALSE

\* A write that fails in pager_pages_flush ends header_tables_write.
CloseAborts ==
  /\ Faults /\ session = "flushing" /\ Cached(Table(Head(todo))) # {}
  /\ Forget /\ ending' = "lost" /\ calm' = FALSE /\ UNCHANGED expected

\* The death of the process.
Crash ==
  /\ \/ Faults /\ session \in {"open", "storing", "flushing"}
     \/ session = "undefined"
  /\ Forget /\ ending' = "lost" /\ calm' = FALSE /\ UNCHANGED expected

-----------------------------------------------------------------------------
(* database_open                                                           *)

\* pager_header_read: a file that holds the count must be long enough for
\* all the headers counted.
LongEnough == length = 0 \/ length >= 1 + count

OpenRefused ==
  /\ session = "closed" /\ ~LongEnough
  /\ UNCHANGED vars

\* header_table_initialize: the table of a header.  As many pages are loaded
\* as the table has rows, whosever pages they are.
Restored(h) ==
  [num_rows |-> h.num_rows, next_id |-> h.next_id, page_offset |-> h.page_offset,
   pages |-> [i \in Pages |-> IF i < h.num_rows THEN data[h.page_offset + i]
                                                ELSE Uncached]]

Headers == [n \in 1 .. count |-> slots[n - 1]]
Readable == LongEnough /\ \A n \in DOMAIN Headers : Headers[n] # Torn

\* header_tables_restore.
RestoredMap ==
  FoldLeft(LAMBDA b, h : SetTable(b, h.name, Restored(h)), NoEntries(Capacity), Headers)

Open ==
  /\ session = "closed" /\ Readable
  /\ session' = "open" /\ num_tables' = count /\ buckets' = RestoredMap
  /\ UNCHANGED <<todo, idx, disk, ending, expected, calm, statements>>

\* A header that a data page has overwritten is read as one.
OpenTorn ==
  /\ session = "closed" /\ LongEnough /\ ~Readable
  /\ session' = "undefined"
  /\ UNCHANGED <<memory, todo, idx, disk, ending, expected, calm, statements>>

-----------------------------------------------------------------------------
CloseStep == StoreHeader \/ FlushPage \/ NextTable \/ CloseEnd \/ CloseAborts

Next ==
  \/ \E t \in Names :
       \/ CreateTable(t) \/ DropTable(t) \/ Insert(t) \/ DeleteNone(t)
       \/ \E r \in RowNums : DeleteRow(t, r)
  \/ CloseBegin \/ CloseStep \/ MetaExit \/ Crash
  \/ Open \/ OpenRefused \/ OpenTorn

Spec == Init /\ [][Next]_vars

-----------------------------------------------------------------------------
(* Properties                                                              *)

PageSlots == Row \cup {NoRow, Torn}
DataPage == [0 .. RowsPerPage - 1 -> PageSlots]
Offsets == 0 .. DataPages - MaxRows
AnyName == Names \cup {NoName}
TableType ==
  [num_rows : 0 .. MaxRows, next_id : 0 .. MaxId + 1, page_offset : Offsets,
   pages : [Pages -> DataPage \cup {Uncached}]]
HeaderType ==
  [name : AnyName, num_rows : 0 .. MaxRows, next_id : 0 .. MaxId + 1,
   page_offset : Offsets]

ASSUME MarkersAssumption == Torn \notin HeaderType /\ Uncached \notin DataPage

TypeOK ==
  /\ session \in {"open", "storing", "flushing", "closed", "undefined"}
  /\ num_tables \in 0 .. MaxTables + 1 /\ count \in 0 .. MaxTables + 1
  /\ \A e \in EntriesOf(buckets) : e.key \in AnyName /\ e.value \in TableType
  /\ todo \in Seq(AnyName) /\ idx \in SlotNums \cup {MaxTables + 5}
  /\ slots \in [SlotNums -> HeaderType \cup {Torn}]
  /\ data \in [PageNums -> DataPage] /\ length \in Nat
  /\ ending \in {"safe", "full", "exit", "lost"} /\ calm \in BOOLEAN
  /\ statements \in 0 .. MaxStatements

\* A file that opens goes on doing so through inserts, deletes, every step of
\* a close and the death of the process between any two of them, unless the
\* count in it has just been raised or exceeds the room for headers: only a
\* close that announces more tables can leave a file that does not open
\* (header_store.c:18, pager_page_flush, table_position).
DirectoryStaysReadable ==
  [][Readable /\ count' <= count /\ count' <= MaxTables => Readable']_vars

\* What a close stores is what the next open restores (header_tables_store,
\* header_tables_restore), provided the iterator sees every table once, all
\* fit, and nothing stale is cached.
SafeCloseRestores ==
  session = "closed" /\ ending = "safe" =>
    Readable /\ ContentsOf(RestoredMap) = expected

\* The pages of the file that hold rows of a table.
Extent(table) == {table.page_offset + i : i \in LivePages(table)}

\* Calm: no table was dropped, the map was flat at every CREATE and close,
\* no table has outgrown one page, no session ended without a close.  Then no
\* two tables have rows on one page of the file (table_position).
ExtentsDisjoint ==
  calm => \A t, u \in Tables : t # u => Extent(Table(t)) \cap Extent(Table(u)) = {}

\* A database that was closed can be opened again (pager_header_read).
ReopenAfterClose == session = "closed" /\ ending \in {"safe", "full"} => LongEnough

\* A calm database that was closed comes back with the same rows.
RowsSurviveClose ==
  session = "closed" /\ ending \in {"safe", "full"} /\ calm =>
    ContentsOf(RestoredMap) = expected
=============================================================================
