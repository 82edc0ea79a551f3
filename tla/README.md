# database.c in TLA+

A TLA+ model of [database.c](../src/README.md): a single-process, single-file
SQL database with tables, rows, a page cache and a header directory. The modules
here model it from the key that is typed to the cell of a page: the line editor, the
tokenizer, the parser, the analyzer and the executor, and the storage core. The TLC
configurations check them on small instances. `TableRowsProofs`, `HashMapProofs`,
`DatabaseProofs`, `TokenizerProofs`, `ParserProofs`, `StatementsProofs` and
`LineEditorProofs` prove every safety property of these components, and two refinements, for every size.
Paths below are relative to the repository.

Contents: [the system](#the-system) · [modules](#modules) · [runs](#runs) ·
[proofs](#proofs) · [findings](#findings) · [limits](#what-the-model-leaves-out) ·
[plan](#plan)

## The system

One thread reads a line, tokenizes, parses and checks it, executes the statement
and reads the next. There is no concurrency. What makes the program hard to get
right is its state on disk: rows reach the file at once, headers only when the
database is closed, every table computes by itself where its pages lie, and the
number of tables, the headers and the hash map are three separate accounts of
the same thing.

| Component | State | Operations | What it talks to | What is hard | What makes it correct |
|---|---|---|---|---|---|
| Main loop, meta commands (`src/main.c`, `src/meta_commands.c`) | none | read a line; `.tables`, `.schema`, `.exit` | everything | `.exit` leaves with `exit(0)`; the end of input closes properly | one line is dealt with before the next is read |
| Line editor (`libs/linenoise.c`) | line, cursor, history, raw mode | a handler per key; history add, save, load | terminal, `.db_history` | the current line is itself an entry of the history; buffer and terminal width limits | what is shown is what is edited; the history only loses its oldest line |
| Tokenizer (`src/parser/tokenizer`) | position, tokens | `tokenize_query` | called by main | escapes, the end of the line inside a literal, failing allocations | tokens tell the line; no access outside line and buffer; nothing leaks |
| Parser (`src/parser`) | token index, AST under construction | one function per statement | tokens in, AST out | fixed token indices, optional parts, half-built nodes | accepts the grammar, stays below the token count, frees what it allocated |
| Semantic analyzer (`src/parser/semantic_analyzer`) | none | one check per statement | looks tables up | the executor relies on its checks | nothing unchecked reaches the executor |
| Executor, WHERE, printing (`src/executor`, `row_select.c`, `row_utils.c`) | the row read last | dispatch, row limit, comparison, print | core | union members and column indexes are trusted; rows are released once, after the loop | SELECT prints and DELETE removes the rows that meet the condition |
| Hash map (`src/core/hashmap/hashmap.c`) | buckets, size, capacity | set, get, delete, resize | holds all tables | collisions, resize relinks chains while it walks them | a map: finds what was last set |
| Iterator (`hashmap_iterator.c`) | bucket number, current entry | init, has_next, next | drives close, placement, listings | first bucket and chain ends | returns each entry once — it does not |
| Table create, drop (`src/core/table*.c`) | `Pager.num_tables`, `page_offset` | create, drop, position | map, pager | the place of a table depends on what the iterator returns | tables do not share pages |
| Rows (`src/core/row`) | `num_rows`, `next_id`, row slots | insert, delete, select | pager, cursor | delete moves the last row and looks at the slot again; page boundaries; a flush failing half-way | no row lost or doubled, unique ids |
| Pager (`src/storage/pager*.c`) | cached pages, file | load, alloc, flush one, flush all | file | cached versus stored content, page limit | a row on a page is found there again |
| Headers (`src/storage/header_*.c`) | count word, header slots | store, restore | map, pager | written count before headers before pages | what close stores, open restores |
| Row codec, conversions (`row_storage.c`, `utils/convertions.c`) | none | serialize, deserialize, convert | rows | a text longer than its slot overwrites the next; a row is read by what it carries | round trip of every row that fits |
| Loggers, unity | none of interest | output, tests | — | — | not modelled |

`PROJECT.json` lists under "hazards" where in the code each difficulty bites and
which property watches it.

## Modules

| Module | Models | Extends |
|---|---|---|
| `RowSet` | what one table promises: its rows, no pages, no file | |
| `TableRows` | one table: slots, cached pages, its extent in the file, its header | |
| `MCTableRows` | its values and their symmetry | `TableRows` |
| `TableRowsProofs` | the theorems about it | `TableRows`, `TLAPS` |
| `Chains` | buckets as sequences; in closed form what resize and iteration come to | |
| `ChainsProofs` | the lemmas about it: sums, folds and flattened sequences | `Chains`, `TLAPS` |
| `TableMap` | what the hash map promises: a function from names to tables | |
| `HashMap` | the map and its iterator, loops one iteration per step | `Chains` |
| `MCHashMap` | keys and their hash values | `HashMap` |
| `HashMapProofs` | the theorems about it | `HashMap`, `ChainsProofs` |
| `Database` | all tables in one file: placement, directory, close, open | `Chains` |
| `MCDatabase` | table names and their hash values | `Database` |
| `DatabaseProofs` | the theorems about it | `Database`, `ChainsProofs` |
| `Tokenizer` | the scanner, character by character, and its memory | |
| `MCTokenizer` | its alphabet | `Tokenizer` |
| `TokenizerProofs` | the theorems about it | `Tokenizer`, `TLAPS` |
| `Parser` | the statement parsers, token by token, and who frees what | |
| `MCParser` | its instance | `Parser` |
| `ParserProofs` | the theorems about its token index, its memory and what it accepts | `Parser`, `TLAPS` |
| `Statements` | analyzer, executor, WHERE, row codec: rows as cells of pages | |
| `MCStatements` | columns, values and conditions | `Statements` |
| `StatementsProofs` | the theorems about it | `Statements`, `TLAPS` |
| `LineEditor` | the line editor, the history and its file | |
| `MCLineEditor` | the lines of an input that is no terminal | `LineEditor` |
| `LineEditorProofs` | the theorems about it | `LineEditor`, `TLAPS` |

The three storage components meet as in the code. `Database` takes the loops over the
map from `Chains` in one step each, and `HashMap` checks that the loops really
come to that (`LoopsMeetClosedForms`). `Database` runs a
statement in one step; `TableRows` takes the same statements apart and shows
what they do to one table when writes fail and the process dies inside them.
`Statements` has the same loops again without the file, but with what a row
is made of, where slots overlap and what is printed.

The front end is a pipeline, and each module states what the next one relies on:
`LineEditor` hands over a line, `Tokenizer` accepts it only as tokens with exactly
one semicolon, at the end (`ParserMayRely`), which is how `Parser` supplies its
tokens; `Parser` hands over nodes of the statement's form (`AcceptedFollowsGrammar`),
which are the statements that `Statements` enumerates.

### TableRows

State: `num_rows` and `next_id` are the fields of `Table`; `cached` the page
numbers with `pages[p] != NULL`; `pages` what those pages hold; `file` the
table's extent in the file; `header` its header slot; `stmt` the DELETE under
way. A slot is numbered across pages, as `cursor_value` computes it. Column
values are one abstract value per row, and a WHERE condition is the set of values
that satisfy it.

| Actions | Code |
|---|---|
| `InsertRefused`, `InsertNoPage`, `InsertRow` | `execute_insert_rows`, `insert_row`, `pager_page_alloc`; with and without a failing flush |
| `BeginDelete`, `DeleteSkip`, `DeleteLast`, `DeleteMove`, `DeleteAborts`, `DeleteEnd` | `delete_row`, each way through an iteration of its loop and its end |
| `CloseBegin`, `CloseFlush`, `CloseEnd`, `CloseAborts` | `header_table_write`, `pager_pages_flush` page by page |
| `MetaExit`, `Crash` | `.exit`, death of the process |
| `OpenRestores`, `OpenDangles` | `header_table_initialize`: all pages loaded, or the table freed while the map still refers to it |
| `UseFreed`, `Undefined` | a statement, `.tables` or `database_close` at the end of the input on the freed table; nothing is said of what follows |

The variables `saved`, `touched`, `doubled` and `sound` are history: the live rows
at the last header store; whether this session has deleted rows or seen a write
fail; the rows that failed DELETEs have left in the table twice; and whether the
promise still stands. It ends in two ways: a session that has deleted rows or seen
a write fail ends without a full close, or a session whose open could not restore
the table goes on with the freed one. It does not end when the flush in the middle
of a DELETE fails (`DeleteAborts`, `row_delete.c:67-72`): the session goes on with
the row at the end of the table in it twice, and a full close stores it twice.
`IdsUnique` allows equal copies of such rows and of no other, and `RowSet`, which
knows how many rows a SELECT shows, lets the table have one row more than it should,
in that session and in all sessions after it; whatever else became of the ids, the
count or the other rows would still be found.
`RowSet` is that promise without slots and pages, and `TableRows` implements it
(`RefinesRowSet`; the mapping is `Promise` at the end of `TableRows`).

### Chains, HashMap

`buckets` is a function from bucket numbers to chains, head first. `Set` and
`Delete` are the functions of that name; a resize is `BeginResize`, a `MoveEntry`
per entry, `NextChain` and `EndResize`; an iteration `BeginIterate`, a `Step` per
call of `hashmap_iterator_next`, and `EndIterate` when `has_next` is false. The
hash function is a constant, so that a configuration chooses the collisions.
`last` is history, the operation carried out last; without it `TableMap` could not
tell a delete from a set.

What the iterator does, and `VisitsOf` says in closed form: it returns all of a
chain but its last entry, and before that, except in bucket 0, the head once. So
it is exact only for a map with an empty bucket 0 and no collisions (`Flat`).
`IterationReturnsOthers` states what is left of the promise and holds of the code:
only tables of the map are returned, and every one but, at most, the last of bucket 0 and the
last of a chain of two or more. That `.tables` and `.schema` leave those out is against
`src/README.md:88-89`, and part of finding 1.

### Database

State: the map and `num_tables` in memory; `count`, `slots`, `data` and `length`
in the file. Slots from `MaxTables` on lie on data page 0 and overwriting one
destroys the other (`Torn`). A table's page `i` is data page `page_offset + i`,
whoever else may use it. `todo` and `idx` drive the loop of `header_tables_write`.

| Actions | Code |
|---|---|
| `CreateTable`, `DropTable` | `table_create` with `table_initialize` and `table_position`; `table_drop` |
| `Insert`, `DeleteRow`, `DeleteNone` | `insert_row`; `delete_row` with one match, and with none |
| `CloseBegin`, `StoreHeader`, `FlushPage`, `NextTable`, `CloseEnd`, `CloseAborts` | `database_close`: count word, then for each table its header and its pages one by one; the writes of the count and of a header may fail without notice (`WriteLost`), that of a page ends the close |
| `MetaExit`, `Crash` | `.exit`; death of the process, also after a torn header was read |
| `OpenRefused`, `Open`, `OpenTorn` | `database_open`: `pager_header_read` refuses, `header_tables_restore`, the same with a header that a page has overwritten |

`ending`, `expected` and `calm` are history: how the last session ended, what
the tables then held, and whether nothing has happened so far that makes tables
share pages. Nobody looks whether the count or a header was written
(`header_store.c:18`, `:56`, `:61`): the close goes on, and `ending` is "lost" instead of
"safe" or "full".

### Tokenizer

State: `query` is the part of the line that has been looked at, and supplies a
character (its class, or the NUL) when its position is first read; behind the NUL it
supplies anything, which is what a read behind the array may find. `position`,
`start`, `decimal`, `escape`, `capacity` are the locals of that name; `length` is what
`read_string_literal` has written to its buffer, `text` what `strdup` sees of that.
`tokens` has the type and the extent of each token, `heap` the blocks allocated for the
line. Any allocation may fail.

| Actions | Code |
|---|---|
| `AllocState`, `AllocQuery`, `AllocTokens` | `tokenizer_init`, one allocation each |
| `Skip`, `StartWord`, `StartNumber`, `Minus`, `AfterMinus`, `StartString`, `SingleToken`, `Semicolon`, `EndOfLine` | one turn of the loop of `tokenize_query`, by the character it finds |
| `ReadWord`, `ReadNumber`, `ReadString` | `read_word`, `read_numeric_literal`, `read_string_literal`, a character per step, with `add_token` at the end |
| `Release`, `NextLine` | the main loop: `tokenizer_free`, the next line |

`add_token` exits the process when it cannot grow the array; the next line is then the
first of the next process.

### Parser

State: `tokens` is the part of the array that has been read, `index` the local of
that name, `node` the AST node, `columns` the local array of `columns_parse`,
`heap` the blocks allocated for the statement, `leaked` those that earlier
statements left, `pc` the place in the code. The tokenizer supplies a token when
its position is first read, so a behaviour stands for all statements with that
beginning; behind the semicolon it supplies anything, which is what reading behind
the array may find. A token is its type, or its text for keywords, punctuation and
the wildcard; INT stands for INTEGER and BOOLEAN for BOOL as well.

| Actions | Code |
|---|---|
| `Dispatch`, `ExpectHead` | `parse`; the fixed beginnings of the five parsers (`Prefix`) |
| `ColumnName`, `ColumnKeyword`, `ColumnEnd` | `columns_parse` |
| `InsertValue`, `InsertEnd` | the loop of `parser_row_insert` |
| `SelectAll`, `SelectColumn`, `SelectOther`, `SelectEnd`, `SelectFrom`, `SelectTable` | `parser_row_select` |
| `OptionalWhere`, `WhereColumn`, `WhereOperator`, `WhereValue` | the end of `parser_row_select` and `parser_row_delete`; `parser_where_condition` |
| `Release`, `NextStatement` | the main loop: `ast_free` after execution, the next line |

An error path is `Fail`: it frees the local array with `columns_free`, where there
is one, and the node with `ast_free` as far as it is built (`AstFree`). The parser
meets the rest of the model in the AST only: what `Database`, `TableRows` and
`Statements` run are the statements it accepts.

### Statements

State: `tables` holds for each table its columns, `num_rows`, `next_id`, its pages
as one row of cells, and in `cached` how many of them are in memory, always the first ones. A field takes a cell, a text one for each character and one for
its terminator; each cell knows what it holds, so that reading a cell as what it is
not is noticed. An INT is one of `2 * IntHalf` numbers without a sign, as `uint32_t` is.
`stmt`, `at` and `index` are the statement and the loop it is in, `deleted_any` the
local of `delete_row`. `undefined` is the kind of undefined
behaviour met; the model stops there. `ideal` and `before` are history: the columns and
rows as the statements had them, now and when the statement began.

| Operators and actions | Code |
|---|---|
| `AnalyzeCreate`, `AnalyzeDrop`, `AnalyzeInsert`, `AnalyzeSelect`, `AnalyzeDelete`, `AnalyzeWhere` | `semantic_analyzer.c`: every check in its order, first failure reported |
| `Serialize`, `Deserialize`, `RowSize`, `RowsPerPage` | `row_storage.c`, `calculate_row_size`, `calculate_rows_per_page` |
| `Chosen`, `Compare`, `PrintRow` | `evaluate_where_condition`, `print_row` |
| `Refused`, `Create`, `Drop` | a statement the analyzer rejects; `table_create`, `table_drop` |
| `InsertFails`, `Insert` | `execute_insert_rows`, `insert_row`, `pager_page_alloc` |
| `InsertFaults` | the union of an INT or a REAL is copied as a `bool` too (`row_insert.c:35-37`) |
| `BeginSelect`, `SelectTurn`, `EndSelect` | `select_row`, a row per step |
| `BeginDelete`, `DeleteTurn` | the loop of `delete_row`, a turn per step |
| `EndDelete` | its last flush (`row_delete.c:81-87`): of a page that is cached, of one that is not, or of one behind the array of pages |
| `LoopFaults` | the row at the index does not read back, or a union member is read that was not written |
| `Reopen` | what storing and restoring a header does to the names of columns, and which pages are then cached |

### LineEditor

State: `edit` is `struct linenoiseState` (line, cursor, terminal width, index into the
history), `history` the entries, `screen` what the terminal shows behind the prompt,
`file` the characters of `.db_history`, `mode` whether standard input is a terminal
that can be edited on. `saved`, `before` and `browsed` are history: what was saved
last, what the history was when the line was begun, and whether nothing has been typed
in it so far.

| Actions | Code |
|---|---|
| `Open`, `EditStart`, `RawModeFails` | `linenoiseHistoryLoad`, `linenoiseHistorySetMaxLen`; `linenoiseEditStart`, with raw mode and refused |
| `EditInsert`, `EditMoveLeft`, `EditMoveRight`, `EditMoveHome`, `EditMoveEnd`, `EditDelete`, `EditBackspace`, `EditDeletePrevWord`, `EditHistoryPrev`, `EditHistoryNext` | the handlers of these names (`EditHistoryNext` and `Prev`: `linenoiseEditHistoryNext`) |
| `Transpose`, `KillLine`, `KillEnd`, `ClearScreen` | Ctrl-T, Ctrl-U, Ctrl-K, Ctrl-L in `linenoiseEditFeed` |
| `Enter`, `EndOfFile`, `Interrupt` | Enter, Ctrl-D on an empty line, Ctrl-C or a failing read; then main takes the line or leaves its loop |
| `ReadLine`, `EndOfInput` | `linenoiseNoTTY`, and `fgets` for a terminal without escape sequences |

Where main leaves its loop the history is saved (`Leave`), unless the file cannot be opened:
`linenoiseHistorySave` then returns -1, which main ignores, and the file stays as it was.

Every key is one step with the refresh it ends in. `Appended` is the one handler that
writes a character instead of the row; `ScreenShowsCursor` says that this comes to the
same.

## Runs

| Run | Shows | Bounds |
|---|---|---|
| `table_rows` | `IInv`, the invariant of the proofs, holds; a DELETE has a page to flush at its end; ids unique; the file holds what the last close saved; no statement loses other rows; the table implements `RowSet` | 2 values, 2 rows per page, 2 pages, 3 rows, 3 ids, failing writes and crashes |
| `table_rows_live` | every DELETE ends | 1 row per page, 2 pages, 3 rows allowed: more rows than pages |
| `table_rows_restore` | finding: a long table is not restored | 2 rows per page, 2 pages, 4 rows |
| `hash_map` | entries stay where lookups search; a resize loses nothing; the size is right; resize and iteration come to their closed forms; what an iteration returns and repeats, and what it may leave out; the map implements `TableMap` | 5 keys: a chain of three in bucket 1, and a chain of two in bucket 0 that the second resize takes apart; 2 values, capacity 2 |
| `database` | the directory stays readable in a session and through a crash; when a close stores everything; when tables keep apart | 3 names (two of which collide until the map grows), `MaxTables` 2, 2 rows per page and table, 6 statements over any number of sessions, failing writes and crashes |
| `database_reopen`, `database_rows` | findings | no faults; 2 or 3 names |
| `tokenizer` | no access outside line and buffer; nothing leaks; the parser gets what it relies on; each token is the lexeme its type says, as long as it can be, and what vanishes between tokens is known; every line ends | lines of up to 5 characters of 12 classes, first capacity 2, any allocation may fail |
| `parser` | no read behind the semicolon; each block is freed once, all but one kind are freed; what is accepted has the statement's form and its node says so | statements of up to 13 tokens: two columns and the comma before a third, three values and the comma before a fourth, a SELECT of two columns with WHERE; any number of statements in a row |
| `parser_where` | finding | up to 9 tokens |
| `statements` | rows that fit read back as inserted; SELECT prints and DELETE removes what the condition says; where behaviour is undefined and why nowhere else; what names mean after a reopen | 5 column lists, one with a type that is none, texts of 0 to 4 characters with room for 2, INT of 2 bits, pages of 19 cells (1, 2 or 3 rows), 2 pages, 3 rows, 4 ids |
| `line_editor` | the screen is a window of the line with the cursor in it; looking through the history keeps it; a line costs the history at most its oldest entry; the history survives a restart | 7 keys, 2 runs of the program, lines of up to 3 characters, terminals of 1 to 4 columns with a prompt of 1, a history of 2, a history file that may not open |

Why the bounds are enough for what the runs show. The page arithmetic has three
cases for a row: it starts a page, it continues one, there is no page for it; two
rows per page and two pages reach all of them, one row per page makes the page
limit meet the row limit. The map needs a chain of three, bucket 0 and one more
resize after the first. Two tables and a third beyond `MaxTables` reach every way
two tables can meet in the file, with two rows on one page because that is the
least for which open caches a page too many. Six statements are enough for three
tables with rows, a drop and a new table in the gap.

A parser's loops have a first, a second and a last turn, which 13 tokens reach. Five
characters and a first capacity of 2 let the buffer of a string grow, at an escape
that writes two characters as well; punctuation and the wildcard are scanned as
operators are and are left out of the instance, as is a letter that also names an escape.
Two bits for an INT give two values of each sign, which is all that a comparison
without sign and a print with sign can confuse. Texts of 0 to 4 with room for 2
leave room, fill the slot, exceed it by the terminator alone, and reach far into the next
slot or beyond the page. A prompt of 1 leaves terminals of 4, 3 and 2 columns that start to scroll at
the third, second and first character, and one of 1 has no room at all; a history of 2 is full with one line and the current one.
`LINENOISE_DEFAULT_HISTORY_MAX_LEN` and `MAX_HISTORY_LENGTH` are equal in the code, so
they are in the instance.

Deadlock is checked in every run but two. `Statements` and `LineEditor` stop where behaviour
is undefined, and at the bounds `MaxKeys` and `MaxRuns`; what is undefined is limited by
`FaultsExplained` and `UndefinedExplained`. Everywhere else the program can always go on.

Fairness: the only thread runs a statement or a scan to its end, so
`TableRows!FairSpec` has weak fairness of `DeleteStep` and of `CloseStep`, and
`Tokenizer!FairSpec` of `ScanStep`. Nothing is assumed of
the user: no statement has to be entered and no line typed.

Every property of a passing run has a mutant in `PROJECT.json`: a definition changed as a slip in
that code would change it (`Mut...`, next to the definition), under which the
property fails.

## Proofs

The proofs assume only the assumptions on the constants that the modules name
(`ParamAssumption`, `MapAssumption`, `DatabaseAssumption`, `MarkersAssumption`,
`TokenizerAssumption`, `MaxTokensAssumption`, `StatementsAssumption`, `LineAssumption`,
`PromptAssumption`, `HistoryAssumption`, `LoadAssumption`, `InputAssumption`);
TLC evaluates each of them in the runs. They bound sizes from below and give constants their type;
the ones that say more are explained below.

### A table

`TableRowsProofs`, for any number of pages, rows per page, rows, ids and
values, with and without faults:

| Theorem | Says |
|---|---|
| `TypeCorrect` | types, and `LivePagesCached` |
| `DeleteLoopCorrect` | `FinalFlushHasPage` and `DeleteScanned` |
| `InvariantHolds` | `IInv` |
| `IdsAreUnique` | `IdsUnique` |
| `SavedIsInFile` | `SavedInFile` |
| `NothingElseLost` | the action property `NoCollateralLoss` |
| `ImplementsRowSet` | the refinement `RefinesRowSet` |

The argument goes in layers. `CoreInv` (types, a statement only runs in an open
session, the pages of live rows are cached) is inductive by itself. It rests on
three lemmas of arithmetic: `PageDivision`, `SlotOfPage` (a page number below the
limit means a slot below the limit) and `PageAtMostSlot` (loading page `i` for
every row `i`, as open does, loads every page that has rows). From `CoreInv`
follows `LoadCached`: inside a statement `pager_page_load` never reads the file,
so each step of DELETE has a simple effect (`SkipEffect`, `LastEffect`,
`MoveEffect`, `AbortEffect`, `InsertEffect`), and the remaining invariants only use these. The
loop invariant of DELETE is inductive next to `CoreInv`. `SavedInFile` is not: it
speaks of the time between sessions. `SavedKept` says what is true at each point
inside one — file and cache agree on live rows until something is deleted, and
while closing each saved row is in the cache or already in the file — and with it
`IdsUnique` needs `SavedIdsUnique`, the same about the rows that an open brings
back.

`ImplementsRowSet` uses all of that. `PromiseInv` is `IInv` with `Quiet`, which says
that `touched` is false between sessions. Each action is then one of: a step that
leaves the mapped state alone (`SameView`), one that takes a row out (`TakenOut`: no
other slot has its id, which is `IdsUnique`, unless it is one of `doubled` and its copy
stays; `RemovesOne` and `LeavesTwice` for a DELETE that goes on or fails), one after which the
table is outside its promise (`DamageStep`), or the action of the same meaning in `RowSet`.

### The hash map

`HashMapProofs`, for every set of keys, every hash function and every capacity:
`TypeCorrect`, `LookupsFind` (`MapWellPlaced`), `SizeCorrect` (`SizeIsCount`),
`ResizeLosesNothing` (`NothingLostInResize`), `RefinesTableMap`
(`ImplementsTableMap`), `IteratorReturnsOthers` (`IterationReturnsOthers`) and
`LoopsAreClosedForms` (`LoopsMeetClosedForms`). The invariant is
`TypeOK /\ MapOK /\ ResizeOK`. `MapOK` places each
key in at most one entry, of the bucket it hashes to; `ResizeOK` says where a resize is:
the walk is at some place of some old chain, and the new chains, placed for twice the
capacity, have exactly the entries it has passed. `SizeIsCount` needs the cardinality of
the entries, so each step of the map adds or removes exactly one entry or changes its value.

That the iterator returns what it does needs `IterateOK`: after `p` entries of the chain
of bucket `i`, what has been returned are the entries `Shown` so far. `LoopsAreClosedForms`
says the same with order and repetitions, and of a resize too: `MovedOK` and `VisitsOK` put
each turn of the loop beside a turn of the closed form that `Database` computes with.

The closed forms are folds and flattened sequences. The library defines both by
recursion over a chosen order, so `ChainsProofs` first establishes what the provers can
use: a nonempty set of numbers has a least element (`LeastExists`), hence what holds at
the start and is kept by every turn holds up to the end (`UpTo`), hence a fold is the
last of the values of its turns (`FoldExists`, `IsFold`). On top of them stand the lemmas
about chains: what pushing, replacing and removing an entry does to the entries of a map
(`PushedAt`, `ReplacedAt`, `RemovedAt`), what a resize moves (`MovedTurns`) and what
an iteration returns (`VisitTurnsExist`).

### All tables in one file

`DatabaseProofs`, for any number of tables, names, pages and rows and every hash
function, with failing writes and crashes:

| Theorem | Says |
|---|---|
| `TypeCorrect` | `TypeOK`, in the middle of a close too |
| `DirectoryStays` | the action property `DirectoryStaysReadable`: a close leaves a readable directory readable when the count it writes is neither raised nor above `MaxTables` |
| `CalmTablesApart` | `ExtentsDisjoint` |
| `SafeCloseIsRestored` | `SafeCloseRestores` |

`TypeInv` adds to the types that the map is well placed (`MapInv`, from the lemmas of
`ChainsProofs`), that what a close still has to write are entries of it (`TodoInv`) and what
the file may hold (`DiskInv`). The difficulty is that an open builds the map by a fold
over the header slots: `RestoreTurns` says what the map is after each slot, `RestoredTo`
that it has the entries of the slots read, if no two have one name. The place of a table
is the sum of the pages the iterator returns (`PagesOf`), of which only two facts
matter: it is a natural number, and it does not decrease.

`DirectoryStays` follows from `TypeInv` and `DirectoryKept`, which says at each point of a
close which slots are already written. The last two theorems share one invariant. `CalmInv`:
while nothing has gone wrong, tables with rows are apart in memory. `StoreInv`: a close that
sees every table once follows a `Plan`, slot by slot, of which `Done` slots are written.
`SafeInv`: what the cache shows of a table is what it should hold. `StoredInv`: the slots
written so far hold the tables of the plan, and their rows lie in the file. When the loop
ends, these are the hypotheses of `RestoredTo`. Two assumptions are about
the model and not the program: `MaxRows <= DataPages` (in `DatabaseAssumption`), so that the
modelled part of the file has room for the table at offset 0; and `MarkersAssumption`, that
the marks for a torn header and for a page not cached are neither headers nor pages.

### The tokenizer

`TokenizerProofs`, for every alphabet, line length and first capacity of at least 2:
`TypeCorrect`, `MemorySafe` (`AccessesInside`), `NoLeak` (`NothingLeaks`),
`ParserSafe` (`ParserMayRely`) and `TokensAreTheLine` (`TokensTellTheLine`). No reader is told how long its line is; what
keeps it inside is that everything before `position` has been read and is not the NUL
(`PositionOK`). `BufferOK` says that `length` is at most `capacity` and `capacity` at
least 2: so `Grown` always makes room for two characters, either because
they fitted or because doubling adds two.
`HeapOK` ties `heap` to `pc` and to the number of tokens, `EOFOK` says that an EOF token
ends the scan.

`TokensAreTheLine` adds `TellInv`: the tokens so far are lexemes in order with nothing
but ignored characters between them (`TokensOK`, `GapOK`), and the reader at work is
inside a word, a number or a string that it has read to the end so far
(`WordSoFar`, `NumberSoFar`, `StringSoFar`). The hard part is the size of a string's text.
The property tells an escape by where its run of backslashes begins, the reader
by a flag it flips; `RunDecides` joins the two, `EscapeForward` and `EscapeBackward` carry
it over a character, and one lemma for each way through a turn (`BodyStep`, `CutStep`,
`KeptStep`, `OpenersStep`, `UnknownStep`) shows that `length` grows by what the
cardinalities in the property grow by.

### The parser

`ParserProofs`, for statements of every length that `MaxTokensAssumption` allows, which
is up to ten columns: `ReadsAreInside` (`ReadsInsideStatement`), `MemoryFreedOnce`
(`FreesWhatItAllocates`) and `TypeCorrect`. The assumption's upper bound is not used.
`ReadsInsideStatement` alone is not inductive: that the
next read is inside needs that no semicolon has been consumed and that at most one
token beyond the consumed ones has been read. `ReadInv` says that, and for the
fixed beginnings that the index is inside the beginning of the statement the first
token names. Every step then is one of three: it consumes a token that is not a
semicolon (`ConsumeKeepsInv`), keeps it (`KeepKeepsInv`) or refuses it
(`FailKeepsInv`).

`MemoryInv` adds to `ReadInv` that the node has the parts its place in the code
calls for (`NodeFits`) and that `heap` is exactly what the node and the local array
refer to, but for the column name of a DELETE whose WHERE breaks off (`HeapFits`). Each
statement then has one lemma for its own steps (`...KeepsMemory`), resting on
`HeapGrows` (an allocation that the node takes over) and `FailFrees` (a failure frees
what is held).

`AcceptsGrammarOnly` is `AcceptedFollowsGrammar`. The property speaks of the whole statement; `GrammarInv` says for each place in the code which part of
the form the tokens so far have, and that the node says the same: that they begin
with the statement's fixed words (`BeginsWith`), that `c` columns are declared (`Declares`),
`v` values listed (`Lists`), columns selected up to the table's name (`SelectedUpTo`), and
what of a WHERE is complete (`InWhere`). A new token leaves all of that as it was, as it
is only appended (`Agree`).

### Statements

`StatementsProofs`, for any number of tables, column lists, texts, widths of INT and sizes
of a page that has room for a row of every table:

| Theorem | Says |
|---|---|
| `TypeCorrect` | `TypeOK` |
| `Invariance` | `IInv`, the invariant the others rest on |
| `RowsReadBack` | `FittingRowsIntact` |
| `SelectIsRight` | `SelectsWhatItSays` |
| `DeleteIsRight` | `DeletesWhatItSays` |
| `FaultsAreExplained` | `FaultsExplained` |
| `NamesKeepMeaning` | `NamesMeanTheirColumn` |

None of the properties is inductive, as all speak of what a row reads as. `IInv` says
what lies where instead. `RowsOK`: there are as many rows as `num_rows` says, and each slot
below it holds the first `row_size` cells of a row of its own (`Holds`), which is all of
the row if it fits. `ColumnsOK`: the columns of a table are the declared ones, or what a
restored header makes of them. `StmtOK`: the statement under way is one that the analyzer
accepted (`Accepted`). `CachedOK`: the pages cached are the first ones, and every row is on
one of them.

The argument begins with the layout: a slot lies within one page (`SlotInPage`) and apart
from every other (`SlotsApart`), both consequences of `QuotientIs`. Size, fields and cells of a row are
folds and flattened sequences over the columns, so each gets its turns, as in
`ChainsProofs` (`SizeTurns`, `FlatTurns`, `ReadTurns`). `SerializeIs` says where each value of
a row is written, `ValueRead` what reading there gives, and `RowIsRead` joins them: the
codec gives back the row, for every column list. What differs is an INT,
of which only the bits come back; `BitsTell` says that they are enough, so a condition
and a print mean the same of the row read and of the row inserted (`ConditionMeant`,
`PrintMeant`).

`InsertKeeps`, `DeleteKeeps` and `ReopenKeeps` carry `RowsOK` over what changes a table. The
first needs that a text longer than its slot only reaches slots behind its own, as the
new slot is the last one; the second that moving `row_size` cells of the last row moves
all that `Holds` speaks of. For a SELECT the invariant of the loop is
`PrintedOK` (`LineAdded` and `LineSkipped` keep it); for a DELETE it is `RemovedOK`: of the rows
before the index none that fits is to be removed, and of the rows gone every one that
fits was. Where behaviour is undefined, `FaultIsLong` and `OverflowIsLong` find the row that does not fit.
`AllocKeeps` shows that a page which is allocated anew held no row, and `PagesFull` that the page behind
the last row is outside the array only when every slot is taken.

### The line editor

`LineEditorProofs`, for lines, histories and terminals of any size:

| Theorem | Says |
|---|---|
| `Invariance` | `IInv`, the invariant the others rest on |
| `TypeCorrect` | `TypeOK`: types, the indices of the handlers, and what explains undefined behaviour |
| `ScreenIsWindow` | `ScreenShowsCursor` |
| `BrowsingIsHarmless` | `BrowsingKeepsHistory` |
| `EnteringCostsOldest` | the action property `LineCostsAtMostOldest` |
| `RestartKeepsHistory` | the action property `HistorySurvivesRestart` |

`IInv` has a part for each phase. While a line is edited (`Editing`) it fits its buffer,
its index is one of an entry (`EditOK`), the history is as long as when the line was
begun, and the screen is `Drawn`. Between lines nothing is in raw mode (`Idle`), and where
the program has left what is defined, one of two reasons holds (`Stopped`). `HistoriesOK`
limits the histories and says that the file is what was last saved. Entries need not be
shorter than the editor's buffer: a line read from a pipe may be longer. But that input
stays a pipe, and a history that comes back from a file went through the buffer of
`fgets`; so an editor never meets a long one (`ShortLines`).

For the screen, `ShownIsDrawn` shows that a refresh draws a window of the line wherever
the terminal has room, and `AppendedIsDrawn` that writing one character keeps it one, up
to the last column. Each handler is then only asked to leave a line that fits (`MovedKeeps`,
`ChangedKeeps`, `InsertKeeps`, `HistoryStepKeeps`).

`BrowsingKeepsHistory` is not inductive: that what is put back changes nothing needs that
it came from there. `Browsing` adds that the line is what its entry was taken for; an entry
that has lost its last character (`CutOff`) loses no other. `EnteringCostsOldest` compares the history
with what it was through `CurrentLine`, which may have dropped the oldest entry, taken
an empty one for the current line, or neither (`PoppedWas`).

`RestartKeepsHistory` follows the characters of the file. Writing, reading by pieces and
adding the pieces are folds, each replaced by its turns (`Written`, `ReadTurns`, `LoadTurns`);
`EntryAt` says where in the file an entry lies, `PlainIsRead` that `fgets` takes it up to
its newline, `PiecesOfPlain` that the pieces are the entries, and `Came` which of them the
history has after each. It needs `LoadAssumption`, that a load does not cut what the limit
set afterwards would keep: both limits are 100 in the code (`linenoise.c:118`, `linenoise.h:48`).

### Not proved

Every invariant and every action property that a passing run checks is a theorem. Only
model-checked is liveness
(`DeleteTerminates`, `LineEnds`), which is out of the prover's reach, as fairness and ENABLED
are. What a recursive definition computes can be
proved only where an invariant can carry it turn by turn, as in `ChainsProofs`: the
provers cannot instantiate an induction theorem of the library.

## Findings

1. **A table that the iterator leaves out is not stored** (`database_reopen`).
   A database whose only table is in bucket 0 (`posts`,
   `tags`) cannot be opened again after a close: the count says 1, the file has no
   header. Nor do `.tables` and `.schema` show it, which use the same iterator, where
   `src/README.md:88-89` says "List all tables in the database" and "Show the schema for all
   tables".
2. **Open caches too many pages** (`database_rows`). A table with `n` rows has
   `n` pages loaded, whatever they are. Close writes them back over the rows of
   the tables behind it. With the program: `products` with two rows, then `users`
   with one; close; insert a second user; close. The new user is gone.
3. **A table with more than 100 rows is not restored** (`table_rows_restore`):
   the same loop runs past `TABLE_MAX_PAGES`.
4. **A misspelt WHERE is no WHERE** (`parser_where`). `DELETE FROM t WHER id = 1;`
   deletes every row: whatever follows the table and is not WHERE is ignored.

What the properties name as exceptions besides:

- `.exit` saves neither tables nor history; only the end of the input does.
- The scanner passes over characters it does not know, so `id != 1` is `id = 1`
  (`TokensTellTheLine`). A `\0` in a string literal cuts it off.
- Any keyword is a column type (`CREATE TABLE t (a FROM);`), and a SELECT's
  list may end with a comma (`AcceptedFollowsGrammar`). After `DELETE FROM t WHERE id;`
  the copy of `id` is never freed (`FreesWhatItAllocates`).
- A negative INT is larger than every other one in a WHERE, and printed as negative
  (`SelectsWhatItSays`, `DeletesWhatItSays`).
- A text longer than its slot is written over the next slot, or past the page. DELETE moves only
  `row_size` bytes of the last row (`row_delete.c:65`), so such a row then ends in what lay
  behind its new slot, and is kept or removed by what it reads as (`FittingRowsIntact`,
  `DeletesWhatItSays`, `FaultsExplained`).
- SELECT on an empty table releases a row it has never read (`FaultsExplained`).
- INSERT copies every value that is not TEXT as INT, REAL and BOOL (`row_insert.c:35-37`). The byte
  of the `bool` was then written as part of a number and need be neither 0 nor 1, which is undefined
  in C; as gcc builds the program the byte is copied as it is (`FaultsExplained`).
- A DELETE that removes nothing from a table whose pages are all full looks for a page behind
  the array of pages (`row_delete.c:82`, `pager.c:72`; `FaultsExplained`). One that removes nothing from
  a table with no page behind its last row reports a failure.
- The writes of the count and of the headers are not checked, and a count that is raised or larger than
  `MAX_TABLES` is written before there are headers for it (`DirectoryStaysReadable`).
- A column name of `MAX_NAME_LENGTH` characters or more is another name after a reopen
  (`NamesMeanTheirColumn`).
- A terminal that refuses raw mode, or with no more columns than the prompt has, makes the line editor
  go on with numbers that were never set, or wrap around (`TypeOK` of `LineEditor`).
  A line that fills the editor's buffer loses its last character in the history (`BrowsingKeepsHistory`).
- A history line longer than the buffer of `fgets`, or with a newline in it, comes back from the file as
  several (`HistorySurvivesRestart`).

## What the model leaves out

- Failing `malloc`, but in `Tokenizer`. A failed write writes nothing: short writes are
  not modelled.
- Power loss. `Crash` is the death of the process; what was written stays. The
  history file is written in one step or not opened; one that cannot be read is not modelled.
- Widths of ids, row counts and offsets: they do not come near `2^32` with at
  most 100 pages per table. The width of an INT value is modelled, in `Statements`.
- In `Database`, the failure of a single write of a statement, and tables longer
  than `TABLE_MAX_PAGES` rows: both are in `TableRows`. In `Statements`, the file, writes that fail
  and restores that do, for the same reason; what other tables leave in a page, which is in `Database`.
- A second visit of a table in `database_close` frees it twice. By then the file
  is written, so `CloseEnd` is the same whether the process goes on or dies.
- The heap of the executor: SELECT releases the values of the row it read last and of no other
  (`row_select.c:40`), INSERT and DELETE those of every row.
- The text of names and literals: which words are keywords, the values that `atoi` and
  `atof` give, upper and lower case. A column list of more than `MAX_COLUMNS` is written behind
  its array; the model of the parser ends there.
- Of linenoise: completion, hints, masking, the editing of several rows and the calls for other
  programs, none of which main turns on; the escape sequences by which a terminal
  is asked and answered; the width of a control character on the screen.
- `Pager.num_pages` is computed at open and never read.

### Not modelled

The loggers only format messages, and nothing reads what they keep. `unity` is a third-party test
framework that the program does not link, and `tests/` are its tests.

## Plan

Done, in this order: `TableRows` first, as rows are what the program is for, with
`RowSet`; then `Chains`, `HashMap`, `TableMap`; then `Database`, which needs
both; then the front end from the back: `Parser`, `Tokenizer`, `Statements`,
`LineEditor`. The proofs followed the same order, the refinements last.

Left:

1. `Tokenizer` with `Parser` as one specification, instead of `ParserMayRely` as the
   contract between them.
2. A theorem that joins `Statements` to `RowSet`, as `ImplementsRowSet` does for `TableRows`:
   a row inserted and fitting is in the set until a DELETE whose condition it meets.
