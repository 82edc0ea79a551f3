------------------------------- MODULE HashMap -------------------------------
(***************************************************************************)
(* The hash map of tables (core/hashmap/hashmap.c, hashmap_utils.c) and    *)
(* its iterator (hashmap_iterator.c).  hashmap_set is one step, or, when   *)
(* it resizes, one step per entry moved; an iteration is one step per call *)
(* of hashmap_iterator_next, as its callers do work between two calls.     *)
(* One iteration runs at a time and nothing changes the map meanwhile: all *)
(* callers (table_position, header_tables_write, database_close and the    *)
(* two listings) run their loop to the end.                                *)
(***************************************************************************)
EXTENDS Chains

CONSTANTS
  Keys, Values,        \* table names; tables
  NoTable,             \* no value
  InitialCapacity      \* HASHMAP_CAPACITY

ASSUME MapAssumption ==
  /\ Keys # {} /\ NoTable \notin Values
  /\ InitialCapacity \in Nat \ {0}
  /\ HashOf \in [Keys -> Nat]

VARIABLES
  capacity, buckets, size,   \* the HashMap
  op,                        \* "idle", "resize" or "iterate"
  pending,                   \* the entry hashmap_set was called with
  moved,                     \* resize: newBuckets
  index, rest,               \* resize or iterator: bucket number, and the
                             \* chain from the current entry on
  visited,                   \* iterator: what it has returned so far
  last                       \* history: key and value of the last set or
                             \* delete carried out

vars == <<capacity, buckets, size, op, pending, moved, index, rest, visited, last>>
map == <<capacity, buckets, size, last>>

NoPending == Entry(CHOOSE k \in Keys : TRUE, NoTable)

Init ==
  /\ capacity = InitialCapacity /\ buckets = NoEntries(InitialCapacity) /\ size = 0
  /\ op = "idle" /\ pending = NoPending /\ moved = <<>>
  /\ index = 0 /\ rest = <<>> /\ visited = <<>>
  /\ last = Entry(NoTable, NoTable)

-----------------------------------------------------------------------------
(* hashmap_set, hashmap_delete                                             *)

\* The part of hashmap_set after a resize, if any.
Store(e) ==
  /\ buckets' = Put(buckets, e.key, e.value)
  /\ size' = IF Has(buckets, e.key) THEN size ELSE size + 1
  /\ last' = e

Set(k, v) ==
  /\ op = "idle" /\ ~Overloaded(size, capacity)
  /\ Store(Entry(k, v))
  /\ UNCHANGED <<capacity, op, pending, moved, index, rest, visited>>

\* The map is full enough to be resized first, also when the key is known.
BeginResize(k, v) ==
  /\ op = "idle" /\ Overloaded(size, capacity)
  /\ op' = "resize" /\ pending' = Entry(k, v)
  /\ moved' = NoEntries(2 * capacity)
  /\ index' = 0 /\ rest' = buckets[0]
  /\ UNCHANGED <<map, visited>>

\* Mutant of MoveEntry: the index of the old capacity is kept.
MutMoveEntry ==
  /\ op = "resize" /\ rest # <<>>
  /\ moved' = [moved EXCEPT ![Index(Head(rest).key, capacity)] = <<Head(rest)>> \o @]
  /\ rest' = Tail(rest)
  /\ UNCHANGED <<map, op, pending, index, visited>>

\* Mutant of MoveEntry: the new chain is not linked behind the entry.
MutMoveEntryAlone ==
  /\ op = "resize" /\ rest # <<>>
  /\ moved' = [moved EXCEPT ![Index(Head(rest).key, 2 * capacity)] = <<Head(rest)>>]
  /\ rest' = Tail(rest)
  /\ UNCHANGED <<map, op, pending, index, visited>>

\* An entry goes to the head of its chain in the new buckets.
MoveEntry ==
  /\ op = "resize" /\ rest # <<>>
  /\ moved' = [moved EXCEPT ![Index(Head(rest).key, 2 * capacity)] = <<Head(rest)>> \o @]
  /\ rest' = Tail(rest)
  /\ UNCHANGED <<map, op, pending, index, visited>>

NextChain ==
  /\ op = "resize" /\ rest = <<>> /\ index + 1 < capacity
  /\ index' = index + 1 /\ rest' = buckets[index + 1]
  /\ UNCHANGED <<map, op, pending, moved, visited>>

\* Mutant of EndResize: the capacity stays the old one.
MutEndResize ==
  /\ op = "resize" /\ rest = <<>> /\ index + 1 = capacity
  /\ buckets' = Put(moved, pending.key, pending.value)
  /\ size' = IF Has(moved, pending.key) THEN size ELSE size + 1
  /\ last' = pending
  /\ op' = "idle" /\ pending' = NoPending /\ moved' = <<>> /\ index' = 0
  /\ UNCHANGED <<capacity, rest, visited>>

\* The new buckets replace the old ones, and the pending entry is stored.
EndResize ==
  /\ op = "resize" /\ rest = <<>> /\ index + 1 = capacity
  /\ buckets' = Put(moved, pending.key, pending.value)
  /\ size' = IF Has(moved, pending.key) THEN size ELSE size + 1
  /\ last' = pending
  /\ capacity' = 2 * capacity
  /\ op' = "idle" /\ pending' = NoPending /\ moved' = <<>> /\ index' = 0
  /\ UNCHANGED <<rest, visited>>

\* Mutant of Delete: size is not decremented.
MutDelete(k) ==
  /\ op = "idle" /\ Has(buckets, k)
  /\ buckets' = Unlink(buckets, k) /\ last' = Entry(k, NoTable)
  /\ UNCHANGED <<capacity, size, op, pending, moved, index, rest, visited>>

Delete(k) ==
  /\ op = "idle" /\ Has(buckets, k)
  /\ buckets' = Unlink(buckets, k) /\ size' = size - 1 /\ last' = Entry(k, NoTable)
  /\ UNCHANGED <<capacity, op, pending, moved, index, rest, visited>>

-----------------------------------------------------------------------------
(* The iterator                                                            *)

BeginIterate ==
  /\ op = "idle"
  /\ op' = "iterate" /\ index' = 0 /\ rest' = buckets[0] /\ visited' = <<>>
  /\ UNCHANGED <<map, pending, moved>>

\* The buckets after index that are not empty, and the next of them.
Later == {i \in DOMAIN buckets : i > index /\ buckets[i] # <<>>}
NextBucket == CHOOSE i \in Later : \A j \in Later : i <= j

\* Mutant of HasNext: only the buckets to come are looked at.
MutHasNext == Later # {}

HasNext == Len(rest) > 1 \/ Later # {}

\* Mutant of Step: an entry is returned once it has been stepped onto.
MutStepAfter ==
  /\ op = "iterate" /\ HasNext
  /\ IF Len(rest) > 1
       THEN visited' = Append(visited, rest[2]) /\ rest' = Tail(rest) /\ index' = index
       ELSE /\ index' = NextBucket /\ rest' = buckets[NextBucket]
            /\ visited' = Append(visited, Head(buckets[NextBucket]))
  /\ UNCHANGED <<map, op, pending, moved>>

\* hashmap_iterator_next: step along the chain and return the entry stepped
\* off, unless it was the last; then enter the next bucket that is not empty
\* and return its head, staying on it.
Step ==
  /\ op = "iterate" /\ HasNext
  /\ IF Len(rest) > 1
       THEN visited' = Append(visited, Head(rest)) /\ rest' = Tail(rest) /\ index' = index
       ELSE /\ index' = NextBucket /\ rest' = buckets[NextBucket]
            /\ visited' = Append(visited, Head(buckets[NextBucket]))
  /\ UNCHANGED <<map, op, pending, moved>>

EndIterate ==
  /\ op = "iterate" /\ ~HasNext
  /\ op' = "idle" /\ index' = 0 /\ rest' = <<>> /\ visited' = <<>>
  /\ UNCHANGED <<map, pending, moved>>

-----------------------------------------------------------------------------
ResizeStep == MoveEntry \/ NextChain \/ EndResize
IterateStep == Step \/ EndIterate

Next ==
  \/ \E k \in Keys, v \in Values : Set(k, v) \/ BeginResize(k, v)
  \/ ResizeStep
  \/ \E k \in Keys : Delete(k)
  \/ BeginIterate \/ IterateStep

Spec == Init /\ [][Next]_vars

-----------------------------------------------------------------------------
(* Properties                                                              *)

Entries == EntriesIn(Keys, Values)
ChainsOver(n) == MapsOver(n, Keys, Values)

TypeOK ==
  /\ capacity \in Nat \ {0} /\ buckets \in ChainsOver(capacity) /\ size \in Nat
  /\ op \in {"idle", "resize", "iterate"}
  /\ pending \in [key : Keys, value : Values \cup {NoTable}]
  /\ moved \in IF op = "resize" THEN ChainsOver(2 * capacity) ELSE {<<>>}
  /\ index \in 0 .. capacity - 1
  /\ rest \in Seq(Entries) /\ visited \in Seq(Entries)
  /\ last \in [key : Keys \cup {NoTable}, value : Values \cup {NoTable}]

\* A lookup, which searches one chain, cannot miss an entry or see an old one
\* (bucket_find): every entry is in the bucket its key hashes to, once.
MapWellPlaced == WellPlaced(buckets)

\* The size is the number of entries, and the load stays within 0.7.
SizeIsCount ==
  size = Cardinality(EntriesOf(buckets)) /\ 10 * size <= 7 * capacity

\* While entries are moved, each is in one of three places: the new buckets,
\* where it is well placed, the rest of the chain at hand, or a later chain.
NothingLostInResize ==
  op = "resize" =>
    /\ WellPlaced(moved)
    /\ EntriesOf(buckets) = EntriesOf(moved) \cup ToSet(rest)
         \cup UNION {ToSet(buckets[i]) : i \in index + 1 .. capacity - 1}
    /\ EntriesOf(moved) \cap ToSet(rest) = {}

\* The loop of hashmap_resize, and a loop over the iterator, come to the
\* closed forms of Chains (hashmap_utils.c:54, hashmap_iterator.c:21).
ResizeClosedForm ==
  op = "resize" /\ rest = <<>> /\ index + 1 = capacity => moved = Resized(buckets)
VisitsClosedForm == op = "iterate" /\ ~HasNext => visited = Visits(buckets)
LoopsMeetClosedForms == ResizeClosedForm /\ VisitsClosedForm

\* The entries an iteration may leave out: the last one of bucket 0 and the
\* last one of every chain of two or more.
MissedEntries ==
  {Last(buckets[i]) : i \in {j \in DOMAIN buckets :
                               Len(buckets[j]) > IF j = 0 THEN 0 ELSE 1}}

\* What the callers of an iteration can rely on (hashmap_iterator.c:21, :35):
\* it returns tables of the map only, and every one but, at most, the last of
\* bucket 0 and the last of a chain of two or more.  That these are left out
\* is no part of it: .tables and .schema are documented to list all tables.
IterationReturnsOthers ==
  op = "iterate" /\ ~HasNext =>
    /\ ToSet(visited) \subseteq EntriesOf(buckets)
    /\ EntriesOf(buckets) \ MissedEntries \subseteq ToSet(visited)

\* The map is the promised one: hashmap_get finds under every name the table
\* last set there, nothing after a delete, through collisions and resizes.
Promise == INSTANCE TableMap WITH
  map <- [k \in Keys |-> IF Has(buckets, k) THEN ValueAt(buckets, k) ELSE NoTable]
ImplementsTableMap == Promise!Spec
=============================================================================
