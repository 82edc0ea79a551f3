--------------------------- MODULE DatabaseProofs ---------------------------
(***************************************************************************)
(* What is proved of Database for all names, hash values, capacities and   *)
(* bounds: its variables keep their types, a file that opens goes on doing *)
(* so, a calm database keeps its tables apart, and what a safe close       *)
(* stores the next open restores.                                          *)
(***************************************************************************)
EXTENDS Database, ChainsProofs

-----------------------------------------------------------------------------
(* Maps of tables                                                          *)

Buckets(n) == MapsOver(n, AnyName, TableType)

\* A hash map of tables.
IsMap(b) == \E n \in Nat \ {0} : b \in Buckets(n) /\ Placed(b, n)

LEMMA HashTyped == HashOf \in [AnyName -> Nat]
  BY DatabaseAssumption DEF AnyName

LEMMA EntriesTyped ==
  ASSUME NEW b, IsMap(b), NEW e \in EntriesOf(b)
  PROVE  /\ e.key \in AnyName /\ e.value \in TableType /\ e = Entry(e.key, e.value)
         /\ e.key \in TablesIn(b)
<1>1. PICK n \in Nat \ {0} : b \in Buckets(n) /\ Placed(b, n) BY DEF IsMap
<1>2. e \in EntriesIn(AnyName, TableType) BY <1>1, EntryAt DEF Buckets
<1>3. e.key \in AnyName /\ e.value \in TableType /\ e = [key |-> e.key, value |-> e.value]
  BY <1>2 DEF EntriesIn
<1> QED BY <1>3 DEF Entry, TablesIn

\* A lookup of a name returns the value of its only entry.
LEMMA TableIs ==
  ASSUME NEW b, IsMap(b), NEW t \in TablesIn(b)
  PROVE  /\ t \in AnyName /\ ValueAt(b, t) \in TableType
         /\ Entry(t, ValueAt(b, t)) \in EntriesOf(b)
         /\ \A e \in EntriesOf(b) : e.key = t => e = Entry(t, ValueAt(b, t))
<1>1. PICK n \in Nat \ {0} : b \in Buckets(n) /\ Placed(b, n) BY DEF IsMap
<1>2. PICK e \in EntriesOf(b) : e.key = t BY DEF TablesIn
<1>3. t \in AnyName /\ e.value \in TableType /\ e = Entry(t, e.value) BY <1>2, EntriesTyped
<1>4. \A f \in EntriesOf(b) : f.key = t => ValueAt(b, t) = f.value
  BY <1>1, <1>3, HashTyped, HasMeans DEF Buckets
<1>5. ValueAt(b, t) = e.value BY <1>2, <1>4
<1>6. ASSUME NEW f \in EntriesOf(b), f.key = t PROVE f = Entry(t, ValueAt(b, t))
  <2>1. f = Entry(f.key, f.value) BY EntriesTyped
  <2> QED BY <1>4, <1>6, <2>1
<1> QED BY <1>2, <1>3, <1>5, <1>6

LEMMA EmptyMap ==
  ASSUME NEW n \in Nat \ {0}
  PROVE  /\ IsMap(NoEntries(n)) /\ EntriesOf(NoEntries(n)) = {} /\ TablesIn(NoEntries(n)) = {}
         /\ IsFiniteSet(EntriesOf(NoEntries(n))) /\ Cardinality(EntriesOf(NoEntries(n))) = 0
<1>1. /\ NoEntries(n) \in Buckets(n) /\ Placed(NoEntries(n), n)
      /\ EntriesOf(NoEntries(n)) = {}
  BY EmptyKeeps DEF Buckets
<1>2. TablesIn(NoEntries(n)) = {} BY <1>1 DEF TablesIn
<1> QED BY <1>1, <1>2, FS_EmptySet DEF IsMap

\* A finite map in which the entry of t is put.
LEMMA PutTable ==
  ASSUME NEW b, IsMap(b), IsFiniteSet(EntriesOf(b)), NEW t \in AnyName, NEW table \in TableType
  PROVE  /\ IsMap(Put(b, t, table)) /\ EntriesOf(Put(b, t, table)) = Updated(b, t, table)
         /\ IsFiniteSet(EntriesOf(Put(b, t, table)))
         /\ Cardinality(EntriesOf(Put(b, t, table))) =
              IF t \in TablesIn(b) THEN Cardinality(EntriesOf(b))
                                   ELSE Cardinality(EntriesOf(b)) + 1
<1>1. PICK n \in Nat \ {0} : b \in Buckets(n) /\ Placed(b, n) BY DEF IsMap
<1>2. /\ Put(b, t, table) \in Buckets(n) /\ Placed(Put(b, t, table), n)
      /\ EntriesOf(Put(b, t, table)) = Updated(b, t, table)
  BY <1>1, HashTyped, PutKeeps DEF Buckets
<1>3. /\ IsFiniteSet(EntriesOf(Put(b, t, table)))
      /\ Cardinality(EntriesOf(Put(b, t, table))) =
           IF Has(b, t) THEN Cardinality(EntriesOf(b)) ELSE Cardinality(EntriesOf(b)) + 1
  BY <1>1, HashTyped, PutCounts DEF Buckets
<1>4. Has(b, t) <=> t \in TablesIn(b)
  <2>1. Has(b, t) <=> \E e \in EntriesOf(b) : e.key = t
    BY <1>1, HashTyped, HasMeans DEF Buckets
  <2> QED BY <2>1 DEF TablesIn
<1> QED BY <1>2, <1>3, <1>4 DEF IsMap

\* hashmap_set, whether it resizes or not.
LEMMA SetTableKeeps ==
  ASSUME NEW b, IsMap(b), IsFiniteSet(EntriesOf(b)), NEW t \in AnyName, NEW table \in TableType
  PROVE  /\ IsMap(SetTable(b, t, table)) /\ EntriesOf(SetTable(b, t, table)) = Updated(b, t, table)
         /\ IsFiniteSet(EntriesOf(SetTable(b, t, table)))
         /\ Cardinality(EntriesOf(SetTable(b, t, table))) =
              IF t \in TablesIn(b) THEN Cardinality(EntriesOf(b))
                                   ELSE Cardinality(EntriesOf(b)) + 1
<1>1. PICK n \in Nat \ {0} : b \in Buckets(n) /\ Placed(b, n) BY DEF IsMap
<1> DEFINE c == IF Overloaded(Cardinality(EntriesOf(b)), CapacityOf(b)) THEN Resized(b) ELSE b
<1>2. IsMap(c) /\ EntriesOf(c) = EntriesOf(b)
  <2>1. /\ Resized(b) \in Buckets(2 * n) /\ Placed(Resized(b), 2 * n)
        /\ EntriesOf(Resized(b)) = EntriesOf(b)
    BY <1>1, HashTyped, ResizedKeeps DEF Buckets
  <2>2. 2 * n \in Nat \ {0} OBVIOUS
  <2>3. IsMap(Resized(b)) BY <2>1, <2>2 DEF IsMap
  <2> QED BY <2>1, <2>3
<1>3. SetTable(b, t, table) = Put(c, t, table) BY DEF SetTable
<1>4. TablesIn(c) = TablesIn(b) /\ Updated(c, t, table) = Updated(b, t, table)
  BY <1>2 DEF TablesIn, Updated, Others
<1> HIDE DEF c
<1> QED BY <1>2, <1>3, <1>4, PutTable

LEMMA UnlinkTable ==
  ASSUME NEW b, IsMap(b), IsFiniteSet(EntriesOf(b)), NEW t \in TablesIn(b)
  PROVE  /\ IsMap(Unlink(b, t)) /\ EntriesOf(Unlink(b, t)) = Others(b, t)
         /\ IsFiniteSet(EntriesOf(Unlink(b, t)))
         /\ Cardinality(EntriesOf(b)) \in Nat \ {0}
         /\ Cardinality(EntriesOf(Unlink(b, t))) = Cardinality(EntriesOf(b)) - 1
<1>1. PICK n \in Nat \ {0} : b \in Buckets(n) /\ Placed(b, n) BY DEF IsMap
<1>2. t \in AnyName /\ \E e \in EntriesOf(b) : e.key = t
  BY TableIs DEF TablesIn
<1>3. Has(b, t) BY <1>1, <1>2, HashTyped, HasMeans DEF Buckets
<1>4. /\ Unlink(b, t) \in Buckets(n) /\ Placed(Unlink(b, t), n)
      /\ EntriesOf(Unlink(b, t)) = Others(b, t)
  BY <1>1, <1>2, <1>3, HashTyped, UnlinkKeeps DEF Buckets
<1>5. /\ IsFiniteSet(EntriesOf(Unlink(b, t)))
      /\ Cardinality(EntriesOf(b)) \in Nat \ {0}
      /\ Cardinality(EntriesOf(Unlink(b, t))) = Cardinality(EntriesOf(b)) - 1
  BY <1>1, <1>2, <1>3, HashTyped, UnlinkCounts DEF Buckets
<1> QED BY <1>4, <1>5 DEF IsMap

\* The tables of an updated map.
LEMMA UpdatedTables ==
  ASSUME NEW b, IsMap(b), NEW t, NEW table, NEW c, IsMap(c), EntriesOf(c) = Updated(b, t, table)
  PROVE  /\ TablesIn(c) = TablesIn(b) \cup {t}
         /\ ValueAt(c, t) = table
         /\ \A u \in TablesIn(b) : u # t => ValueAt(c, u) = ValueAt(b, u)
<1>1. Entry(t, table).key = t /\ Entry(t, table).value = table BY DEF Entry
<1>2. TablesIn(c) = TablesIn(b) \cup {t} BY <1>1 DEF TablesIn, Updated, Others
<1>3. ValueAt(c, t) = table
  <2>1. Entry(t, table) \in EntriesOf(c) BY DEF Updated
  <2>2. Entry(t, table) = Entry(t, ValueAt(c, t)) BY <1>1, <1>2, <2>1, TableIs
  <2> QED BY <2>2 DEF Entry
<1>4. ASSUME NEW u \in TablesIn(b), u # t PROVE ValueAt(c, u) = ValueAt(b, u)
  <2>1. Entry(u, ValueAt(b, u)) \in EntriesOf(b) BY TableIs
  <2>2. Entry(u, ValueAt(b, u)).key = u BY DEF Entry
  <2>3. Entry(u, ValueAt(b, u)) \in EntriesOf(c) BY <1>4, <2>1, <2>2 DEF Updated, Others
  <2>4. Entry(u, ValueAt(b, u)) = Entry(u, ValueAt(c, u)) BY <1>2, <2>2, <2>3, TableIs
  <2> QED BY <2>4 DEF Entry
<1> QED BY <1>2, <1>3, <1>4

-----------------------------------------------------------------------------
(* Pages of a table                                                        *)

\* n times a is at least a.
LEMMA TimesAtLeast ==
  ASSUME NEW n \in Nat \ {0}, NEW a \in Nat
  PROVE  n * a >= a
<1>1. CASE a = 0 BY <1>1
<1>2. CASE a # 0
  <2>1. n - 1 \in Nat /\ (n - 1) * a >= 0 BY <1>2
  <2>2. (n - 1) * a = n * a - a OBVIOUS
  <2> QED BY <2>1, <2>2
<1> QED BY <1>1, <1>2

\* The page and the place on it of a row.
LEMMA PageIs ==
  ASSUME NEW r \in Nat
  PROVE  /\ PageOf(r) \in Nat /\ PageOf(r) <= r
         /\ r % RowsPerPage \in 0 .. RowsPerPage - 1
         /\ r = RowsPerPage * PageOf(r) + (r % RowsPerPage)
         /\ PageOf(r) = 0 <=> r < RowsPerPage
<1> DEFINE n == RowsPerPage
           q == r \div n
           m == r % n
<1>1. n \in Nat \ {0} BY DatabaseAssumption
<1>2. q \in Nat /\ m \in 0 .. n - 1 /\ r = n * q + m
  <2> HIDE DEF n
  <2> QED BY <1>1, DivisionIs
<1> HIDE DEF q, m, n
<1>3. n * q >= q /\ (q # 0 => n * q >= n) BY <1>1, <1>2, TimesAtLeast, AtLeastOnce
<1>4. n * q \in Nat /\ (q = 0 => n * q = 0) BY <1>1, <1>2
<1>5. q <= r BY <1>2, <1>3, <1>4
<1>6. q = 0 <=> r < n BY <1>1, <1>2, <1>3, <1>4
<1>7. PageOf(r) = q BY DEF PageOf, q, n
<1> QED BY <1>2, <1>5, <1>6, <1>7 DEF n, m

\* A table of r rows, for every r it may have.
LEMMA LivePagesAre ==
  ASSUME NEW table, table.num_rows \in 0 .. MaxRows
  PROVE  /\ LivePages(table) \in SUBSET Pages
         /\ IsFiniteSet(LivePages(table)) /\ Cardinality(LivePages(table)) \in Nat
         /\ PagesCount(table) \in Nat
         /\ table.num_rows <= RowsPerPage => PagesCount(table) = 1 /\ LivePages(table) \in SUBSET {0}
<1> DEFINE L == LivePages(table)
<1>1. MaxRows \in Nat \ {0} /\ RowsPerPage \in Nat \ {0} BY DatabaseAssumption
<1>2. ASSUME NEW r \in 0 .. table.num_rows - 1
      PROVE  PageOf(r) \in Pages /\ (table.num_rows <= RowsPerPage => PageOf(r) = 0)
  <2>1. r \in Nat /\ r <= MaxRows - 1 /\ (table.num_rows <= RowsPerPage => r < RowsPerPage)
    BY <1>1
  <2>2. PageOf(r) \in Nat /\ PageOf(r) <= r /\ (PageOf(r) = 0 <=> r < RowsPerPage)
    BY <2>1, PageIs
  <2> QED BY <1>1, <2>1, <2>2 DEF Pages, RowNums
<1>3. L \in SUBSET Pages BY <1>2 DEF LivePages
<1>4. IsFiniteSet(Pages)
  <2>1. 0 \in Int /\ MaxRows - 1 \in Int BY <1>1
  <2> QED BY <2>1, FS_Interval DEF Pages, RowNums
<1>5. IsFiniteSet(L) /\ Cardinality(L) \in Nat BY <1>3, <1>4, FS_Subset, FS_CardinalityType
<1>6. PagesCount(table) \in Nat BY <1>5 DEF PagesCount, Larger
<1>7. ASSUME table.num_rows <= RowsPerPage PROVE PagesCount(table) = 1 /\ L \in SUBSET {0}
  <2>1. L \in SUBSET {0} BY <1>2, <1>7 DEF LivePages
  <2>2. IsFiniteSet({0}) /\ Cardinality({0}) = 1 BY FS_Singleton
  <2>3. Cardinality(L) <= 1 BY <2>1, <2>2, FS_Subset
  <2> QED BY <1>5, <2>1, <2>3 DEF PagesCount, Larger
<1> QED BY <1>3, <1>5, <1>6, <1>7

\* table_position: the pages of the tables that a loop sees.
PagesOf(seen) == FoldLeft(LAMBDA n, e : n + PagesCount(e.value), 0, seen)

\* The sum after each turn.
PageTurns(g, seen) ==
  /\ g \in [0 .. Len(seen) -> Nat] /\ g[0] = 0
  /\ \A i \in 1 .. Len(seen) : g[i] = g[i - 1] + PagesCount(seen[i].value)
  /\ PagesOf(seen) = g[Len(seen)]

LEMMA PageTurnsExist ==
  ASSUME NEW seen \in Seq(EntriesIn(AnyName, TableType))
  PROVE  \E g : PageTurns(g, seen)
<1> DEFINE N == Len(seen)
           Turn(x, i) == x + PagesCount(seen[i].value)
           Fold(f) == [s \in SUBSET (1 .. N) |->
                         IF s = {} THEN 0 ELSE Turn(f[s \ {Max(s)}], Max(s))]
           iter == CHOOSE f : f = Fold(f)
           g == [i \in 0 .. N |-> iter[1 .. i]]
           step == [x \in Nat \X (1 .. N) |-> Turn(x[1], x[2])]
<1>1. N \in Nat /\ DOMAIN seen = 1 .. N /\ \A i \in 1 .. N : seen[i] \in EntriesIn(AnyName, TableType)
  OBVIOUS
<1>2. ASSUME NEW x \in Nat, NEW i \in 1 .. N PROVE Turn(x, i) \in Nat
  <2>1. seen[i].value.num_rows \in 0 .. MaxRows BY <1>1 DEF EntriesIn, TableType
  <2>2. PagesCount(seen[i].value) \in Nat BY <2>1, LivePagesAre
  <2> QED BY <2>2
<1> HIDE DEF Turn, N
<1>3. \E f : f = Fold(f)
  <2>1. step \in [Nat \X (1 .. N) -> Nat] BY <1>2
  <2>2. 0 \in Nat OBVIOUS
  <2>3. PICK f : IsFold(f, Nat, 0, step, N)
    <3> HIDE DEF step
    <3> QED BY <1>1, <2>1, <2>2, FoldExists
  <2>4. /\ f \in [SUBSET (1 .. N) -> Nat]
        /\ \A s \in SUBSET (1 .. N) :
             f[s] = IF s = {} THEN 0 ELSE step[<<f[s \ {Max(s)}], Max(s)>>]
    BY <2>3 DEF IsFold
  <2>5. ASSUME NEW s \in SUBSET (1 .. N), s # {}
        PROVE  step[<<f[s \ {Max(s)}], Max(s)>>] = Turn(f[s \ {Max(s)}], Max(s))
    <3>1. Max(s) \in 1 .. N BY <1>1, <2>5, GreatestIs
    <3>2. f[s \ {Max(s)}] \in Nat BY <2>4
    <3> QED BY <3>1, <3>2
  <2>6. f = Fold(f) BY <2>4, <2>5
  <2> QED BY <2>6
<1>4. iter = Fold(iter) BY <1>3
<1>5. PagesOf(seen) = iter[1 .. N]
  BY <1>1 DEF PagesOf, FoldLeft, MapThenFoldSet, Turn
<1> HIDE DEF iter
<1>6. g[0] = 0
  <2>1. 1 .. 0 = {} OBVIOUS
  <2> QED BY <1>1, <1>4, <2>1
<1>7. ASSUME NEW i \in 1 .. N PROVE g[i] = Turn(g[i - 1], i)
  <2>1. 1 .. i \in SUBSET (1 .. N) /\ 1 .. i # {}
    <3>1. i \in Nat /\ i <= N /\ i \in 1 .. i BY <1>1
    <3>2. \A x \in 1 .. i : x \in 1 .. N BY <1>1, <3>1
    <3> QED BY <3>1, <3>2
  <2>2. Max(1 .. i) = i
    <3>1. i - 1 \in Nat /\ (i - 1) + 1 = i /\ i \in 1 .. i BY <1>1
    <3> QED BY <3>1, GreatestOf
  <2>3. (1 .. i) \ {i} = 1 .. i - 1 BY <1>1
  <2>4. iter[1 .. i] = Turn(iter[1 .. i - 1], i) BY <1>4, <2>1, <2>2, <2>3
  <2> QED BY <1>1, <2>4
<1>8. PagesOf(seen) = g[N] BY <1>1, <1>5
<1>9. DOMAIN g = 0 .. N /\ g = [i \in 0 .. N |-> g[i]] OBVIOUS
<1> HIDE DEF g
<1>10. \A i \in 0 .. N : g[i] \in Nat
  <2> DEFINE S == {i \in 0 .. N : g[i] \in Nat}
  <2>1. 0 \in S BY <1>1, <1>6
  <2>2. ASSUME NEW i \in 0 .. N - 1, i \in S PROVE i + 1 \in S
    <3>1. i + 1 \in 1 .. N /\ (i + 1) - 1 = i BY <1>1
    <3>2. g[i + 1] = Turn(g[i], i + 1) BY <1>7, <3>1
    <3> QED BY <1>2, <2>2, <3>1, <3>2
  <2> HIDE DEF S
  <2>3. \A i \in 0 .. N : i \in S BY <1>1, <2>1, <2>2, UpTo
  <2> QED BY <2>3 DEF S
<1>11. g \in [0 .. N -> Nat] BY <1>9, <1>10
<1>12. PageTurns(g, seen) BY <1>6, <1>7, <1>8, <1>11 DEF PageTurns, N, Turn
<1> QED BY <1>12

\* The position is a page number, and counts the tables that a loop sees when
\* each of them has one page.
LEMMA PagesOfIs ==
  ASSUME NEW seen \in Seq(EntriesIn(AnyName, TableType))
  PROVE  /\ PagesOf(seen) \in Nat
         /\ (\A i \in 1 .. Len(seen) : seen[i].value.num_rows <= RowsPerPage)
              => PagesOf(seen) = Len(seen)
<1>1. PICK g : PageTurns(g, seen) BY PageTurnsExist
<1>2. Len(seen) \in Nat OBVIOUS
<1> DEFINE N == Len(seen)
<1>3. PagesOf(seen) \in Nat BY <1>1, <1>2 DEF PageTurns
<1>4. ASSUME \A i \in 1 .. N : seen[i].value.num_rows <= RowsPerPage
      PROVE  PagesOf(seen) = N
  <2> DEFINE S == {i \in 0 .. N : g[i] = i}
  <2>1. 0 \in S BY <1>1, <1>2 DEF PageTurns
  <2>2. ASSUME NEW i \in 0 .. N - 1, i \in S PROVE i + 1 \in S
    <3>1. i + 1 \in 1 .. N /\ (i + 1) - 1 = i /\ i + 1 \in 0 .. N BY <1>2
    <3>2. seen[i + 1].value.num_rows \in 0 .. MaxRows
      <4>1. seen[i + 1] \in EntriesIn(AnyName, TableType) BY <3>1
      <4> QED BY <4>1 DEF EntriesIn, TableType
    <3>3. PagesCount(seen[i + 1].value) = 1 BY <1>4, <3>1, <3>2, LivePagesAre
    <3>4. g[i + 1] = g[i] + 1 BY <1>1, <3>1, <3>3 DEF PageTurns
    <3> QED BY <2>2, <3>1, <3>4
  <2> HIDE DEF S
  <2>3. N \in S
    <3>1. N \in 0 .. N /\ N \in Nat BY <1>2
    <3> QED BY <2>1, <2>2, <3>1, UpTo
  <2>4. g[N] = N BY <2>3 DEF S
  <2> QED BY <1>1, <2>4 DEF PageTurns
<1> QED BY <1>3, <1>4

\* A loop over the map.
LEMMA VisitsAre ==
  ASSUME NEW b, IsMap(b)
  PROVE  Visits(b) \in Seq(EntriesIn(AnyName, TableType)) /\ Returns(Visits(b), EntriesOf(b), Flat(b))
<1>1. PICK n \in Nat \ {0} : b \in Buckets(n) /\ Placed(b, n) BY DEF IsMap
<1> QED BY <1>1, VisitsReturn DEF Buckets

-----------------------------------------------------------------------------
(* Restoring                                                               *)

HeadersTyped ==
  /\ count \in Nat
  /\ \A k \in 0 .. count - 1 : slots[k].name \in AnyName /\ Restored(slots[k]) \in TableType

FiniteMaps == {b \in UNION {Buckets(n) : n \in Nat \ {0}} : IsMap(b) /\ IsFiniteSet(EntriesOf(b))}

LEMMA FiniteMapsAre ==
  ASSUME NEW b
  PROVE  b \in FiniteMaps <=> IsMap(b) /\ IsFiniteSet(EntriesOf(b))
<1>1. IsMap(b) => b \in UNION {Buckets(n) : n \in Nat \ {0}} BY DEF IsMap
<1> QED BY <1>1 DEF FiniteMaps

\* The map after each turn of header_tables_restore.
RestoreTurns(g) ==
  /\ g \in [0 .. count -> FiniteMaps] /\ g[0] = NoEntries(Capacity)
  /\ \A i \in 1 .. count : g[i] = SetTable(g[i - 1], slots[i - 1].name, Restored(slots[i - 1]))
  /\ RestoredMap = g[count]

LEMMA RestoreTurnsExist ==
  ASSUME HeadersTyped
  PROVE  \E g : RestoreTurns(g)
<1> DEFINE N == count
           Turn(x, i) == SetTable(x, slots[i - 1].name, Restored(slots[i - 1]))
           Base == NoEntries(Capacity)
           Fold(f) == [s \in SUBSET (1 .. N) |->
                         IF s = {} THEN Base ELSE Turn(f[s \ {Max(s)}], Max(s))]
           iter == CHOOSE f : f = Fold(f)
           g == [i \in 0 .. N |-> iter[1 .. i]]
           step == [x \in FiniteMaps \X (1 .. N) |-> Turn(x[1], x[2])]
<1>1. N \in Nat BY DEF HeadersTyped
<1>2. ASSUME NEW x \in FiniteMaps, NEW i \in 1 .. N PROVE Turn(x, i) \in FiniteMaps
  <2>1. i - 1 \in 0 .. count - 1 BY <1>1
  <2>2. slots[i - 1].name \in AnyName /\ Restored(slots[i - 1]) \in TableType
    BY <2>1 DEF HeadersTyped
  <2>3. IsMap(x) /\ IsFiniteSet(EntriesOf(x)) BY FiniteMapsAre
  <2> QED BY <2>2, <2>3, SetTableKeeps, FiniteMapsAre
<1>2a. Base \in FiniteMaps
  <2>1. Capacity \in Nat \ {0} BY DatabaseAssumption
  <2> QED BY <2>1, EmptyMap, FiniteMapsAre
<1>2b. DOMAIN Headers = 1 .. N /\ \A i \in 1 .. N : Headers[i] = slots[i - 1] BY DEF Headers
<1>2c. RestoredMap =
         FoldLeft(LAMBDA b, h : SetTable(b, h.name, Restored(h)), Base, Headers)
  BY DEF RestoredMap
<1> HIDE DEF N, Base
<1>3. \E f : f = Fold(f)
  <2> HIDE DEF Turn
  <2>1. step \in [FiniteMaps \X (1 .. N) -> FiniteMaps] BY <1>2
  <2>2. PICK f : IsFold(f, FiniteMaps, Base, step, N)
    <3> HIDE DEF step
    <3> QED BY <1>1, <1>2a, <2>1, FoldExists
  <2>3. /\ f \in [SUBSET (1 .. N) -> FiniteMaps]
        /\ \A s \in SUBSET (1 .. N) :
             f[s] = IF s = {} THEN Base ELSE step[<<f[s \ {Max(s)}], Max(s)>>]
    BY <2>2 DEF IsFold
  <2>4. ASSUME NEW s \in SUBSET (1 .. N), s # {}
        PROVE  step[<<f[s \ {Max(s)}], Max(s)>>] = Turn(f[s \ {Max(s)}], Max(s))
    <3>1. Max(s) \in 1 .. N BY <1>1, <2>4, GreatestIs
    <3>2. f[s \ {Max(s)}] \in FiniteMaps BY <2>3
    <3> QED BY <3>1, <3>2
  <2>5. f = Fold(f) BY <2>3, <2>4
  <2> QED BY <2>5
<1>4. iter = Fold(iter) BY <1>3
<1>5. RestoredMap = iter[1 .. N]
  <2> HIDE DEF g, step
  <2> DEFINE Fold2(f) == [s \in SUBSET (1 .. N) |->
                IF s = {} THEN Base
                ELSE SetTable(f[s \ {Max(s)}], Headers[Max(s)].name, Restored(Headers[Max(s)]))]
             iter2 == CHOOSE f : f = Fold2(f)
  <2>1. RestoredMap = iter2[1 .. N] BY <1>2b, <1>2c DEF FoldLeft, MapThenFoldSet
  <2>2. ASSUME NEW f PROVE Fold2(f) = Fold(f)
    <3>1. ASSUME NEW s \in SUBSET (1 .. N), s # {} PROVE Headers[Max(s)] = slots[Max(s) - 1]
      <4>1. Max(s) \in 1 .. N BY <1>1, <3>1, GreatestIs
      <4> QED BY <1>2b, <4>1
    <3> QED BY <3>1
  <2>3. iter2 = iter
    <3> HIDE DEF Fold, Fold2
    <3> QED BY <2>2
  <2> QED BY <2>1, <2>3
<1> HIDE DEF iter
<1>6. g[0] = Base
  <2>1. 1 .. 0 = {} OBVIOUS
  <2> QED BY <1>1, <1>4, <2>1
<1> HIDE DEF Turn
<1>7. ASSUME NEW i \in 1 .. N PROVE g[i] = Turn(g[i - 1], i)
  <2>1. 1 .. i \in SUBSET (1 .. N) /\ 1 .. i # {}
    <3>1. i \in Nat /\ i <= N /\ i \in 1 .. i BY <1>1
    <3>2. \A x \in 1 .. i : x \in 1 .. N BY <1>1, <3>1
    <3> QED BY <3>1, <3>2
  <2>2. Max(1 .. i) = i
    <3>1. i - 1 \in Nat /\ (i - 1) + 1 = i /\ i \in 1 .. i BY <1>1
    <3> QED BY <3>1, GreatestOf
  <2>3. (1 .. i) \ {i} = 1 .. i - 1 BY <1>1
  <2>4. iter[1 .. i] = Turn(iter[1 .. i - 1], i) BY <1>4, <2>1, <2>2, <2>3
  <2> QED BY <1>1, <2>4
<1>8. RestoredMap = g[N] BY <1>1, <1>5
<1>9. DOMAIN g = 0 .. N /\ g = [i \in 0 .. N |-> g[i]] OBVIOUS
<1> HIDE DEF g
<1>10. \A i \in 0 .. N : g[i] \in FiniteMaps
  <2> DEFINE S == {i \in 0 .. N : g[i] \in FiniteMaps}
  <2>1. 0 \in S BY <1>1, <1>2a, <1>6
  <2>2. ASSUME NEW i \in 0 .. N - 1, i \in S PROVE i + 1 \in S
    <3>1. i + 1 \in 1 .. N /\ i + 1 \in 0 .. N /\ (i + 1) - 1 = i BY <1>1
    <3>2. g[i + 1] = Turn(g[i], i + 1) BY <1>7, <3>1
    <3>3. g[i] \in FiniteMaps BY <2>2
    <3> QED BY <1>2, <3>1, <3>2, <3>3
  <2> HIDE DEF S
  <2>3. \A i \in 0 .. N : i \in S BY <1>1, <2>1, <2>2, UpTo
  <2> QED BY <2>3 DEF S
<1>11. g \in [0 .. N -> FiniteMaps] BY <1>9, <1>10
<1>12. RestoreTurns(g) BY <1>6, <1>7, <1>8, <1>11 DEF RestoreTurns, N, Turn, Base
<1> QED BY <1>12

StoredEntry(k) == Entry(slots[k].name, Restored(slots[k]))
NamesDiffer(n) == \A k, l \in 0 .. n - 1 : slots[k].name = slots[l].name => k = l

\* The map after i headers: nothing but their tables, and if no two of them
\* have one name all their tables.
RestoredTo(b, i) ==
  /\ IsMap(b) /\ IsFiniteSet(EntriesOf(b)) /\ Cardinality(EntriesOf(b)) <= i
  /\ \A e \in EntriesOf(b) : \E k \in 0 .. i - 1 : e = StoredEntry(k)
  /\ NamesDiffer(count) => /\ Cardinality(EntriesOf(b)) = i
                           /\ \A k \in 0 .. i - 1 : StoredEntry(k) \in EntriesOf(b)

LEMMA RestoredIs ==
  ASSUME HeadersTyped
  PROVE  RestoredTo(RestoredMap, count)
<1>1. PICK g : RestoreTurns(g) BY RestoreTurnsExist
<1>2. count \in Nat BY DEF HeadersTyped
<1> DEFINE S == {i \in 0 .. count : RestoredTo(g[i], i)}
<1>3. 0 \in S
  <2>1. Capacity \in Nat \ {0} BY DatabaseAssumption
  <2>2. g[0] = NoEntries(Capacity) BY <1>1 DEF RestoreTurns
  <2>3. RestoredTo(g[0], 0) BY <2>1, <2>2, EmptyMap DEF RestoredTo
  <2> QED BY <1>2, <2>3
<1>4. ASSUME NEW i \in 0 .. count - 1, i \in S PROVE i + 1 \in S
  <2> DEFINE b == g[i]
             c == g[i + 1]
             t == slots[i].name
             table == Restored(slots[i])
             M == Cardinality(EntriesOf(b))
  <2>1. /\ i + 1 \in 1 .. count /\ (i + 1) - 1 = i /\ i \in 0 .. count /\ i + 1 \in 0 .. count
        /\ i \in Nat
    BY <1>2
  <2>2. c = SetTable(b, t, table) BY <1>1, <2>1 DEF RestoreTurns
  <2>3. RestoredTo(b, i) BY <1>4
  <2>4. t \in AnyName /\ table \in TableType BY DEF HeadersTyped
  <2>5. IsMap(b) /\ IsFiniteSet(EntriesOf(b)) /\ M <= i /\ M \in Nat
    BY <2>3, FS_CardinalityType DEF RestoredTo
  <2> HIDE DEF b, c, t, table
  <2>6. /\ IsMap(c) /\ EntriesOf(c) = Updated(b, t, table) /\ IsFiniteSet(EntriesOf(c))
        /\ Cardinality(EntriesOf(c)) = IF t \in TablesIn(b) THEN M ELSE M + 1
    BY <2>2, <2>4, <2>5, SetTableKeeps
  <2>7. Cardinality(EntriesOf(c)) <= i + 1 BY <2>1, <2>5, <2>6
  <2>8. StoredEntry(i) = Entry(t, table) BY DEF StoredEntry, t, table
  <2>9. ASSUME NEW e \in EntriesOf(c) PROVE \E k \in 0 .. (i + 1) - 1 : e = StoredEntry(k)
    <3>1. i \in 0 .. (i + 1) - 1 /\ \A k \in 0 .. i - 1 : k \in 0 .. (i + 1) - 1 BY <2>1
    <3>2. CASE e \in EntriesOf(b)
      <4>1. PICK k \in 0 .. i - 1 : e = StoredEntry(k) BY <2>3, <3>2 DEF RestoredTo
      <4> QED BY <3>1, <4>1
    <3>3. CASE e = Entry(t, table) BY <2>8, <3>1, <3>3
    <3> QED BY <2>6, <3>2, <3>3 DEF Updated, Others
  <2>10. ASSUME NamesDiffer(count)
         PROVE  /\ Cardinality(EntriesOf(c)) = i + 1
                /\ \A k \in 0 .. (i + 1) - 1 : StoredEntry(k) \in EntriesOf(c)
    <3>1. M = i /\ \A k \in 0 .. i - 1 : StoredEntry(k) \in EntriesOf(b)
      BY <2>3, <2>10 DEF RestoredTo
    <3>2. \A k \in 0 .. i - 1 : slots[k].name # t
      <4> SUFFICES ASSUME NEW k \in 0 .. i - 1 PROVE slots[k].name # t OBVIOUS
      <4>1. k \in 0 .. count - 1 /\ i \in 0 .. count - 1 /\ k # i BY <1>2, <2>1
      <4> QED BY <2>10, <4>1 DEF NamesDiffer, t
    <3>3. ASSUME NEW e \in EntriesOf(b) PROVE e.key # t
      <4>1. PICK k \in 0 .. i - 1 : e = StoredEntry(k) BY <2>3 DEF RestoredTo
      <4> QED BY <3>2, <4>1 DEF StoredEntry, Entry
    <3>4. t \notin TablesIn(b) BY <3>3 DEF TablesIn
    <3>5. Cardinality(EntriesOf(c)) = i + 1 BY <2>6, <3>1, <3>4
    <3>6. ASSUME NEW k \in 0 .. (i + 1) - 1 PROVE StoredEntry(k) \in EntriesOf(c)
      <4>1. k = i \/ k \in 0 .. i - 1 BY <2>1
      <4>2. CASE k = i BY <2>6, <2>8, <4>2 DEF Updated
      <4>3. CASE k \in 0 .. i - 1 BY <2>6, <3>1, <3>3, <4>3 DEF Updated, Others
      <4> QED BY <4>1, <4>2, <4>3
    <3> QED BY <3>5, <3>6
  <2>11. RestoredTo(c, i + 1) BY <2>6, <2>7, <2>9, <2>10 DEF RestoredTo
  <2> QED BY <2>1, <2>11 DEF c
<1> HIDE DEF S
<1>5. count \in S
  <2>1. count \in 0 .. count BY <1>2
  <2> QED BY <1>2, <1>3, <1>4, <2>1, UpTo
<1> QED BY <1>1, <1>5 DEF S, RestoreTurns

-----------------------------------------------------------------------------
(* The invariant of the types                                              *)

\* The pages of a table's rows are cached.
Loaded(table) == \A i \in LivePages(table) : table.pages[i] # Uncached
\* A table with a name has given out an id.
Numbered(e) == e.key \in Names => e.value.next_id >= 1

MapInv ==
  /\ IsMap(buckets) /\ IsFiniteSet(EntriesOf(buckets))
  /\ Cardinality(EntriesOf(buckets)) <= num_tables
  /\ \A e \in EntriesOf(buckets) : Numbered(e)
  /\ session = "open" => \A e \in EntriesOf(buckets) : Loaded(e.value)
TodoInv ==
  /\ \A p \in 1 .. Len(todo) : todo[p] \in Tables
  /\ idx \in Nat /\ idx + Len(todo) <= MaxTables + 1
  /\ session = "flushing" => todo # <<>>
  /\ session \in {"open", "closed", "undefined"} => todo = <<>>
DiskInv ==
  /\ \A i \in SlotNums : slots[i] # Torn /\ slots[i].name \in Names => slots[i].next_id >= 1
  /\ length = 0 => count = 0

TypeInv == TypeOK /\ MapInv /\ TodoInv /\ DiskInv

Bounds ==
  /\ MaxTables \in Nat \ {0} /\ RowsPerPage \in Nat \ {0} /\ MaxRows \in Nat \ {0}
  /\ MaxId \in Nat /\ DataPages \in Nat \ {0} /\ MaxRows <= DataPages
  /\ Capacity \in Nat \ {0} /\ MaxStatements \in Nat

LEMMA BoundsHold == Bounds
  BY DatabaseAssumption DEF Bounds

\* What a table of the map is.
LEMMA TableFields ==
  ASSUME NEW table \in TableType
  PROVE  /\ table.num_rows \in 0 .. MaxRows /\ table.next_id \in 0 .. MaxId + 1
         /\ table.page_offset \in Offsets
         /\ table.pages \in [Pages -> DataPage \cup {Uncached}]
         /\ \A i \in Cached(table) : i \in Pages /\ table.pages[i] \in DataPage
         /\ LivePages(table) \in SUBSET Pages
         /\ \A r \in 0 .. table.num_rows - 1 : PageOf(r) \in LivePages(table)
  BY LivePagesAre DEF TableType, Cached, LivePages

\* A page that is not cached of a table is not loaded, one that is is a page.
LEMMA RowTyped ==
  ASSUME NEW table \in TableType, Loaded(table), NEW r \in 0 .. table.num_rows - 1
  PROVE  RowAt(table, r) \in PageSlots
<1>1. PageOf(r) \in LivePages(table) /\ PageOf(r) \in Pages BY TableFields
<1>2. table.pages[PageOf(r)] \in DataPage
  <2>1. table.pages[PageOf(r)] # Uncached BY <1>1 DEF Loaded
  <2> QED BY <1>1, <2>1, TableFields
<1>3. r % RowsPerPage \in 0 .. RowsPerPage - 1
  <2>1. r \in Nat BY TableFields
  <2> QED BY <2>1, PageIs
<1> QED BY <1>2, <1>3 DEF RowAt, DataPage

\* The files' pages after a flush.
LEMMA FlushTyped ==
  ASSUME TypeOK, NEW table \in TableType, NEW I \in SUBSET Pages,
         \A i \in I : table.pages[i] \in DataPage, Flush(table, I)
  PROVE  /\ data' \in [PageNums -> DataPage]
         /\ slots' \in [SlotNums -> HeaderType \cup {Torn}]
         /\ length' \in Nat /\ length <= length'
         /\ \A i \in SlotNums : slots'[i] \in {slots[i], Torn} /\ (i < MaxTables => slots'[i] = slots[i])
<1> DEFINE o == table.page_offset
           written == {o + i : i \in I}
<1>1. /\ data' = [p \in PageNums |-> IF p \in written THEN table.pages[p - o] ELSE data[p]]
      /\ slots' = [i \in SlotNums |-> IF 0 \in written /\ i >= MaxTables THEN Torn ELSE slots[i]]
      /\ length' = Max({length} \cup {LengthToPage(p) : p \in written})
  BY DEF Flush
<1>2. o \in Nat /\ o <= DataPages - MaxRows /\ \A i \in I : i \in Nat /\ i <= MaxRows - 1
  <2>1. Bounds BY BoundsHold
  <2>2. o \in Offsets BY TableFields
  <2> QED BY <2>1, <2>2 DEF Bounds, Offsets, Pages, RowNums
<1>3. \A p \in written : p - o \in I /\ p \in Nat /\ p <= DataPages - 1
  <2> SUFFICES ASSUME NEW i \in I PROVE (o + i) - o = i /\ o + i \in Nat /\ o + i <= DataPages - 1
    OBVIOUS
  <2>1. Bounds /\ i \in Nat /\ i <= MaxRows - 1 BY <1>2, BoundsHold
  <2> HIDE DEF o
  <2> QED BY <1>2, <2>1 DEF Bounds
<1> HIDE DEF o, written
<1>4. data' \in [PageNums -> DataPage]
  <2>1. data \in [PageNums -> DataPage] BY DEF TypeOK
  <2>2. \A p \in written : table.pages[p - o] \in DataPage BY <1>3
  <2> QED BY <1>1, <2>1, <2>2
<1>5. /\ slots' \in [SlotNums -> HeaderType \cup {Torn}]
      /\ \A i \in SlotNums : slots'[i] \in {slots[i], Torn} /\ (i < MaxTables => slots'[i] = slots[i])
  <2>1. slots \in [SlotNums -> HeaderType \cup {Torn}] BY DEF TypeOK
  <2>2. \A i \in SlotNums : i \in Nat BY DEF SlotNums
  <2>3. MaxTables \in Nat BY BoundsHold DEF Bounds
  <2> QED BY <1>1, <2>1, <2>2, <2>3
<1>6. length' \in Nat /\ length <= length'
  <2> DEFINE S == {length} \cup {LengthToPage(p) : p \in written}
             k == length + (1 + MaxTables + 5 * DataPages)
  <2>1. length \in Nat /\ Bounds BY BoundsHold DEF TypeOK
  <2>2. ASSUME NEW p \in written PROVE LengthToPage(p) \in 0 .. k
    <3>1. p \in Nat /\ p <= DataPages - 1 BY <1>3
    <3> QED BY <2>1, <3>1 DEF LengthToPage, Bounds
  <2>3. k \in Nat /\ length \in 0 .. k BY <2>1 DEF Bounds
  <2> HIDE DEF k
  <2>4. S \in SUBSET (0 .. k) /\ length \in S BY <2>2, <2>3
  <2> HIDE DEF S
  <2>5. Max(S) \in S /\ \A y \in S : y <= Max(S) BY <2>3, <2>4, GreatestBelow
  <2>6. Max(S) \in Nat /\ length <= Max(S)
    <3>1. Max(S) \in 0 .. k BY <2>4, <2>5
    <3>2. Max(S) \in Nat BY <2>3, <3>1
    <3> QED BY <2>4, <2>5, <3>2
  <2> QED BY <1>1, <2>6 DEF S
<1> QED BY <1>4, <1>5, <1>6

\* Every entry is as it was or the one put.
LEMMA PutInv ==
  ASSUME TypeInv, NEW t \in Tables, NEW table \in TableType, t \in Names => table.next_id >= 1,
         session = "open" => Loaded(table), session' = session,
         num_tables' = num_tables, buckets' = Put(buckets, t, table)
  PROVE  MapInv' /\ Tables' = Tables
<1> DEFINE c == Put(buckets, t, table)
<1>1. IsMap(buckets) /\ IsFiniteSet(EntriesOf(buckets)) /\ t \in TablesIn(buckets)
  BY DEF TypeInv, MapInv, Tables
<1>2. t \in AnyName BY <1>1, TableIs
<1>3. /\ IsMap(c) /\ EntriesOf(c) = Updated(buckets, t, table) /\ IsFiniteSet(EntriesOf(c))
      /\ Cardinality(EntriesOf(c)) = Cardinality(EntriesOf(buckets))
  BY <1>1, <1>2, PutTable
<1>4. buckets' = c OBVIOUS
<1> HIDE DEF c
<1>5. \A e \in EntriesOf(c) : e \in EntriesOf(buckets) \/ e = Entry(t, table)
  BY <1>3 DEF Updated, Others
<1>6. Entry(t, table).key = t /\ Entry(t, table).value = table BY DEF Entry
<1>7. \A e \in EntriesOf(c) : Numbered(e) BY <1>5, <1>6 DEF Numbered, TypeInv, MapInv
<1>8. session = "open" => \A e \in EntriesOf(c) : Loaded(e.value)
  BY <1>5, <1>6 DEF TypeInv, MapInv
<1>9. TablesIn(c) = TablesIn(buckets)
  <2>1. TablesIn(c) = TablesIn(buckets) \cup {t} BY <1>1, <1>3, UpdatedTables
  <2> QED BY <1>1, <2>1
<1>10. Cardinality(EntriesOf(c)) <= num_tables BY <1>3 DEF TypeInv, MapInv
<1> QED BY <1>3, <1>4, <1>7, <1>8, <1>9, <1>10 DEF MapInv, Tables, Numbered, Loaded

\* Types of the entries come with the map.
LEMMA EntriesInv ==
  ASSUME MapInv
  PROVE  \A e \in EntriesOf(buckets) : e.key \in AnyName /\ e.value \in TableType
  BY EntriesTyped DEF MapInv

LEMMA TableInv ==
  ASSUME TypeInv, NEW t \in Tables
  PROVE  /\ t \in AnyName /\ Table(t) \in TableType
         /\ Entry(t, Table(t)) \in EntriesOf(buckets)
         /\ t \in Names => Table(t).next_id >= 1
         /\ session = "open" => Loaded(Table(t))
<1>1. /\ t \in AnyName /\ Table(t) \in TableType
      /\ Entry(t, Table(t)) \in EntriesOf(buckets)
  BY TableIs DEF TypeInv, MapInv, Tables, Table
<1>2. Entry(t, Table(t)).key = t /\ Entry(t, Table(t)).value = Table(t) BY DEF Entry
<1> QED BY <1>1, <1>2 DEF TypeInv, MapInv, Numbered

LEMMA DiskKept ==
  ASSUME TypeInv, count' = count, \A i \in SlotNums : slots'[i] \in {slots[i], Torn},
         length' \in Nat, length <= length'
  PROVE  DiskInv'
<1>1. length \in Nat BY DEF TypeInv, TypeOK
<1>2. length' = 0 => length = 0 BY <1>1
<1>3. ASSUME NEW i \in SlotNums, slots'[i] # Torn, slots'[i].name \in Names
      PROVE  slots'[i].next_id >= 1
  BY <1>3 DEF TypeInv, DiskInv
<1> QED BY <1>2, <1>3 DEF TypeInv, DiskInv

\* What a statement leaves as it is.
LEMMA StatementKeeps ==
  ASSUME TypeInv, Statement, Tables' \in SUBSET AnyName
  PROVE  /\ session = "open" /\ session' = "open" /\ session' = session /\ count' = count
         /\ TodoInv' /\ todo' \in Seq(AnyName) /\ idx' \in SlotNums \cup {MaxTables + 5}
         /\ ending' \in {"safe", "full", "exit", "lost"}
         /\ statements' \in 0 .. MaxStatements
<1>1. /\ session = "open" /\ session' = session /\ todo' = todo /\ idx' = idx /\ count' = count
      /\ ending' = ending /\ statements < MaxStatements /\ statements' = statements + 1
  BY DEF Statement
<1>2. todo = <<>> BY <1>1 DEF TypeInv, TodoInv
<1>3. TodoInv'
  <2>1. Len(todo') = 0 /\ 1 .. 0 = {} BY <1>1, <1>2
  <2>2. idx \in Nat /\ idx + Len(todo) <= MaxTables + 1 BY DEF TypeInv, TodoInv
  <2> QED BY <1>1, <1>2, <2>1, <2>2 DEF TodoInv
<1>4. statements' \in 0 .. MaxStatements
  <2>1. statements \in 0 .. MaxStatements /\ Bounds BY BoundsHold DEF TypeInv, TypeOK
  <2> QED BY <1>1, <2>1 DEF Bounds
<1> QED BY <1>1, <1>3, <1>4 DEF TypeInv, TypeOK

\* table_initialize.
LEMMA NewTableIs ==
  ASSUME NEW o \in Offsets
  PROVE  NewTable(o) \in TableType /\ Loaded(NewTable(o)) /\ NewTable(o).next_id >= 1
<1>1. Bounds BY BoundsHold
<1>2. NewTable(o) = [num_rows |-> 0, next_id |-> 1, page_offset |-> o, pages |-> NoPages]
  BY DEF NewTable
<1>3. NoPages \in [Pages -> DataPage \cup {Uncached}] BY DEF NoPages
<1>4. 0 \in 0 .. MaxRows /\ 1 \in 0 .. MaxId + 1 BY <1>1 DEF Bounds
<1>5. NewTable(o) \in TableType BY <1>2, <1>3, <1>4 DEF TableType
<1>6. LivePages(NewTable(o)) = {}
  <2>1. NewTable(o).num_rows = 0 BY <1>2
  <2>2. 0 .. 0 - 1 = {} OBVIOUS
  <2> QED BY <2>1, <2>2 DEF LivePages
<1> QED BY <1>2, <1>5, <1>6 DEF Loaded

LEMMA PositionIs ==
  ASSUME TypeInv
  PROVE  Position \in Nat
<1>1. IsMap(buckets) BY DEF TypeInv, MapInv
<1>2. Visits(buckets) \in Seq(EntriesIn(AnyName, TableType)) BY <1>1, VisitsAre
<1>3. Position = PagesOf(Visits(buckets)) BY DEF Position, PagesOf
<1> QED BY <1>2, <1>3, PagesOfIs

LEMMA CreateTyped ==
  ASSUME TypeInv, NEW t \in Names, CreateTable(t)
  PROVE  TypeInv'
<1> DEFINE new == NewTable(Position)
           c == SetTable(buckets, t, new)
<1>1. /\ Statement /\ t \notin Tables /\ num_tables <= MaxTables /\ Position + MaxRows <= DataPages
      /\ num_tables' = num_tables + 1 /\ buckets' = c
      /\ calm' = (calm /\ Flat(buckets)) /\ slots' = slots /\ data' = data /\ length' = length
  BY DEF CreateTable
<1>2. Position \in Offsets
  <2>1. Position \in Nat /\ Bounds BY PositionIs, BoundsHold
  <2> QED BY <1>1, <2>1 DEF Offsets, Bounds
<1>3. new \in TableType /\ Loaded(new) /\ new.next_id >= 1 BY <1>2, NewTableIs
<1>4. IsMap(buckets) /\ IsFiniteSet(EntriesOf(buckets)) BY DEF TypeInv, MapInv
<1>5. t \in AnyName /\ t \notin TablesIn(buckets) BY <1>1 DEF AnyName, Tables
<1> HIDE DEF new
<1>6. /\ IsMap(c) /\ EntriesOf(c) = Updated(buckets, t, new) /\ IsFiniteSet(EntriesOf(c))
      /\ Cardinality(EntriesOf(c)) = Cardinality(EntriesOf(buckets)) + 1
  BY <1>3, <1>4, <1>5, SetTableKeeps
<1> HIDE DEF c
<1>7. \A e \in EntriesOf(c) : e \in EntriesOf(buckets) \/ e = Entry(t, new)
  BY <1>6 DEF Updated, Others
<1>8. Entry(t, new).key = t /\ Entry(t, new).value = new BY DEF Entry
<1>9. \A e \in EntriesOf(c) : Numbered(e)
  BY <1>3, <1>7, <1>8 DEF Numbered, TypeInv, MapInv
<1>10. session = "open" BY <1>1 DEF Statement
<1>11. \A e \in EntriesOf(c) : Loaded(e.value) BY <1>3, <1>7, <1>8, <1>10 DEF TypeInv, MapInv
<1>12. num_tables \in 0 .. MaxTables + 1 /\ Bounds BY BoundsHold DEF TypeInv, TypeOK
<1>13. num_tables' \in 0 .. MaxTables + 1 BY <1>1, <1>12 DEF Bounds
<1>14. Cardinality(EntriesOf(c)) <= num_tables'
  <2>1. Cardinality(EntriesOf(buckets)) \in Nat /\ Cardinality(EntriesOf(buckets)) <= num_tables
    BY FS_CardinalityType DEF TypeInv, MapInv
  <2> QED BY <1>1, <1>6, <1>12, <2>1
<1>15. MapInv'
  BY <1>1, <1>6, <1>9, <1>11, <1>14 DEF MapInv, Numbered, Loaded
<1>16. \A e \in EntriesOf(c) : e.key \in AnyName /\ e.value \in TableType
  BY <1>6, EntriesTyped
<1>17. Tables' \in SUBSET AnyName BY <1>1, <1>16 DEF Tables, TablesIn
<1>18. /\ session' = "open" /\ count' = count /\ TodoInv' /\ todo' \in Seq(AnyName)
       /\ idx' \in SlotNums \cup {MaxTables + 5} /\ ending' \in {"safe", "full", "exit", "lost"}
       /\ statements' \in 0 .. MaxStatements
  BY <1>1, <1>17, StatementKeeps
<1>19. DiskInv'
  <2>1. length \in Nat BY DEF TypeInv, TypeOK
  <2> QED BY <1>1, <1>18, <2>1, DiskKept
<1>20. calm' \in BOOLEAN BY <1>1
<1>21. TypeOK' BY <1>1, <1>13, <1>16, <1>18, <1>20 DEF TypeInv, TypeOK
<1> QED BY <1>15, <1>18, <1>19, <1>21 DEF TypeInv

LEMMA DropTyped ==
  ASSUME TypeInv, NEW t \in Names, DropTable(t)
  PROVE  TypeInv'
<1> DEFINE c == Unlink(buckets, t)
<1>1. /\ Statement /\ t \in Tables /\ num_tables' = num_tables - 1 /\ buckets' = c
      /\ calm' = FALSE /\ slots' = slots /\ data' = data /\ length' = length
  BY DEF DropTable
<1>2. IsMap(buckets) /\ IsFiniteSet(EntriesOf(buckets)) /\ t \in TablesIn(buckets)
  BY <1>1 DEF TypeInv, MapInv, Tables
<1>3. /\ IsMap(c) /\ EntriesOf(c) = Others(buckets, t) /\ IsFiniteSet(EntriesOf(c))
      /\ Cardinality(EntriesOf(buckets)) \in Nat \ {0}
      /\ Cardinality(EntriesOf(c)) = Cardinality(EntriesOf(buckets)) - 1
  BY <1>2, UnlinkTable
<1> HIDE DEF c
<1>4. \A e \in EntriesOf(c) : e \in EntriesOf(buckets) BY <1>3 DEF Others
<1>5. session = "open" BY <1>1 DEF Statement
<1>6. /\ \A e \in EntriesOf(c) : Numbered(e)
      /\ \A e \in EntriesOf(c) : Loaded(e.value)
  BY <1>4, <1>5 DEF TypeInv, MapInv
<1>7. /\ num_tables' \in 0 .. MaxTables + 1
      /\ Cardinality(EntriesOf(c)) <= num_tables'
  <2>1. num_tables \in 0 .. MaxTables + 1 /\ Bounds BY BoundsHold DEF TypeInv, TypeOK
  <2>2. Cardinality(EntriesOf(buckets)) <= num_tables BY DEF TypeInv, MapInv
  <2> QED BY <1>1, <1>3, <2>1, <2>2 DEF Bounds
<1>8. MapInv' BY <1>1, <1>3, <1>6, <1>7 DEF MapInv, Numbered, Loaded
<1>9. \A e \in EntriesOf(c) : e.key \in AnyName /\ e.value \in TableType
  BY <1>3, EntriesTyped
<1>10. Tables' \in SUBSET AnyName BY <1>1, <1>9 DEF Tables, TablesIn
<1>11. /\ session' = "open" /\ count' = count /\ TodoInv' /\ todo' \in Seq(AnyName)
       /\ idx' \in SlotNums \cup {MaxTables + 5} /\ ending' \in {"safe", "full", "exit", "lost"}
       /\ statements' \in 0 .. MaxStatements
  BY <1>1, <1>10, StatementKeeps
<1>12. DiskInv'
  <2>1. length \in Nat BY DEF TypeInv, TypeOK
  <2> QED BY <1>1, <1>11, <2>1, DiskKept
<1>13. TypeOK' BY <1>1, <1>7, <1>9, <1>11 DEF TypeInv, TypeOK
<1> QED BY <1>8, <1>11, <1>12, <1>13 DEF TypeInv

\* The table that insert_row leaves, and the one that delete_row does.
Inserted(t, old) ==
  LET p == PageOf(old.num_rows)
      page == IF old.pages[p] = Uncached THEN BlankPage ELSE old.pages[p]
  IN [old EXCEPT !.num_rows = @ + 1, !.next_id = @ + 1,
                 !.pages[p] = [page EXCEPT ![old.num_rows % RowsPerPage] =
                                             [table |-> t, id |-> old.next_id]]]
Deleted(old, r) ==
  [old EXCEPT !.num_rows = old.num_rows - 1,
              !.pages[PageOf(r)] = [@ EXCEPT ![r % RowsPerPage] = RowAt(old, old.num_rows - 1)]]

LEMMA InsertedIs ==
  ASSUME NEW t \in Names, NEW old \in TableType, Loaded(old), old.num_rows < MaxRows,
         old.next_id <= MaxId, old.next_id >= 1
  PROVE  LET new == Inserted(t, old)
             p == PageOf(old.num_rows)
         IN /\ p \in Pages /\ new \in TableType /\ Loaded(new) /\ new.pages[p] \in DataPage
            /\ new.num_rows = old.num_rows + 1 /\ new.next_id = old.next_id + 1
            /\ new.page_offset = old.page_offset
<1> DEFINE new == Inserted(t, old)
           n == old.num_rows
           p == PageOf(n)
           page == IF old.pages[p] = Uncached THEN BlankPage ELSE old.pages[p]
           row == [table |-> t, id |-> old.next_id]
           page2 == [page EXCEPT ![n % RowsPerPage] = row]
<1>1. Bounds BY BoundsHold
<1>2. /\ n \in 0 .. MaxRows /\ old.next_id \in 0 .. MaxId + 1 /\ old.page_offset \in Offsets
      /\ old.pages \in [Pages -> DataPage \cup {Uncached}]
  BY TableFields
<1>3. n \in Nat /\ n < MaxRows BY <1>2
<1>4. p \in Pages /\ n % RowsPerPage \in 0 .. RowsPerPage - 1
  <2>1. p \in Nat /\ p <= n /\ n % RowsPerPage \in 0 .. RowsPerPage - 1
    <3> HIDE DEF n
    <3> QED BY <1>3, PageIs
  <2>2. p <= MaxRows - 1 BY <1>1, <1>3, <2>1 DEF Bounds
  <2> QED BY <1>1, <2>1, <2>2 DEF Pages, RowNums, Bounds
<1>5. row \in Row
  <2>1. old.next_id \in 1 .. MaxId BY <1>1, <1>2 DEF Bounds
  <2> QED BY <2>1 DEF Row
<1>6. page \in DataPage
  <2>1. BlankPage \in DataPage BY DEF BlankPage, DataPage, PageSlots
  <2>2. old.pages[p] # Uncached => old.pages[p] \in DataPage BY <1>2, <1>4
  <2> QED BY <2>1, <2>2
<1>7. page2 \in DataPage
  <2> HIDE DEF page, row
  <2> QED BY <1>4, <1>5, <1>6 DEF DataPage, PageSlots
<1>8. new = [old EXCEPT !.num_rows = n + 1, !.next_id = old.next_id + 1,
                        !.pages = [old.pages EXCEPT ![p] = page2]]
  BY <1>2 DEF Inserted, TableType
<1> HIDE DEF page2, p
<1>9. [old.pages EXCEPT ![p] = page2] \in [Pages -> DataPage \cup {Uncached}]
  BY <1>2, <1>4, <1>7
<1>10. n + 1 \in 0 .. MaxRows /\ old.next_id + 1 \in 0 .. MaxId + 1
  BY <1>1, <1>2, <1>3 DEF Bounds
<1> HIDE DEF new
<1>11. /\ new.num_rows = n + 1 /\ new.next_id = old.next_id + 1
       /\ new.page_offset = old.page_offset
       /\ new.pages = [old.pages EXCEPT ![p] = page2]
  BY <1>8 DEF TableType
<1>12. new \in TableType
  <2>1. new = [num_rows |-> n + 1, next_id |-> old.next_id + 1, page_offset |-> old.page_offset,
               pages |-> [old.pages EXCEPT ![p] = page2]]
    BY <1>8 DEF TableType
  <2> QED BY <1>2, <1>9, <1>10, <2>1 DEF TableType
<1>13. new.pages[p] = page2 BY <1>2, <1>4, <1>11
<1>14. Loaded(new)
  <2> SUFFICES ASSUME NEW i \in LivePages(new) PROVE new.pages[i] # Uncached BY DEF Loaded
  <2>1. new.pages[p] # Uncached BY <1>7, <1>13, MarkersAssumption
  <2>2. PICK r \in 0 .. new.num_rows - 1 : i = PageOf(r) BY DEF LivePages
  <2>3. r \in 0 .. n - 1 \/ r = n BY <1>3, <1>11, <2>2
  <2>4. CASE r = n BY <2>1, <2>2, <2>4 DEF p
  <2>5. CASE r \in 0 .. n - 1
    <3>1. i \in LivePages(old) /\ i \in Pages BY <2>2, <2>5, TableFields
    <3>2. old.pages[i] # Uncached BY <3>1 DEF Loaded
    <3>3. i # p => new.pages[i] = old.pages[i] BY <1>2, <1>4, <1>11, <3>1
    <3> QED BY <2>1, <3>2, <3>3
  <2> QED BY <2>3, <2>4, <2>5
<1> QED BY <1>4, <1>7, <1>11, <1>12, <1>13, <1>14 DEF new, p

LEMMA DeletedIs ==
  ASSUME NEW old \in TableType, Loaded(old), NEW r \in RowNums, r < old.num_rows
  PROVE  LET new == Deleted(old, r)
             last == old.num_rows - 1
         IN /\ new \in TableType /\ Loaded(new)
            /\ PageOf(last) \in Pages /\ new.pages[PageOf(last)] \in DataPage
            /\ new.num_rows = last /\ new.next_id = old.next_id
            /\ new.page_offset = old.page_offset
<1> DEFINE new == Deleted(old, r)
           n == old.num_rows
           last == n - 1
           p == PageOf(r)
           page2 == [old.pages[p] EXCEPT ![r % RowsPerPage] = RowAt(old, last)]
<1>1. Bounds BY BoundsHold
<1>2. /\ n \in 0 .. MaxRows /\ old.next_id \in 0 .. MaxId + 1 /\ old.page_offset \in Offsets
      /\ old.pages \in [Pages -> DataPage \cup {Uncached}]
  BY TableFields
<1>3. r \in Nat /\ r \in 0 .. n - 1 /\ last \in 0 .. n - 1 /\ last \in 0 .. MaxRows
  BY <1>1, <1>2 DEF RowNums, Bounds
<1>4. r % RowsPerPage \in 0 .. RowsPerPage - 1 BY <1>3, PageIs
<1>5. \A i \in LivePages(old) : i \in Pages /\ old.pages[i] \in DataPage
  BY TableFields DEF Loaded
<1>6. p \in LivePages(old) /\ PageOf(last) \in LivePages(old)
  <2> HIDE DEF last
  <2> QED BY <1>3, TableFields
<1>7. RowAt(old, last) \in PageSlots
  <2> HIDE DEF last
  <2> QED BY <1>3, RowTyped
<1>8. page2 \in DataPage BY <1>4, <1>5, <1>6, <1>7 DEF DataPage
<1>9. new = [old EXCEPT !.num_rows = last, !.pages = [old.pages EXCEPT ![p] = page2]]
  BY <1>2 DEF Deleted, TableType
<1> HIDE DEF page2, p
<1>10. [old.pages EXCEPT ![p] = page2] \in [Pages -> DataPage \cup {Uncached}]
  BY <1>2, <1>5, <1>6, <1>8
<1> HIDE DEF new
<1>11. /\ new.num_rows = last /\ new.next_id = old.next_id
       /\ new.page_offset = old.page_offset
       /\ new.pages = [old.pages EXCEPT ![p] = page2]
  BY <1>9 DEF TableType
<1>12. new \in TableType
  <2>1. new = [num_rows |-> last, next_id |-> old.next_id, page_offset |-> old.page_offset,
               pages |-> [old.pages EXCEPT ![p] = page2]]
    BY <1>9 DEF TableType
  <2> QED BY <1>2, <1>3, <1>10, <2>1 DEF TableType
<1>13. \A i \in LivePages(old) : new.pages[i] \in DataPage
  <2> SUFFICES ASSUME NEW i \in LivePages(old) PROVE new.pages[i] \in DataPage OBVIOUS
  <2>1. i \in Pages /\ p \in Pages BY <1>5, <1>6
  <2>2. new.pages[i] = IF i = p THEN page2 ELSE old.pages[i] BY <1>2, <1>11, <2>1
  <2> QED BY <1>5, <1>8, <2>2
<1>14. Loaded(new)
  <2> SUFFICES ASSUME NEW i \in LivePages(new) PROVE new.pages[i] # Uncached BY DEF Loaded
  <2>1. PICK q \in 0 .. new.num_rows - 1 : i = PageOf(q) BY DEF LivePages
  <2>2. q \in 0 .. n - 1 BY <1>2, <1>11, <2>1
  <2>3. i \in LivePages(old) BY <2>1, <2>2, TableFields
  <2> QED BY <1>13, <2>3, MarkersAssumption
<1> QED BY <1>5, <1>6, <1>11, <1>12, <1>13, <1>14 DEF new

\* INSERT and a DELETE that hits: the table is put back and pages flushed.
RowsStep(t, new, I) ==
  /\ Statement /\ t \in Tables /\ new \in TableType /\ Loaded(new) /\ new.next_id >= 1
  /\ new.page_offset = Table(t).page_offset
  /\ I \in SUBSET Pages /\ (\A i \in I : new.pages[i] \in DataPage) /\ Flush(new, I)
  /\ buckets' = Put(buckets, t, new) /\ num_tables' = num_tables
  /\ calm' \in BOOLEAN /\ (calm' => calm)
  /\ calm' /\ Table(t).num_rows <= RowsPerPage => new.num_rows <= RowsPerPage

LEMMA InsertStep ==
  ASSUME TypeInv, NEW t \in Names, Insert(t)
  PROVE  RowsStep(t, Inserted(t, Table(t)), {PageOf(Table(t).num_rows)})
<1> DEFINE old == Table(t)
           p == PageOf(old.num_rows)
           new == Inserted(t, old)
<1>1. /\ Statement /\ t \in Tables /\ old.num_rows < MaxRows /\ old.next_id <= MaxId
      /\ buckets' = Put(buckets, t, new) /\ Flush(new, {p})
      /\ calm' = (calm /\ p = 0) /\ num_tables' = num_tables
  BY DEF Insert, Inserted
<1>2. session = "open" BY <1>1 DEF Statement
<1>3. old \in TableType /\ Loaded(old) /\ old.next_id >= 1 BY <1>1, <1>2, TableInv
<1>4. Table(t) = old OBVIOUS
<1> HIDE DEF old
<1>5. /\ p \in Pages /\ new \in TableType /\ Loaded(new) /\ new.pages[p] \in DataPage
      /\ new.num_rows = old.num_rows + 1 /\ new.next_id = old.next_id + 1
      /\ new.page_offset = old.page_offset
  BY <1>1, <1>3, InsertedIs
<1>6. old.num_rows \in Nat /\ old.next_id \in Nat BY <1>3, TableFields
<1>7. new.next_id >= 1 BY <1>3, <1>5, <1>6
<1>8. p = 0 => new.num_rows <= RowsPerPage
  <2>1. p = 0 => old.num_rows < RowsPerPage BY <1>6, PageIs
  <2>2. RowsPerPage \in Nat BY BoundsHold DEF Bounds
  <2> QED BY <1>5, <1>6, <2>1, <2>2
<1>9. calm \in BOOLEAN BY DEF TypeInv, TypeOK
<1> HIDE DEF new, p
<1>10. {p} \in SUBSET Pages /\ \A i \in {p} : new.pages[i] \in DataPage BY <1>5
<1>11. RowsStep(t, new, {p})
  BY <1>1, <1>4, <1>5, <1>7, <1>8, <1>9, <1>10 DEF RowsStep
<1> QED BY <1>11 DEF new, p, old

LEMMA DeleteRowStep ==
  ASSUME TypeInv, NEW t \in Names, NEW r \in RowNums, DeleteRow(t, r)
  PROVE  RowsStep(t, Deleted(Table(t), r), {PageOf(Table(t).num_rows - 1)})
<1> DEFINE old == Table(t)
           p == PageOf(old.num_rows - 1)
           new == Deleted(old, r)
<1>1. /\ Statement /\ t \in Tables /\ r < old.num_rows
      /\ buckets' = Put(buckets, t, new) /\ Flush(new, {p})
      /\ num_tables' = num_tables /\ calm' = calm
  BY DEF DeleteRow, Deleted
<1>2. session = "open" BY <1>1 DEF Statement
<1>3. old \in TableType /\ Loaded(old) /\ old.next_id >= 1 BY <1>1, <1>2, TableInv
<1>4. Table(t) = old OBVIOUS
<1> HIDE DEF old
<1>5. /\ p \in Pages /\ new \in TableType /\ Loaded(new) /\ new.pages[p] \in DataPage
      /\ new.num_rows = old.num_rows - 1 /\ new.next_id = old.next_id
      /\ new.page_offset = old.page_offset
  BY <1>1, <1>3, DeletedIs
<1>6. old.num_rows \in Nat BY <1>3, TableFields
<1>7. old.num_rows <= RowsPerPage => new.num_rows <= RowsPerPage
  <2>1. RowsPerPage \in Nat BY BoundsHold DEF Bounds
  <2> QED BY <1>5, <1>6, <2>1
<1>8. calm \in BOOLEAN BY DEF TypeInv, TypeOK
<1> HIDE DEF new, p
<1>9. {p} \in SUBSET Pages /\ \A i \in {p} : new.pages[i] \in DataPage BY <1>5
<1>10. RowsStep(t, new, {p})
  BY <1>1, <1>3, <1>4, <1>5, <1>7, <1>8, <1>9 DEF RowsStep
<1> QED BY <1>10 DEF new, p, old

\* What such a step does to the file.
LEMMA RowsStepDisk ==
  ASSUME TypeInv, NEW t \in Names, NEW new, NEW I, RowsStep(t, new, I)
  PROVE  /\ data' \in [PageNums -> DataPage]
         /\ slots' \in [SlotNums -> HeaderType \cup {Torn}]
         /\ length' \in Nat /\ length <= length' /\ count' = count
         /\ \A i \in SlotNums : slots'[i] \in {slots[i], Torn} /\ (i < MaxTables => slots'[i] = slots[i])
<1>1. new \in TableType /\ I \in SUBSET Pages BY DEF RowsStep
<1>2. /\ (\A i \in I : new.pages[i] \in DataPage) /\ Flush(new, I)
      /\ count' = count /\ TypeOK
  BY DEF RowsStep, Statement, TypeInv
<1> QED BY <1>1, <1>2, FlushTyped

LEMMA RowsTyped ==
  ASSUME TypeInv, NEW t \in Names, NEW new, NEW I, RowsStep(t, new, I)
  PROVE  TypeInv'
<1>1. /\ Statement /\ session' = session /\ t \in Tables /\ new \in TableType /\ Loaded(new)
      /\ new.next_id >= 1 /\ buckets' = Put(buckets, t, new) /\ num_tables' = num_tables
      /\ calm' \in BOOLEAN
  BY DEF RowsStep, Statement
<1>2. MapInv' /\ Tables' = Tables BY <1>1, PutInv
<1>3. \A e \in EntriesOf(buckets') : e.key \in AnyName /\ e.value \in TableType
  <2>1. IsMap(buckets') BY <1>2 DEF MapInv
  <2> QED BY <2>1, EntriesTyped
<1>4. Tables' \in SUBSET AnyName BY <1>2, TableInv
<1>5. /\ session' = "open" /\ TodoInv' /\ todo' \in Seq(AnyName)
      /\ idx' \in SlotNums \cup {MaxTables + 5} /\ ending' \in {"safe", "full", "exit", "lost"}
      /\ statements' \in 0 .. MaxStatements
  BY <1>1, <1>4, StatementKeeps
<1>6. /\ data' \in [PageNums -> DataPage]
      /\ slots' \in [SlotNums -> HeaderType \cup {Torn}]
      /\ length' \in Nat /\ length <= length' /\ count' = count
      /\ \A i \in SlotNums : slots'[i] \in {slots[i], Torn}
  BY RowsStepDisk
<1>7. DiskInv' BY <1>6, DiskKept
<1>8. TypeOK' BY <1>1, <1>3, <1>5, <1>6 DEF TypeInv, TypeOK
<1> QED BY <1>2, <1>5, <1>7, <1>8 DEF TypeInv

LEMMA DeleteNoneTyped ==
  ASSUME TypeInv, NEW t \in Names, DeleteNone(t)
  PROVE  TypeInv'
<1> DEFINE I == Cached(Table(t)) \cap {PageOf(Table(t).num_rows)}
<1>1. /\ Statement /\ t \in Tables /\ Flush(Table(t), I)
      /\ num_tables' = num_tables /\ buckets' = buckets /\ calm' = calm
  BY DEF DeleteNone, memory
<1>2. Table(t) \in TableType BY <1>1, TableInv
<1>3. I \in SUBSET Pages /\ \A i \in I : Table(t).pages[i] \in DataPage BY <1>2, TableFields
<1>4. /\ data' \in [PageNums -> DataPage]
      /\ slots' \in [SlotNums -> HeaderType \cup {Torn}]
      /\ length' \in Nat /\ length <= length'
      /\ \A i \in SlotNums : slots'[i] \in {slots[i], Torn}
  <2> HIDE DEF I
  <2> QED BY <1>1, <1>2, <1>3, FlushTyped DEF TypeInv
<1>5. Tables' = Tables BY <1>1 DEF Tables
<1>6. Tables' \in SUBSET AnyName BY <1>5, TableInv
<1>7. /\ session' = session /\ session' = "open" /\ count' = count /\ TodoInv'
      /\ todo' \in Seq(AnyName)
      /\ idx' \in SlotNums \cup {MaxTables + 5} /\ ending' \in {"safe", "full", "exit", "lost"}
      /\ statements' \in 0 .. MaxStatements
  BY <1>1, <1>6, StatementKeeps
<1>8. MapInv' BY <1>1, <1>7 DEF TypeInv, MapInv, Numbered, Loaded
<1>9. DiskInv' BY <1>4, <1>7, DiskKept
<1>10. TypeOK' BY <1>1, <1>4, <1>7 DEF TypeInv, TypeOK
<1> QED BY <1>7, <1>8, <1>9, <1>10 DEF TypeInv

LEMMA CloseBeginTyped ==
  ASSUME TypeInv, CloseBegin
  PROVE  TypeInv'
<1> DEFINE v == Visits(buckets)
           N == Cardinality(EntriesOf(buckets))
<1>1. /\ session = "open" /\ session' = "storing"
      /\ \/ count' = num_tables /\ length' = Larger(length, 1)
         \/ count' = count /\ length' = length
      /\ todo' = [n \in DOMAIN v |-> v[n].key] /\ idx' = 0
      /\ ending' \in {"safe", "full", "lost"}
      /\ calm' = (calm /\ HeadersFit) \/ calm' = FALSE
      /\ num_tables' = num_tables /\ buckets' = buckets
      /\ slots' = slots /\ data' = data /\ statements' = statements
  BY DEF CloseBegin, CountWritten, WriteLost, memory, disk
<1>2. IsMap(buckets) /\ N \in Nat /\ N <= num_tables
  BY FS_CardinalityType DEF TypeInv, MapInv
<1>3. v \in Seq(EntriesIn(AnyName, TableType)) /\ Returns(v, EntriesOf(buckets), Flat(buckets))
  BY <1>2, VisitsAre
<1> HIDE DEF v
<1>4. Len(v) \in Nat /\ DOMAIN v = 1 .. Len(v) /\ Len(v) <= N BY <1>3 DEF Returns
<1>5. \A p \in 1 .. Len(v) : v[p].key \in Tables
  BY <1>3 DEF Returns, Tables, TablesIn
<1>6. todo' = [n \in 1 .. Len(v) |-> v[n].key] BY <1>1, <1>4
<1>7. Len(todo') = Len(v) /\ \A p \in 1 .. Len(todo') : todo'[p] \in Tables
  BY <1>4, <1>5, <1>6
<1>8. Tables' = Tables /\ Tables \in SUBSET AnyName BY <1>1, TableInv DEF Tables
<1>9. todo' \in Seq(AnyName)
  <2>1. \A p \in 1 .. Len(v) : v[p].key \in AnyName BY <1>5, <1>8
  <2> QED BY <1>4, <1>6, <2>1
<1>10. num_tables \in 0 .. MaxTables + 1 /\ Bounds /\ length \in Nat
  BY BoundsHold DEF TypeInv, TypeOK
<1>11. TodoInv'
  <2>1. 0 \in Nat /\ 0 + Len(todo') <= MaxTables + 1
    BY <1>2, <1>4, <1>7, <1>10 DEF Bounds
  <2> QED BY <1>1, <1>7, <1>8, <2>1 DEF TodoInv
<1>12. MapInv' BY <1>1 DEF TypeInv, MapInv, Numbered
<1>13. length' \in Nat /\ (length' = 0 => count' = count /\ length = 0)
  BY <1>1, <1>10 DEF Larger
<1>14. DiskInv' BY <1>1, <1>13 DEF TypeInv, DiskInv
<1>15. 0 \in SlotNums BY <1>10 DEF SlotNums, Bounds
<1>16. TypeOK' BY <1>1, <1>9, <1>10, <1>13, <1>15 DEF TypeInv, TypeOK
<1> QED BY <1>11, <1>12, <1>14, <1>16 DEF TypeInv

\* header_table_write of a table of the map.
LEMMA HeaderIs ==
  ASSUME NEW t \in AnyName, NEW table \in TableType
  PROVE  /\ Header(t, table) \in HeaderType /\ Header(t, table) # Torn
         /\ Header(t, table).name = t /\ Header(t, table).next_id = table.next_id
         /\ Header(t, table).num_rows = table.num_rows
         /\ Header(t, table).page_offset = table.page_offset
<1>1. Header(t, table) \in HeaderType BY TableFields DEF Header, HeaderType
<1> QED BY <1>1, MarkersAssumption DEF Header

LEMMA HeadIs ==
  ASSUME TypeInv, todo # <<>>
  PROVE  /\ Head(todo) \in Tables /\ Len(todo) \in Nat \ {0} /\ Head(todo) = todo[1]
         /\ Len(Tail(todo)) = Len(todo) - 1 /\ Tail(todo) \in Seq(AnyName)
         /\ \A p \in 1 .. Len(Tail(todo)) : Tail(todo)[p] = todo[p + 1] /\ p + 1 \in 1 .. Len(todo)
<1>1. todo \in Seq(AnyName) /\ \A p \in 1 .. Len(todo) : todo[p] \in Tables
  BY DEF TypeInv, TypeOK, TodoInv
<1>2. Len(todo) \in Nat \ {0} /\ Head(todo) = todo[1] BY <1>1
<1>3. 1 \in 1 .. Len(todo) BY <1>2
<1> QED BY <1>1, <1>2, <1>3

\* When the write fails the file is as it was, and the close goes on.
LEMMA HeaderLostTyped ==
  ASSUME TypeInv, StoreHeader, WriteLost
  PROVE  TypeInv'
<1>1. /\ session = "storing" /\ session' = "flushing" /\ todo # <<>>
      /\ num_tables' = num_tables /\ buckets' = buckets /\ todo' = todo /\ idx' = idx
      /\ count' = count /\ slots' = slots /\ data' = data /\ length' = length
      /\ ending' = "lost" /\ calm' = FALSE /\ statements' = statements
  BY DEF StoreHeader, WriteLost, memory, disk
<1>2. Tables' = Tables BY <1>1 DEF Tables
<1>3. MapInv' BY <1>1 DEF TypeInv, MapInv, Numbered
<1>4. TodoInv' BY <1>1, <1>2 DEF TypeInv, TodoInv
<1>5. DiskInv' BY <1>1 DEF TypeInv, DiskInv
<1>6. TypeOK' BY <1>1 DEF TypeInv, TypeOK
<1> QED BY <1>3, <1>4, <1>5, <1>6 DEF TypeInv

LEMMA StoreHeaderTyped ==
  ASSUME TypeInv, StoreHeader, HeaderWritten
  PROVE  TypeInv'
<1> DEFINE t == Head(todo)
           h == Header(t, Table(t))
<1>1. /\ session = "storing" /\ todo # <<>> /\ slots' = [slots EXCEPT ![idx] = h]
      /\ data' = (IF idx >= MaxTables THEN [data EXCEPT ![0] = TornPage] ELSE data)
      /\ length' = Larger(length, LengthToSlot(idx)) /\ session' = "flushing"
      /\ num_tables' = num_tables /\ buckets' = buckets
      /\ todo' = todo /\ idx' = idx /\ count' = count /\ ending' = ending /\ calm' = calm
      /\ statements' = statements
  BY DEF StoreHeader, HeaderWritten, WriteSlot, memory
<1>2. t \in Tables BY <1>1, HeadIs
<1>3. t \in AnyName /\ Table(t) \in TableType /\ (t \in Names => Table(t).next_id >= 1)
  BY <1>2, TableInv
<1> HIDE DEF t
<1>4. h \in HeaderType /\ h # Torn /\ h.name = t /\ h.next_id = Table(t).next_id
  BY <1>3, HeaderIs
<1> HIDE DEF h
<1>5. /\ slots \in [SlotNums -> HeaderType \cup {Torn}] /\ data \in [PageNums -> DataPage]
      /\ length \in Nat /\ idx \in Nat /\ Bounds
  BY BoundsHold DEF TypeInv, TypeOK, TodoInv
<1>6. slots' \in [SlotNums -> HeaderType \cup {Torn}] BY <1>1, <1>4, <1>5
<1>7. TornPage \in DataPage BY DEF TornPage, DataPage, PageSlots
<1>8. data' \in [PageNums -> DataPage] BY <1>1, <1>5, <1>7
<1>9. length' \in Nat /\ length' # 0
  <2>1. LengthToSlot(idx) \in Nat \ {0} BY <1>5 DEF LengthToSlot
  <2> QED BY <1>1, <1>5, <2>1 DEF Larger
<1>10. Tables' = Tables BY <1>1 DEF Tables
<1>11. MapInv' BY <1>1 DEF TypeInv, MapInv, Numbered
<1>12. TodoInv' BY <1>1, <1>10 DEF TypeInv, TodoInv
<1>13. DiskInv'
  <2>1. ASSUME NEW i \in SlotNums, slots'[i] # Torn, slots'[i].name \in Names
        PROVE  slots'[i].next_id >= 1
    <3>1. CASE i = idx
      <4>1. slots'[i] = h BY <1>1, <1>5, <3>1
      <4> QED BY <1>3, <1>4, <2>1, <4>1
    <3>2. CASE i # idx
      <4>1. slots'[i] = slots[i] BY <1>1, <1>5, <3>2
      <4> QED BY <2>1, <4>1 DEF TypeInv, DiskInv
    <3> QED BY <3>1, <3>2
  <2> QED BY <1>9, <2>1 DEF DiskInv
<1>14. TypeOK' BY <1>1, <1>6, <1>8, <1>9 DEF TypeInv, TypeOK
<1> QED BY <1>11, <1>12, <1>13, <1>14 DEF TypeInv

\* The first page cached.
LEMMA FirstCached ==
  ASSUME NEW table \in TableType, Cached(table) # {}
  PROVE  Min(Cached(table)) \in Cached(table)
<1> DEFINE S == Cached(table)
<1>1. S \in SUBSET Nat /\ S # {} BY DEF Cached, Pages, RowNums
<1>2. PICK x \in S : \A y \in S : x <= y
  <2> HIDE DEF S
  <2> QED BY <1>1, LeastExists
<1> QED BY <1>2 DEF Min

LEMMA FlushPageTyped ==
  ASSUME TypeInv, FlushPage
  PROVE  TypeInv'
<1> DEFINE t == Head(todo)
           table == Table(t)
           p == Min(Cached(table))
           new == [table EXCEPT !.pages[p] = Uncached]
<1>1. /\ session = "flushing" /\ Cached(table) # {} /\ Flush(table, {p})
      /\ buckets' = Put(buckets, t, new)
      /\ session' = session /\ num_tables' = num_tables /\ todo' = todo /\ idx' = idx
      /\ count' = count /\ ending' = ending /\ calm' = calm /\ statements' = statements
  BY DEF FlushPage
<1>2. t \in Tables
  <2>1. todo # <<>> BY <1>1 DEF TypeInv, TodoInv
  <2> QED BY <2>1, HeadIs
<1>3. table \in TableType /\ (t \in Names => table.next_id >= 1)
  BY <1>2, TableInv
<1> HIDE DEF t, table
<1>4. p \in Pages /\ table.pages[p] \in DataPage
  <2>1. p \in Cached(table) BY <1>1, <1>3, FirstCached
  <2> QED BY <1>3, <2>1, TableFields
<1> HIDE DEF p
<1>5. new \in TableType /\ new.next_id = table.next_id
  BY <1>3, <1>4 DEF TableType
<1> HIDE DEF new
<1>6. MapInv' /\ Tables' = Tables BY <1>1, <1>2, <1>3, <1>5, PutInv
<1>7. \A e \in EntriesOf(buckets') : e.key \in AnyName /\ e.value \in TableType
  <2>1. IsMap(buckets') BY <1>6 DEF MapInv
  <2> QED BY <2>1, EntriesTyped
<1>8. {p} \in SUBSET Pages /\ \A i \in {p} : table.pages[i] \in DataPage BY <1>4
<1>9. /\ data' \in [PageNums -> DataPage]
      /\ slots' \in [SlotNums -> HeaderType \cup {Torn}]
      /\ length' \in Nat /\ length <= length'
      /\ \A i \in SlotNums : slots'[i] \in {slots[i], Torn}
  BY <1>1, <1>3, <1>8, FlushTyped DEF TypeInv
<1>10. DiskInv' BY <1>1, <1>9, DiskKept
<1>11. TodoInv' BY <1>1, <1>6 DEF TypeInv, TodoInv
<1>12. TypeOK' BY <1>1, <1>7, <1>9 DEF TypeInv, TypeOK
<1> QED BY <1>6, <1>10, <1>11, <1>12 DEF TypeInv

LEMMA NextTableTyped ==
  ASSUME TypeInv, NextTable
  PROVE  TypeInv'
<1>1. /\ session = "flushing" /\ todo' = Tail(todo) /\ idx' = idx + 1 /\ session' = "storing"
      /\ num_tables' = num_tables /\ buckets' = buckets
      /\ count' = count /\ slots' = slots /\ data' = data /\ length' = length
      /\ ending' = ending /\ calm' = calm /\ statements' = statements
  BY DEF NextTable, memory, disk
<1>2. todo # <<>> BY <1>1 DEF TypeInv, TodoInv
<1>3. /\ Len(todo) \in Nat \ {0}
      /\ Len(Tail(todo)) = Len(todo) - 1 /\ Tail(todo) \in Seq(AnyName)
      /\ \A p \in 1 .. Len(Tail(todo)) : Tail(todo)[p] = todo[p + 1] /\ p + 1 \in 1 .. Len(todo)
  BY <1>2, HeadIs
<1>4. /\ idx \in Nat /\ idx + Len(todo) <= MaxTables + 1 /\ Bounds
      /\ \A p \in 1 .. Len(todo) : todo[p] \in Tables
  BY BoundsHold DEF TypeInv, TodoInv
<1>5. idx' \in SlotNums \cup {MaxTables + 5} /\ idx' \in Nat
  BY <1>1, <1>3, <1>4 DEF SlotNums, Bounds
<1>6. idx' + Len(todo') <= MaxTables + 1 BY <1>1, <1>3, <1>4 DEF Bounds
<1>7. \A p \in 1 .. Len(todo') : todo'[p] \in Tables BY <1>1, <1>3, <1>4
<1>8. Tables' = Tables BY <1>1 DEF Tables
<1>9. TodoInv' BY <1>1, <1>5, <1>6, <1>7, <1>8 DEF TodoInv
<1>10. MapInv' BY <1>1 DEF TypeInv, MapInv, Numbered
<1>11. DiskInv' BY <1>1 DEF TypeInv, DiskInv
<1>12. TypeOK' BY <1>1, <1>3, <1>5 DEF TypeInv, TypeOK
<1> QED BY <1>9, <1>10, <1>11, <1>12 DEF TypeInv

\* The process forgets everything.
LEMMA ForgetTyped ==
  ASSUME TypeInv, Forget, ending' \in {"safe", "full", "exit", "lost"}, calm' \in BOOLEAN
  PROVE  TypeInv'
<1>1. /\ session' = "closed" /\ num_tables' = 0 /\ buckets' = NoEntries(Capacity)
      /\ todo' = <<>> /\ idx' = 0 /\ count' = count /\ slots' = slots /\ data' = data
      /\ length' = length /\ statements' = statements
  BY DEF Forget, disk
<1>2. Bounds BY BoundsHold
<1>3. /\ IsMap(buckets') /\ EntriesOf(buckets') = {} /\ IsFiniteSet(EntriesOf(buckets'))
      /\ Cardinality(EntriesOf(buckets')) = 0
  BY <1>1, <1>2, EmptyMap DEF Bounds
<1>4. MapInv' BY <1>1, <1>3 DEF MapInv
<1>5. TodoInv'
  <2>1. Len(todo') = 0 /\ 1 .. 0 = {} BY <1>1
  <2>2. 0 + 0 <= MaxTables + 1 BY <1>2 DEF Bounds
  <2> QED BY <1>1, <2>1, <2>2 DEF TodoInv
<1>6. DiskInv' BY <1>1 DEF TypeInv, DiskInv
<1>7. 0 \in SlotNums /\ 0 \in 0 .. MaxTables + 1 BY <1>2 DEF SlotNums, Bounds
<1>8. <<>> \in Seq(AnyName) OBVIOUS
<1>9. TypeOK' BY <1>1, <1>3, <1>7, <1>8 DEF TypeInv, TypeOK
<1> QED BY <1>4, <1>5, <1>6, <1>9 DEF TypeInv

\* header_table_initialize makes a table of every header.
LEMMA RestoredTable ==
  ASSUME TypeInv, NEW h \in HeaderType
  PROVE  /\ Restored(h) \in TableType /\ Loaded(Restored(h))
         /\ Restored(h).num_rows = h.num_rows /\ Restored(h).next_id = h.next_id
         /\ Restored(h).page_offset = h.page_offset
         /\ \A i \in LivePages(Restored(h)) : Restored(h).pages[i] = data[h.page_offset + i]
<1> DEFINE table == Restored(h)
           pages == [i \in Pages |-> IF i < h.num_rows THEN data[h.page_offset + i] ELSE Uncached]
<1>1. /\ h.num_rows \in 0 .. MaxRows /\ h.next_id \in 0 .. MaxId + 1 /\ h.page_offset \in Offsets
      /\ data \in [PageNums -> DataPage] /\ Bounds
  BY BoundsHold DEF HeaderType, TypeInv, TypeOK
<1>2. table = [num_rows |-> h.num_rows, next_id |-> h.next_id, page_offset |-> h.page_offset,
               pages |-> pages]
  BY DEF Restored
<1>3. ASSUME NEW i \in Pages PROVE data[h.page_offset + i] \in DataPage
  <2>1. h.page_offset + i \in PageNums
    BY <1>1 DEF Offsets, Pages, RowNums, PageNums, Bounds
  <2> QED BY <1>1, <2>1
<1>4. pages \in [Pages -> DataPage \cup {Uncached}] BY <1>3
<1>5. table \in TableType BY <1>1, <1>2, <1>4 DEF TableType
<1>6. ASSUME NEW i \in LivePages(table)
      PROVE  pages[i] = data[h.page_offset + i] /\ pages[i] # Uncached
  <2>1. PICK r \in 0 .. h.num_rows - 1 : i = PageOf(r) BY <1>2 DEF LivePages
  <2>2. r \in Nat BY <1>1
  <2>3. i \in Nat /\ i <= r BY <2>1, <2>2, PageIs
  <2>4. i \in Pages /\ i < h.num_rows
    <3>1. r < h.num_rows /\ h.num_rows \in Nat /\ h.num_rows <= MaxRows BY <1>1, <2>2
    <3> QED BY <1>1, <2>2, <2>3, <3>1 DEF Pages, RowNums, Bounds
  <2>5. pages[i] = data[h.page_offset + i] BY <2>4
  <2> QED BY <1>3, <2>4, <2>5, MarkersAssumption
<1> HIDE DEF table, pages
<1>7. table.pages = pages BY <1>2
<1>8. Loaded(table) BY <1>6, <1>7 DEF Loaded
<1> QED BY <1>2, <1>5, <1>6, <1>7, <1>8 DEF table

\* The headers that a readable file counts are headers.
LEMMA ReadableHeaders ==
  ASSUME TypeInv, \A k \in 0 .. count - 1 : slots[k] # Torn
  PROVE  /\ count \in Nat /\ \A k \in 0 .. count - 1 : k \in SlotNums /\ slots[k] \in HeaderType
         /\ HeadersTyped
<1>1. count \in 0 .. MaxTables + 1 /\ Bounds /\ slots \in [SlotNums -> HeaderType \cup {Torn}]
  BY BoundsHold DEF TypeInv, TypeOK
<1>2. \A k \in 0 .. count - 1 : k \in SlotNums BY <1>1 DEF SlotNums, Bounds
<1>3. \A k \in 0 .. count - 1 : slots[k] \in HeaderType BY <1>1, <1>2
<1>4. \A k \in 0 .. count - 1 : slots[k].name \in AnyName BY <1>3 DEF HeaderType
<1>5. \A k \in 0 .. count - 1 : Restored(slots[k]) \in TableType BY <1>3, RestoredTable
<1> QED BY <1>1, <1>2, <1>3, <1>4, <1>5 DEF HeadersTyped

LEMMA ReadableIs ==
  ASSUME count \in Nat
  PROVE  Readable <=> LongEnough /\ \A k \in 0 .. count - 1 : slots[k] # Torn
<1>1. DOMAIN Headers = 1 .. count /\ \A n \in 1 .. count : Headers[n] = slots[n - 1]
  BY DEF Headers
<1>2. ASSUME Readable, NEW k \in 0 .. count - 1 PROVE slots[k] # Torn
  <2>1. k + 1 \in 1 .. count /\ (k + 1) - 1 = k OBVIOUS
  <2>2. Headers[k + 1] # Torn BY <1>1, <1>2, <2>1 DEF Readable
  <2> QED BY <1>1, <2>1, <2>2
<1>3. ASSUME \A k \in 0 .. count - 1 : slots[k] # Torn, NEW n \in DOMAIN Headers
      PROVE  Headers[n] # Torn
  <2>1. n \in 1 .. count /\ n - 1 \in 0 .. count - 1 BY <1>1
  <2> QED BY <1>1, <1>3, <2>1
<1> QED BY <1>2, <1>3 DEF Readable

LEMMA OpenTyped ==
  ASSUME TypeInv, Open
  PROVE  TypeInv'
<1>1. /\ session = "closed" /\ Readable /\ session' = "open" /\ num_tables' = count
      /\ buckets' = RestoredMap /\ todo' = todo /\ idx' = idx
      /\ count' = count /\ slots' = slots /\ data' = data /\ length' = length
      /\ ending' = ending /\ calm' = calm /\ statements' = statements
  BY DEF Open, disk
<1>2. count \in 0 .. MaxTables + 1 /\ count \in Nat
  BY BoundsHold DEF TypeInv, TypeOK, Bounds
<1>3. \A k \in 0 .. count - 1 : slots[k] # Torn BY <1>1, <1>2, ReadableIs
<1>4. /\ \A k \in 0 .. count - 1 : k \in SlotNums /\ slots[k] \in HeaderType
      /\ HeadersTyped
  BY <1>3, ReadableHeaders
<1>5. RestoredTo(RestoredMap, count) BY <1>4, RestoredIs
<1>6. ASSUME NEW e \in EntriesOf(RestoredMap) PROVE Numbered(e) /\ Loaded(e.value)
  <2>1. PICK k \in 0 .. count - 1 : e = StoredEntry(k) BY <1>5 DEF RestoredTo
  <2>2. e.key = slots[k].name /\ e.value = Restored(slots[k]) BY <2>1 DEF StoredEntry, Entry
  <2>3. Loaded(e.value) /\ e.value.next_id = slots[k].next_id BY <1>4, <2>2, RestoredTable
  <2>4. slots[k].name \in Names => slots[k].next_id >= 1
    BY <1>3, <1>4 DEF TypeInv, DiskInv
  <2> QED BY <2>2, <2>3, <2>4 DEF Numbered
<1>7. MapInv' BY <1>1, <1>5, <1>6 DEF RestoredTo, MapInv, Numbered, Loaded
<1>8. todo = <<>> BY <1>1 DEF TypeInv, TodoInv
<1>9. TodoInv'
  <2>1. Len(todo') = 0 /\ 1 .. 0 = {} BY <1>1, <1>8
  <2> QED BY <1>1, <1>8, <2>1 DEF TypeInv, TodoInv
<1>10. DiskInv' BY <1>1 DEF TypeInv, DiskInv
<1>11. \A e \in EntriesOf(buckets') : e.key \in AnyName /\ e.value \in TableType
  <2>1. IsMap(buckets') BY <1>7 DEF MapInv
  <2> QED BY <2>1, EntriesTyped
<1>12. TypeOK' BY <1>1, <1>2, <1>11 DEF TypeInv, TypeOK
<1> QED BY <1>7, <1>9, <1>10, <1>12 DEF TypeInv

LEMMA OpenTornTyped ==
  ASSUME TypeInv, OpenTorn
  PROVE  TypeInv'
<1>1. /\ session = "closed" /\ session' = "undefined" /\ num_tables' = num_tables
      /\ buckets' = buckets /\ todo' = todo /\ idx' = idx
      /\ count' = count /\ slots' = slots /\ data' = data /\ length' = length
      /\ ending' = ending /\ calm' = calm /\ statements' = statements
  BY DEF OpenTorn, memory, disk
<1>2. MapInv' BY <1>1 DEF TypeInv, MapInv, Numbered
<1>3. TodoInv' BY <1>1 DEF TypeInv, TodoInv, Tables
<1>4. DiskInv' BY <1>1 DEF TypeInv, DiskInv
<1>5. TypeOK' BY <1>1 DEF TypeInv, TypeOK
<1> QED BY <1>2, <1>3, <1>4, <1>5 DEF TypeInv

LEMMA SameTyped ==
  ASSUME TypeInv, UNCHANGED vars
  PROVE  TypeInv'
<1>1. /\ session' = session /\ num_tables' = num_tables
      /\ buckets' = buckets /\ todo' = todo /\ idx' = idx
      /\ count' = count /\ slots' = slots /\ data' = data /\ length' = length
      /\ ending' = ending /\ calm' = calm /\ statements' = statements
  BY DEF vars, memory, disk
<1>2. MapInv' BY <1>1 DEF TypeInv, MapInv, Numbered, Loaded
<1>3. TodoInv' BY <1>1 DEF TypeInv, TodoInv, Tables
<1>4. DiskInv' BY <1>1 DEF TypeInv, DiskInv
<1>5. TypeOK' BY <1>1 DEF TypeInv, TypeOK
<1> QED BY <1>2, <1>3, <1>4, <1>5 DEF TypeInv

LEMMA InitTyped ==
  ASSUME Init
  PROVE  TypeInv
<1>1. /\ session = "closed" /\ num_tables = 0 /\ buckets = NoEntries(Capacity)
      /\ todo = <<>> /\ idx = 0 /\ count = 0 /\ slots = [i \in SlotNums |-> ZeroHeader]
      /\ data = [p \in PageNums |-> BlankPage] /\ length = 0
      /\ ending = "safe" /\ calm = TRUE /\ statements = 0
  BY DEF Init
<1>2. Bounds BY BoundsHold
<1>3. /\ IsMap(buckets) /\ EntriesOf(buckets) = {} /\ IsFiniteSet(EntriesOf(buckets))
      /\ Cardinality(EntriesOf(buckets)) = 0
  BY <1>1, <1>2, EmptyMap DEF Bounds
<1>4. MapInv BY <1>1, <1>3 DEF MapInv
<1>5. TodoInv
  <2>1. Len(todo) = 0 /\ 1 .. 0 = {} BY <1>1
  <2>2. 0 + 0 <= MaxTables + 1 BY <1>2 DEF Bounds
  <2> QED BY <1>1, <2>1, <2>2 DEF TodoInv
<1>6. ZeroHeader \in HeaderType /\ ZeroHeader.name \notin Names
  <2>1. 0 \in Offsets /\ 0 \in 0 .. MaxRows /\ 0 \in 0 .. MaxId + 1
    BY <1>2 DEF Offsets, Bounds
  <2> QED BY <2>1, DatabaseAssumption DEF ZeroHeader, HeaderType, AnyName
<1>7. DiskInv BY <1>1, <1>6 DEF DiskInv
<1>8. 0 \in SlotNums /\ 0 \in 0 .. MaxTables + 1 /\ 0 \in 0 .. MaxStatements
  BY <1>2 DEF SlotNums, Bounds
<1>9. <<>> \in Seq(AnyName) OBVIOUS
<1>10. BlankPage \in DataPage BY DEF BlankPage, DataPage, PageSlots
<1>11. /\ slots \in [SlotNums -> HeaderType \cup {Torn}] /\ data \in [PageNums -> DataPage]
  BY <1>1, <1>6, <1>10
<1>12. TypeOK BY <1>1, <1>3, <1>8, <1>9, <1>11 DEF TypeOK
<1> QED BY <1>4, <1>5, <1>7, <1>12 DEF TypeInv

LEMMA StepTyped ==
  ASSUME TypeInv, [Next]_vars
  PROVE  TypeInv'
<1> DEFINE Endings == {"safe", "full", "exit", "lost"}
<1>1. ending \in Endings /\ calm \in BOOLEAN BY DEF TypeInv, TypeOK
<1>2. ASSUME NEW t \in Names, CreateTable(t) PROVE TypeInv' BY <1>2, CreateTyped
<1>3. ASSUME NEW t \in Names, DropTable(t) PROVE TypeInv' BY <1>3, DropTyped
<1>4. ASSUME NEW t \in Names, Insert(t) PROVE TypeInv'
  BY <1>4, InsertStep, RowsTyped
<1>5. ASSUME NEW t \in Names, DeleteNone(t) PROVE TypeInv' BY <1>5, DeleteNoneTyped
<1>6. ASSUME NEW t \in Names, NEW r \in RowNums, DeleteRow(t, r) PROVE TypeInv'
  BY <1>6, DeleteRowStep, RowsTyped
<1>7. CASE CloseBegin BY <1>7, CloseBeginTyped
<1>8. CASE StoreHeader
  BY <1>8, StoreHeaderTyped, HeaderLostTyped DEF StoreHeader
<1>9. CASE FlushPage BY <1>9, FlushPageTyped
<1>10. CASE NextTable BY <1>10, NextTableTyped
<1>11. CASE CloseEnd
  <2>1. Forget /\ ending' = ending /\ calm' = calm BY <1>11 DEF CloseEnd
  <2> QED BY <1>1, <2>1, ForgetTyped
<1>12. CASE CloseAborts
  <2>1. Forget /\ ending' = "lost" /\ calm' = FALSE BY <1>12 DEF CloseAborts
  <2> QED BY <2>1, ForgetTyped
<1>13. CASE MetaExit
  <2>1. Forget /\ ending' = "exit" /\ calm' = FALSE BY <1>13 DEF MetaExit
  <2> QED BY <2>1, ForgetTyped
<1>14. CASE Crash
  <2>1. Forget /\ ending' = "lost" /\ calm' = FALSE BY <1>14 DEF Crash
  <2> QED BY <2>1, ForgetTyped
<1>15. CASE Open BY <1>15, OpenTyped
<1>16. CASE OpenRefused BY <1>16, SameTyped DEF OpenRefused
<1>17. CASE OpenTorn BY <1>17, OpenTornTyped
<1>18. CASE UNCHANGED vars BY <1>18, SameTyped
<1> QED BY <1>2, <1>3, <1>4, <1>5, <1>6, <1>7, <1>8, <1>9, <1>10, <1>11, <1>12, <1>13, <1>14,
           <1>15, <1>16, <1>17, <1>18 DEF Next, CloseStep

LEMMA TypeInvariant == Spec => []TypeInv
<1>1. Init => TypeInv BY InitTyped
<1>2. TypeInv /\ [Next]_vars => TypeInv' BY StepTyped
<1> QED BY <1>1, <1>2, PTL DEF Spec

\* Every variable keeps its type: no bound on the tables of one database is
\* exceeded by more than the one table that table_create lets through, no
\* header slot beyond the five on page 0 is written, and what a DELETE copies
\* and a close writes are pages.
THEOREM TypeCorrect == Spec => []TypeOK
<1>1. TypeInv => TypeOK BY DEF TypeInv
<1> QED BY <1>1, TypeInvariant, PTL

-----------------------------------------------------------------------------
(* The directory                                                           *)

\* The file does not get shorter, and of the slots that have room none is
\* destroyed.
DirectoryKept ==
  /\ length \in Nat /\ length' \in Nat /\ length <= length'
  /\ \A i \in SlotNums : i < MaxTables => slots'[i] = slots[i] \/ slots'[i] # Torn

LEMMA SameDirectory ==
  ASSUME TypeInv, length' = length, slots' = slots
  PROVE  DirectoryKept
  BY DEF TypeInv, TypeOK, DirectoryKept

LEMMA DeleteNoneDisk ==
  ASSUME TypeInv, NEW t \in Names, DeleteNone(t)
  PROVE  /\ length' \in Nat /\ length <= length' /\ count' = count
         /\ \A i \in SlotNums : i < MaxTables => slots'[i] = slots[i]
<1> DEFINE I == Cached(Table(t)) \cap {PageOf(Table(t).num_rows)}
<1>1. Statement /\ t \in Tables /\ Flush(Table(t), I) BY DEF DeleteNone
<1>2. Table(t) \in TableType BY <1>1, TableInv
<1>3. I \in SUBSET Pages /\ \A i \in I : Table(t).pages[i] \in DataPage BY <1>2, TableFields
<1> HIDE DEF I
<1>4. count' = count /\ TypeOK BY <1>1 DEF Statement, TypeInv
<1> QED BY <1>1, <1>2, <1>3, <1>4, FlushTyped

LEMMA StoreHeaderIs ==
  ASSUME TypeInv, StoreHeader, HeaderWritten
  PROVE  LET t == Head(todo)
         IN /\ t \in Tables /\ t \in AnyName /\ Table(t) \in TableType /\ idx \in SlotNums
            /\ Header(t, Table(t)) \in HeaderType /\ Header(t, Table(t)) # Torn
            /\ Header(t, Table(t)).name = t
            /\ slots' = [slots EXCEPT ![idx] = Header(t, Table(t))]
            /\ \A i \in SlotNums : slots'[i] = IF i = idx THEN Header(t, Table(t)) ELSE slots[i]
            /\ idx < MaxTables => data' = data
            /\ length' = Larger(length, LengthToSlot(idx)) /\ length' \in Nat /\ length <= length'
            /\ length' >= idx + 2
<1> DEFINE t == Head(todo)
<1>1. /\ todo # <<>> /\ slots' = [slots EXCEPT ![idx] = Header(t, Table(t))]
      /\ data' = (IF idx >= MaxTables THEN [data EXCEPT ![0] = TornPage] ELSE data)
      /\ length' = Larger(length, LengthToSlot(idx))
  BY DEF StoreHeader, HeaderWritten, WriteSlot
<1>2. t \in Tables BY <1>1, HeadIs
<1>3. t \in AnyName /\ Table(t) \in TableType BY <1>2, TableInv
<1> HIDE DEF t
<1>4. /\ Header(t, Table(t)) \in HeaderType /\ Header(t, Table(t)) # Torn
      /\ Header(t, Table(t)).name = t
  BY <1>3, HeaderIs
<1>5. /\ slots \in [SlotNums -> HeaderType \cup {Torn}]
      /\ length \in Nat /\ idx \in Nat /\ idx + Len(todo) <= MaxTables + 1 /\ Len(todo) \in Nat \ {0}
      /\ Bounds
  BY <1>1, HeadIs, BoundsHold DEF TypeInv, TypeOK, TodoInv
<1>6. idx \in SlotNums BY <1>5 DEF SlotNums, Bounds
<1>7. \A i \in SlotNums : slots'[i] = IF i = idx THEN Header(t, Table(t)) ELSE slots[i]
  BY <1>1, <1>5, <1>6
<1>8. idx < MaxTables => data' = data BY <1>1, <1>5 DEF Bounds
<1>9. length' \in Nat /\ length <= length' /\ length' >= idx + 2
  BY <1>1, <1>5 DEF Larger, LengthToSlot
<1> QED BY <1>1, <1>2, <1>3, <1>4, <1>6, <1>7, <1>8, <1>9 DEF t

LEMMA FlushPageIs ==
  ASSUME TypeInv, FlushPage
  PROVE  LET t == Head(todo)
             table == Table(t)
             p == Min(Cached(table))
             new == [table EXCEPT !.pages[p] = Uncached]
         IN /\ t \in Tables /\ table \in TableType /\ p \in Cached(table) /\ p \in Pages
            /\ table.pages[p] \in DataPage
            /\ new \in TableType /\ new.num_rows = table.num_rows /\ new.next_id = table.next_id
            /\ new.page_offset = table.page_offset
            /\ new.pages = [table.pages EXCEPT ![p] = Uncached]
            /\ Flush(table, {p}) /\ buckets' = Put(buckets, t, new)
            /\ length' \in Nat /\ length <= length'
            /\ \A i \in SlotNums : i < MaxTables => slots'[i] = slots[i]
<1> DEFINE t == Head(todo)
           table == Table(t)
           p == Min(Cached(table))
           new == [table EXCEPT !.pages[p] = Uncached]
<1>1. /\ session = "flushing" /\ Cached(table) # {} /\ Flush(table, {p})
      /\ buckets' = Put(buckets, t, new)
  BY DEF FlushPage
<1>2. t \in Tables
  <2>1. todo # <<>> BY <1>1 DEF TypeInv, TodoInv
  <2> QED BY <2>1, HeadIs
<1>3. table \in TableType BY <1>2, TableInv
<1> HIDE DEF t, table
<1>4. p \in Cached(table) /\ p \in Pages /\ table.pages[p] \in DataPage
  <2>1. p \in Cached(table) BY <1>1, <1>3, FirstCached
  <2> QED BY <1>3, <2>1, TableFields
<1> HIDE DEF p
<1>5. /\ new \in TableType /\ new.num_rows = table.num_rows /\ new.next_id = table.next_id
      /\ new.page_offset = table.page_offset
      /\ new.pages = [table.pages EXCEPT ![p] = Uncached]
  BY <1>3, <1>4 DEF TableType
<1>6. {p} \in SUBSET Pages /\ \A i \in {p} : table.pages[i] \in DataPage BY <1>4
<1>7. /\ length' \in Nat /\ length <= length'
      /\ \A i \in SlotNums : i < MaxTables => slots'[i] = slots[i]
  BY <1>1, <1>3, <1>6, FlushTyped DEF TypeInv
<1> QED BY <1>1, <1>2, <1>3, <1>4, <1>5, <1>7 DEF t, table, p, new

LEMMA DirectoryStep ==
  ASSUME TypeInv, [Next]_vars
  PROVE  DirectoryKept
<1>1. length \in Nat BY DEF TypeInv, TypeOK
<1>2. ASSUME NEW t \in Names, CreateTable(t) \/ DropTable(t) PROVE DirectoryKept
  BY <1>2, SameDirectory DEF CreateTable, DropTable
<1>3. ASSUME NEW t \in Names, Insert(t) PROVE DirectoryKept
  BY <1>1, <1>3, InsertStep, RowsStepDisk DEF DirectoryKept
<1>4. ASSUME NEW t \in Names, NEW r \in RowNums, DeleteRow(t, r) PROVE DirectoryKept
  BY <1>1, <1>4, DeleteRowStep, RowsStepDisk DEF DirectoryKept
<1>5. ASSUME NEW t \in Names, DeleteNone(t) PROVE DirectoryKept
  BY <1>1, <1>5, DeleteNoneDisk DEF DirectoryKept
<1>f. CASE WriteLost BY <1>f, SameDirectory DEF WriteLost, disk
<1>6. CASE CountWritten
  <2>1. length' = Larger(length, 1) /\ slots' = slots BY <1>6 DEF CountWritten
  <2> QED BY <1>1, <2>1 DEF DirectoryKept, Larger
<1>7. CASE StoreHeader /\ HeaderWritten
  <2>1. /\ Header(Head(todo), Table(Head(todo))) # Torn /\ length' \in Nat /\ length <= length'
        /\ \A i \in SlotNums :
             slots'[i] = IF i = idx THEN Header(Head(todo), Table(Head(todo))) ELSE slots[i]
    BY <1>7, StoreHeaderIs
  <2> QED BY <1>1, <2>1 DEF DirectoryKept
<1>8. CASE FlushPage BY <1>1, <1>8, FlushPageIs DEF DirectoryKept
<1>9. CASE NextTable BY <1>9, SameDirectory DEF NextTable, disk
<1>10. CASE CloseEnd BY <1>10, SameDirectory DEF CloseEnd, Forget, disk
<1>11. CASE CloseAborts BY <1>11, SameDirectory DEF CloseAborts, Forget, disk
<1>12. CASE MetaExit BY <1>12, SameDirectory DEF MetaExit, Forget, disk
<1>13. CASE Crash BY <1>13, SameDirectory DEF Crash, Forget, disk
<1>14. CASE Open BY <1>14, SameDirectory DEF Open, disk
<1>15. CASE OpenRefused BY <1>15, SameDirectory DEF OpenRefused, vars, disk
<1>16. CASE OpenTorn BY <1>16, SameDirectory DEF OpenTorn, disk
<1>17. CASE UNCHANGED vars BY <1>17, SameDirectory DEF vars, disk
<1>18. CASE CloseBegin BY <1>f, <1>6, <1>18 DEF CloseBegin
<1>19. CASE StoreHeader BY <1>f, <1>7, <1>19 DEF StoreHeader
<1> QED BY <1>2, <1>3, <1>4, <1>5, <1>8, <1>9, <1>10, <1>11, <1>12, <1>13, <1>14,
           <1>15, <1>16, <1>17, <1>18, <1>19 DEF Next, CloseStep

LEMMA ReadableKept ==
  ASSUME TypeInv, TypeInv', DirectoryKept, Readable, count' <= count, count' <= MaxTables
  PROVE  Readable'
<1> DEFINE c == count'
           l == length'
<1>1. /\ count \in Nat /\ c \in Nat /\ Bounds /\ length \in Nat /\ l \in Nat
      /\ length <= l /\ c <= count /\ c <= MaxTables
  BY BoundsHold DEF TypeInv, TypeOK, Bounds, DirectoryKept
<1>2. LongEnough /\ \A k \in 0 .. count - 1 : slots[k] # Torn BY <1>1, ReadableIs
<1>3. LongEnough'
  <2>1. (length = 0 => count = 0) /\ (length = 0 \/ length >= 1 + count)
    BY <1>2 DEF TypeInv, DiskInv, LongEnough
  <2>2. l = 0 \/ l >= 1 + c
    <3> HIDE DEF c, l
    <3> QED BY <1>1, <2>1
  <2> QED BY <2>2 DEF LongEnough
<1>4. \A k \in 0 .. c - 1 : slots'[k] # Torn
  <2> SUFFICES ASSUME NEW k \in 0 .. c - 1 PROVE slots'[k] # Torn OBVIOUS
  <2>1. k \in 0 .. count - 1 /\ k \in SlotNums /\ k < MaxTables
    <3> HIDE DEF c
    <3> QED BY <1>1 DEF SlotNums, Bounds
  <2> QED BY <1>2, <2>1 DEF DirectoryKept
<1>5. DOMAIN Headers' = 1 .. count' /\ \A n \in 1 .. count' : Headers'[n] = slots'[n - 1]
  BY DEF Headers
<1>6. ASSUME NEW n \in DOMAIN Headers' PROVE Headers'[n] # Torn
  <2>1. n \in 1 .. c BY <1>5
  <2>2. n - 1 \in 0 .. c - 1
    <3> HIDE DEF c
    <3> QED BY <1>1, <2>1
  <2> QED BY <1>4, <1>5, <2>1, <2>2
<1> QED BY <1>3, <1>6 DEF Readable

\* A file that opens goes on doing so: no step of a statement, of a close or of
\* a crash shortens it or destroys a header that it counts, as long as it
\* counts no more of them than before and than have room (pager_page_flush,
\* header_tables_store).
THEOREM DirectoryStays == Spec => DirectoryStaysReadable
<1>1. ASSUME TypeInv, TypeInv', [Next]_vars
      PROVE  [Readable /\ count' <= count /\ count' <= MaxTables => Readable']_vars
  BY <1>1, DirectoryStep, ReadableKept
<1> QED BY <1>1, TypeInvariant, PTL DEF Spec, DirectoryStaysReadable

-----------------------------------------------------------------------------
(* The invariant of the stored and the restored                            *)

Closing == session \in {"storing", "flushing"}
AtRest == session \in {"closed", "undefined"}

\* Nothing was missed or stored twice.
Exact == calm \/ ending = "safe"

\* The header slots written, the tables after them, and the table of slot k.
Done == IF session = "flushing" THEN idx + 1 ELSE idx
Rest == IF session = "flushing" THEN Tail(todo) ELSE todo
Plan(k) == IF k < Done THEN slots[k].name ELSE Rest[k - Done + 1]

\* Tables of one page each, one behind the other.
Tidy(S) ==
  /\ \A e \in S : e.value.num_rows <= RowsPerPage /\ e.value.page_offset < Cardinality(S)
  /\ \A e, f \in S : e.value.page_offset = f.value.page_offset => e.key = f.key
CalmInv ==
  /\ calm => Tidy(EntriesOf(buckets))
  /\ AtRest => EntriesOf(buckets) = {}

\* An exact close writes each table's header to a slot of its own.
StoreInv ==
  Closing /\ Exact =>
    /\ count = Cardinality(EntriesOf(buckets)) /\ count <= MaxTables
    /\ idx + Len(todo) = count /\ length >= 1 + Done
    /\ \A k \in 0 .. count - 1 : Plan(k) \in Tables
    /\ \A k, l \in 0 .. count - 1 : Plan(k) = Plan(l) => k = l
    /\ \A t \in Tables : \E k \in 0 .. count - 1 : Plan(k) = t
    /\ \A k \in 0 .. Done - 1 : slots[k] = Header(Plan(k), Table(Plan(k)))

\* The page a table's row is on, once everything cached is written.
Current(table, i) ==
  IF table.pages[i] = Uncached THEN data[table.page_offset + i] ELSE table.pages[i]
Shown(table) ==
  [r \in 0 .. table.num_rows - 1 |-> Current(table, PageOf(r))[r % RowsPerPage]]

\* A safe close writes no page over another one's rows and misses none.
SafeInv ==
  Closing /\ ending = "safe" =>
    /\ NoStalePages
    /\ expected = [t \in Tables |-> Shown(Table(t))]
    /\ \A t \in Tables : Cached(Table(t)) # {} => \E p \in 1 .. Len(todo) : todo[p] = t

\* The rows that a header and the data pages hold.
Stored(h) ==
  [r \in 0 .. h.num_rows - 1 |-> data[h.page_offset + PageOf(r)][r % RowsPerPage]]
StoredNames == {slots[k].name : k \in 0 .. count - 1}

StoredInv ==
  /\ AtRest /\ Exact => /\ count <= MaxTables /\ LongEnough
                        /\ \A k \in 0 .. count - 1 : slots[k] # Torn
                        /\ NamesDiffer(count)
  /\ AtRest /\ calm =>
       /\ \A k \in 0 .. count - 1 : slots[k].num_rows <= RowsPerPage /\ slots[k].page_offset < count
       /\ \A k, l \in 0 .. count - 1 : slots[k].page_offset = slots[l].page_offset => k = l
  /\ AtRest /\ ending = "safe" =>
       /\ expected = [t \in StoredNames |-> expected[t]]
       /\ \A k \in 0 .. count - 1 : expected[slots[k].name] = Stored(slots[k])

StoreSteps == CalmInv /\ StoreInv /\ SafeInv /\ StoredInv

\* What a table in place of another one leaves tidy.
LEMMA PutTidy ==
  ASSUME NEW b, IsMap(b), IsFiniteSet(EntriesOf(b)), Tidy(EntriesOf(b)), NEW t \in TablesIn(b),
         NEW table \in TableType, table.page_offset = ValueAt(b, t).page_offset,
         table.num_rows <= RowsPerPage
  PROVE  Tidy(EntriesOf(Put(b, t, table)))
<1> DEFINE S == EntriesOf(b)
           T == EntriesOf(Put(b, t, table))
           old == Entry(t, ValueAt(b, t))
<1>1. t \in AnyName /\ old \in S BY TableIs
<1>2. old.key = t /\ old.value.page_offset = table.page_offset BY DEF Entry
<1>3. T = Updated(b, t, table) /\ Cardinality(T) = Cardinality(S) BY <1>1, PutTable
<1>4. Entry(t, table).key = t /\ Entry(t, table).value = table BY DEF Entry
<1> HIDE DEF old, T
<1>5. ASSUME NEW e \in T
      PROVE  /\ e.value.num_rows <= RowsPerPage
             /\ \E f \in S : f.key = e.key /\ f.value.page_offset = e.value.page_offset
  <2>1. CASE e = Entry(t, table) BY <1>1, <1>2, <1>4, <2>1
  <2>2. CASE e \in S BY <2>2 DEF Tidy
  <2> QED BY <1>3, <2>1, <2>2 DEF Updated, Others
<1> HIDE DEF S
<1>6. Tidy(S) BY DEF S
<1>7. \A e \in T : e.value.page_offset < Cardinality(T) BY <1>3, <1>5, <1>6 DEF Tidy
<1>8. ASSUME NEW e \in T, NEW f \in T, e.value.page_offset = f.value.page_offset
      PROVE  e.key = f.key
  <2>1. PICK g \in S : g.key = e.key /\ g.value.page_offset = e.value.page_offset BY <1>5
  <2>2. PICK h \in S : h.key = f.key /\ h.value.page_offset = f.value.page_offset BY <1>5
  <2> QED BY <1>6, <1>8, <2>1, <2>2 DEF Tidy
<1>9. Tidy(T) BY <1>5, <1>7, <1>8 DEF Tidy
<1> QED BY <1>9 DEF T

\* table_position counts the tables before, so a table behind them is apart.
LEMMA CreateTidy ==
  ASSUME TypeInv, CalmInv, NEW t \in Names, CreateTable(t), calm'
  PROVE  Tidy(EntriesOf(buckets'))
<1> DEFINE S == EntriesOf(buckets)
           T == EntriesOf(buckets')
           N == Cardinality(S)
           v == Visits(buckets)
           new == NewTable(Position)
<1>1. /\ t \notin Tables /\ Position + MaxRows <= DataPages
      /\ buckets' = SetTable(buckets, t, new) /\ calm /\ Flat(buckets)
  BY DEF CreateTable
<1>2. IsMap(buckets) /\ IsFiniteSet(S) /\ N \in Nat BY FS_CardinalityType DEF TypeInv, MapInv
<1>3. Tidy(S) BY <1>1 DEF CalmInv
<1>4. v \in Seq(EntriesIn(AnyName, TableType)) /\ Returns(v, S, Flat(buckets))
  BY <1>2, VisitsAre
<1>5. Len(v) = N /\ \A p \in 1 .. Len(v) : v[p] \in S BY <1>1, <1>4 DEF Returns
<1>6. Position = N
  <2>1. \A p \in 1 .. Len(v) : v[p].value.num_rows <= RowsPerPage BY <1>3, <1>5 DEF Tidy
  <2>2. Position = PagesOf(v) BY DEF Position, PagesOf
  <2> HIDE DEF v
  <2> QED BY <1>4, <1>5, <2>1, <2>2, PagesOfIs
<1>7. Position \in Offsets
  <2>1. Bounds BY BoundsHold
  <2> QED BY <1>1, <1>2, <1>6, <2>1 DEF Offsets, Bounds
<1>8. new \in TableType /\ new.num_rows = 0 /\ new.page_offset = N
  BY <1>6, <1>7, NewTableIs DEF NewTable
<1> HIDE DEF new
<1>9. t \in AnyName /\ t \notin TablesIn(buckets) BY <1>1 DEF AnyName, Tables
<1>10. T = Updated(buckets, t, new) /\ Cardinality(T) = N + 1
  BY <1>1, <1>2, <1>8, <1>9, SetTableKeeps
<1>11. Entry(t, new).key = t /\ Entry(t, new).value = new BY DEF Entry
<1>12. \A e \in S : e.value.page_offset \in Nat
  <2>1. \A e \in S : e.value \in TableType BY <1>2, EntriesTyped
  <2> QED BY <2>1, TableFields DEF Offsets
<1>13. \A e \in T : e \in S \/ e = Entry(t, new) BY <1>10 DEF Updated, Others
<1> HIDE DEF S, T, N
<1>14. RowsPerPage \in Nat BY BoundsHold DEF Bounds
<1>15. \A e \in S : e.value.num_rows <= RowsPerPage /\ e.value.page_offset < N
  BY <1>3 DEF Tidy, N
<1>16. ASSUME NEW e \in T
       PROVE  e.value.num_rows <= RowsPerPage /\ e.value.page_offset < Cardinality(T)
  BY <1>2, <1>8, <1>10, <1>11, <1>12, <1>13, <1>14, <1>15
<1>17. ASSUME NEW e \in T, NEW f \in T, e.value.page_offset = f.value.page_offset
       PROVE  e.key = f.key
  <2>1. CASE e \in S /\ f \in S BY <1>3, <1>17, <2>1 DEF Tidy
  <2>2. CASE e \in S /\ f = Entry(t, new) BY <1>2, <1>8, <1>11, <1>12, <1>15, <1>17, <2>2
  <2>3. CASE f \in S /\ e = Entry(t, new) BY <1>2, <1>8, <1>11, <1>12, <1>15, <1>17, <2>3
  <2>4. CASE e = Entry(t, new) /\ f = Entry(t, new) BY <2>4
  <2> QED BY <1>13, <2>1, <2>2, <2>3, <2>4
<1>18. Tidy(T) BY <1>16, <1>17 DEF Tidy
<1> QED BY <1>18 DEF T

\* An exact file is readable, and the tables it holds are those of its headers.
LEMMA StoredHeaders ==
  ASSUME TypeInv, StoredInv, AtRest, Exact
  PROVE  /\ count \in Nat /\ HeadersTyped /\ Readable
         /\ \A k \in 0 .. count - 1 : k \in SlotNums /\ slots[k] \in HeaderType
         /\ RestoredTo(RestoredMap, count) /\ NamesDiffer(count)
<1>1. LongEnough /\ (\A k \in 0 .. count - 1 : slots[k] # Torn) /\ NamesDiffer(count)
  BY DEF StoredInv
<1>2. /\ count \in Nat /\ HeadersTyped
      /\ \A k \in 0 .. count - 1 : k \in SlotNums /\ slots[k] \in HeaderType
  BY <1>1, ReadableHeaders
<1> QED BY <1>1, <1>2, ReadableIs, RestoredIs

LEMMA OpenTidy ==
  ASSUME TypeInv, StoredInv, Open, calm
  PROVE  Tidy(EntriesOf(RestoredMap))
<1> DEFINE S == EntriesOf(RestoredMap)
<1>1. AtRest /\ Exact BY DEF Open, AtRest, Exact
<1>2. /\ count \in Nat /\ \A k \in 0 .. count - 1 : slots[k] \in HeaderType
      /\ RestoredTo(RestoredMap, count) /\ NamesDiffer(count)
  BY <1>1, StoredHeaders
<1>3. Cardinality(S) = count /\ \A e \in S : \E k \in 0 .. count - 1 : e = StoredEntry(k)
  BY <1>2 DEF RestoredTo
<1>4. ASSUME NEW k \in 0 .. count - 1
      PROVE  /\ StoredEntry(k).key = slots[k].name
             /\ StoredEntry(k).value.num_rows = slots[k].num_rows
             /\ StoredEntry(k).value.page_offset = slots[k].page_offset
  <2>1. slots[k] \in HeaderType BY <1>2
  <2> QED BY <2>1, RestoredTable DEF StoredEntry, Entry
<1>5. /\ \A k \in 0 .. count - 1 : slots[k].num_rows <= RowsPerPage /\ slots[k].page_offset < count
      /\ \A k, l \in 0 .. count - 1 : slots[k].page_offset = slots[l].page_offset => k = l
  BY <1>1 DEF StoredInv
<1> HIDE DEF S
<1>6. \A e \in S : e.value.num_rows <= RowsPerPage /\ e.value.page_offset < Cardinality(S)
  BY <1>3, <1>4, <1>5
<1>7. ASSUME NEW e \in S, NEW f \in S, e.value.page_offset = f.value.page_offset
      PROVE  e.key = f.key
  <2>1. PICK k \in 0 .. count - 1 : e = StoredEntry(k) BY <1>3
  <2>2. PICK l \in 0 .. count - 1 : f = StoredEntry(l) BY <1>3
  <2>3. k = l BY <1>4, <1>5, <1>7, <2>1, <2>2
  <2> QED BY <2>1, <2>2, <2>3
<1>8. Tidy(S) BY <1>6, <1>7 DEF Tidy
<1> QED BY <1>8 DEF S

LEMMA SameCalm ==
  ASSUME CalmInv, buckets' = buckets, calm' => calm, AtRest' => AtRest
  PROVE  CalmInv'
  BY DEF CalmInv, Tidy

LEMMA OpenSession ==
  ASSUME session' = "open"
  PROVE  ~AtRest' /\ ~Closing'
  BY DEF AtRest, Closing

LEMMA RowsCalm ==
  ASSUME TypeInv, CalmInv, NEW t \in Names, NEW new, NEW I, RowsStep(t, new, I)
  PROVE  CalmInv'
<1>1. /\ session' = "open" /\ t \in Tables /\ new \in TableType
      /\ new.page_offset = Table(t).page_offset
      /\ buckets' = Put(buckets, t, new) /\ (calm' => calm)
      /\ (calm' /\ Table(t).num_rows <= RowsPerPage => new.num_rows <= RowsPerPage)
  BY DEF RowsStep, Statement
<1>2. IsMap(buckets) /\ IsFiniteSet(EntriesOf(buckets)) BY DEF TypeInv, MapInv
<1>3. Entry(t, Table(t)) \in EntriesOf(buckets) /\ Entry(t, Table(t)).value = Table(t)
  BY <1>1, TableInv DEF Entry
<1>4. ASSUME calm' PROVE Tidy(EntriesOf(buckets'))
  <2>1. Tidy(EntriesOf(buckets)) BY <1>1, <1>4 DEF CalmInv
  <2>2. new.num_rows <= RowsPerPage BY <1>1, <1>3, <1>4, <2>1 DEF Tidy
  <2>3. t \in TablesIn(buckets) /\ Table(t) = ValueAt(buckets, t) BY <1>1 DEF Tables, Table
  <2> QED BY <1>1, <1>2, <2>1, <2>2, <2>3, PutTidy
<1> QED BY <1>1, <1>4, OpenSession DEF CalmInv, Tidy

LEMMA FlushCalm ==
  ASSUME TypeInv, CalmInv, FlushPage
  PROVE  CalmInv'
<1> DEFINE t == Head(todo)
           table == Table(t)
           new == [table EXCEPT !.pages[Min(Cached(table))] = Uncached]
<1>1. session = "flushing" /\ session' = session /\ calm' = calm BY DEF FlushPage
<1>2. /\ t \in Tables /\ new \in TableType /\ new.num_rows = table.num_rows
      /\ new.page_offset = table.page_offset /\ buckets' = Put(buckets, t, new)
  BY FlushPageIs
<1> HIDE DEF new, t
<1>3. IsMap(buckets) /\ IsFiniteSet(EntriesOf(buckets)) BY DEF TypeInv, MapInv
<1>4. Entry(t, table) \in EntriesOf(buckets) /\ Entry(t, table).value = table
  BY <1>2, TableInv DEF Entry
<1>5. ASSUME calm' PROVE Tidy(EntriesOf(buckets'))
  <2>1. Tidy(EntriesOf(buckets)) BY <1>1, <1>5 DEF CalmInv
  <2>2. new.num_rows <= RowsPerPage BY <1>2, <1>4, <2>1 DEF Tidy
  <2>3. t \in TablesIn(buckets) /\ table = ValueAt(buckets, t) BY <1>2 DEF Tables, Table
  <2> QED BY <1>2, <1>3, <2>1, <2>2, <2>3, PutTidy
<1>6. ~AtRest' BY <1>1 DEF AtRest
<1> QED BY <1>5, <1>6 DEF CalmInv, Tidy

LEMMA ForgetCalm ==
  ASSUME Forget
  PROVE  CalmInv'
<1>1. buckets' = NoEntries(Capacity) /\ Bounds BY BoundsHold DEF Forget
<1>2. EntriesOf(buckets') = {} BY <1>1, EmptyMap DEF Bounds
<1> QED BY <1>2 DEF CalmInv, Tidy

LEMMA CalmStep ==
  ASSUME TypeInv, CalmInv, StoredInv, [Next]_vars
  PROVE  CalmInv'
<1>1. ASSUME NEW t \in Names, CreateTable(t) PROVE CalmInv'
  <2>1. session' = "open" BY <1>1 DEF CreateTable, Statement
  <2>2. calm' => Tidy(EntriesOf(buckets')) BY <1>1, CreateTidy
  <2> QED BY <2>1, <2>2, OpenSession DEF CalmInv, Tidy
<1>2. ASSUME NEW t \in Names, DropTable(t) PROVE CalmInv'
  <2>1. session' = "open" /\ calm' = FALSE BY <1>2 DEF DropTable, Statement
  <2> QED BY <2>1, OpenSession DEF CalmInv
<1>3. ASSUME NEW t \in Names, Insert(t) PROVE CalmInv' BY <1>3, InsertStep, RowsCalm
<1>4. ASSUME NEW t \in Names, NEW r \in RowNums, DeleteRow(t, r) PROVE CalmInv'
  BY <1>4, DeleteRowStep, RowsCalm
<1>5. ASSUME NEW t \in Names, DeleteNone(t) PROVE CalmInv'
  <2>1. session' = "open" /\ buckets' = buckets /\ calm' = calm
    BY <1>5 DEF DeleteNone, Statement, memory
  <2> QED BY <2>1, OpenSession, SameCalm
<1>6. CASE CloseBegin
  <2>1. session' = "storing" /\ buckets' = buckets /\ (calm' => calm)
    BY <1>6 DEF CloseBegin, CountWritten, WriteLost, memory
  <2> QED BY <2>1, SameCalm DEF AtRest
<1>7. CASE StoreHeader
  <2>1. session' = "flushing" /\ buckets' = buckets /\ (calm' => calm)
    BY <1>7 DEF StoreHeader, HeaderWritten, WriteLost, memory
  <2> QED BY <2>1, SameCalm DEF AtRest
<1>8. CASE FlushPage BY <1>8, FlushCalm
<1>9. CASE NextTable
  <2>1. session' = "storing" /\ buckets' = buckets /\ calm' = calm
    BY <1>9 DEF NextTable, memory
  <2> QED BY <2>1, SameCalm DEF AtRest
<1>10. CASE CloseEnd \/ CloseAborts \/ MetaExit \/ Crash
  BY <1>10, ForgetCalm DEF CloseEnd, CloseAborts, MetaExit, Crash
<1>11. CASE Open
  <2>1. session' = "open" /\ buckets' = RestoredMap /\ calm' = calm BY <1>11 DEF Open
  <2>2. calm => Tidy(EntriesOf(RestoredMap)) BY <1>11, OpenTidy
  <2> QED BY <2>1, <2>2, OpenSession DEF CalmInv, Tidy
<1>12. CASE OpenTorn
  <2>1. session = "closed" /\ buckets' = buckets /\ calm' = calm BY <1>12 DEF OpenTorn, memory
  <2> QED BY <2>1, SameCalm DEF AtRest
<1>13. CASE OpenRefused \/ UNCHANGED vars
  <2>1. session' = session /\ buckets' = buckets /\ calm' = calm
    BY <1>13 DEF OpenRefused, vars, memory
  <2> QED BY <2>1, SameCalm DEF AtRest
<1> QED BY <1>1, <1>2, <1>3, <1>4, <1>5, <1>6, <1>7, <1>8, <1>9, <1>10, <1>11, <1>12, <1>13
        DEF Next, CloseStep

-----------------------------------------------------------------------------
(* The steps of a close                                                    *)

\* What is not exact, or in a session, promises nothing.
LEMMA NothingPromised ==
  ASSUME session' = "open" \/ (ending' # "safe" /\ ~calm')
  PROVE  StoreInv' /\ SafeInv' /\ StoredInv'
  BY DEF StoreInv, SafeInv, StoredInv, Closing, AtRest, Exact

\* Through a close every slot keeps its table.
LEMMA PlanIs ==
  ASSUME StoreInv, Closing, Exact
  PROVE  /\ count = Cardinality(EntriesOf(buckets)) /\ count <= MaxTables
         /\ idx + Len(todo) = count /\ length >= 1 + Done
         /\ \A k \in 0 .. count - 1 : Plan(k) \in Tables
         /\ \A k, l \in 0 .. count - 1 : Plan(k) = Plan(l) => k = l
         /\ \A t \in Tables : \E k \in 0 .. count - 1 : Plan(k) = t
         /\ \A k \in 0 .. Done - 1 : slots[k] = Header(Plan(k), Table(Plan(k)))
  BY DEF StoreInv

\* A count that fits counts the entries.
LEMMA FitMeans ==
  ASSUME TypeInv, HeadersFit
  PROVE  /\ num_tables = Cardinality(EntriesOf(buckets)) /\ num_tables <= MaxTables
         /\ Flat(buckets) /\ num_tables \in Nat
<1> DEFINE E == EntriesOf(buckets)
<1>1. IsFiniteSet(E) /\ Cardinality(E) <= num_tables BY DEF TypeInv, MapInv
<1>2. Cardinality(Tables) <= Cardinality(E) /\ IsFiniteSet(Tables)
  <2> DEFINE f == [e \in E |-> e.key]
  <2>1. f \in Surjection(E, Tables)
    <3>1. Tables = {f[e] : e \in E} BY DEF Tables, TablesIn
    <3>2. f \in [E -> Tables] BY <3>1
    <3>3. \A t \in Tables : \E e \in E : f[e] = t BY <3>1
    <3> QED BY <3>2, <3>3 DEF Surjection
  <2> HIDE DEF f, E
  <2> QED BY <1>1, <2>1, FS_Surjection
<1>3. num_tables = Cardinality(Tables) /\ num_tables <= MaxTables /\ Flat(buckets) BY DEF HeadersFit
<1>4. Cardinality(E) \in Nat /\ Cardinality(Tables) \in Nat BY <1>1, <1>2, FS_CardinalityType
<1> HIDE DEF E
<1>5. num_tables = Cardinality(E) BY <1>1, <1>2, <1>3, <1>4
<1> QED BY <1>3, <1>4, <1>5 DEF E

\* What is shown of a table whose pages are loaded.
LEMMA ShownIs ==
  ASSUME NEW table \in TableType, Loaded(table)
  PROVE  Shown(table) = [r \in 0 .. table.num_rows - 1 |-> RowAt(table, r)]
<1>1. ASSUME NEW r \in 0 .. table.num_rows - 1
      PROVE  Current(table, PageOf(r))[r % RowsPerPage] = RowAt(table, r)
  <2>1. PageOf(r) \in LivePages(table) BY TableFields
  <2>2. table.pages[PageOf(r)] # Uncached BY <2>1 DEF Loaded
  <2> QED BY <2>2 DEF Current, RowAt
<1> QED BY <1>1 DEF Shown

LEMMA CloseBeginStores ==
  ASSUME TypeInv, CloseBegin, CountWritten
  PROVE  StoreInv' /\ SafeInv' /\ StoredInv'
<1> DEFINE v == Visits(buckets)
           E == EntriesOf(buckets)
           N == Cardinality(E)
<1>1. /\ session = "open" /\ session' = "storing" /\ count' = num_tables
      /\ length' = Larger(length, 1) /\ todo' = [n \in DOMAIN v |-> v[n].key] /\ idx' = 0
      /\ ending' = (IF HeadersFit /\ NoStalePages THEN "safe" ELSE "full")
      /\ expected' = ContentsOf(buckets)
      /\ calm' = (calm /\ HeadersFit) /\ num_tables' = num_tables /\ buckets' = buckets
      /\ slots' = slots /\ data' = data
  BY DEF CloseBegin, CountWritten, memory
<1>2. StoredInv' BY <1>1 DEF StoredInv, AtRest
<1>3. Tables' = Tables BY <1>1 DEF Tables
<1>4. \A t : Table(t)' = Table(t) BY <1>1 DEF Table
<1>5. IsMap(buckets) BY DEF TypeInv, MapInv
<1>6. v \in Seq(EntriesIn(AnyName, TableType)) /\ Returns(v, E, Flat(buckets))
  BY <1>5, VisitsAre
<1>7. Len(v) \in Nat /\ DOMAIN v = 1 .. Len(v) BY <1>6
<1>8. todo' = [n \in 1 .. Len(v) |-> v[n].key] BY <1>1, <1>7
<1>9. Len(todo') = Len(v) /\ \A p \in 1 .. Len(v) : todo'[p] = v[p].key
  BY <1>7, <1>8
<1>10. Done' = 0 /\ Rest' = todo' BY <1>1 DEF Done, Rest
<1>11. ASSUME HeadersFit
       PROVE  /\ count' = N /\ count' <= MaxTables /\ N \in Nat /\ Len(v) = N
              /\ \A p, q \in 1 .. N : todo'[p] = todo'[q] => p = q
              /\ \A p \in 1 .. N : todo'[p] \in Tables
              /\ \A t \in Tables : \E p \in 1 .. N : todo'[p] = t
  <2>1. count' = N /\ count' <= MaxTables /\ N \in Nat /\ Flat(buckets)
    BY <1>1, <1>11, FitMeans
  <2>2. Len(v) = N /\ Once(v) /\ (\A e \in E : \E p \in 1 .. Len(v) : v[p] = e)
        /\ \A p \in 1 .. Len(v) : v[p] \in E
    BY <1>6, <2>1 DEF Returns
  <2>3. Tables = {e.key : e \in E} BY DEF Tables, TablesIn
  <2> HIDE DEF v, E, N
  <2>4. \A p, q \in 1 .. N : todo'[p] = todo'[q] => p = q BY <1>9, <2>2 DEF Once
  <2>5. \A p \in 1 .. N : todo'[p] \in Tables BY <1>9, <2>2, <2>3
  <2>6. ASSUME NEW t \in Tables PROVE \E p \in 1 .. N : todo'[p] = t
    <3>1. PICK e \in E : e.key = t BY <2>3
    <3>2. PICK p \in 1 .. Len(v) : v[p] = e BY <2>2
    <3> QED BY <1>9, <2>2, <3>1, <3>2
  <2> QED BY <2>1, <2>2, <2>4, <2>5, <2>6
<1>12. StoreInv'
  <2> SUFFICES ASSUME Exact'
               PROVE  /\ count' = Cardinality(EntriesOf(buckets')) /\ count' <= MaxTables
                      /\ idx' + Len(todo') = count' /\ length' >= 1 + Done'
                      /\ \A k \in 0 .. count' - 1 : Plan(k)' \in Tables'
                      /\ \A k, l \in 0 .. count' - 1 : Plan(k)' = Plan(l)' => k = l
                      /\ \A t \in Tables' : \E k \in 0 .. count' - 1 : Plan(k)' = t
                      /\ \A k \in 0 .. Done' - 1 : slots'[k] = Header(Plan(k), Table(Plan(k)))'
    BY DEF StoreInv
  <2>1. HeadersFit BY <1>1 DEF Exact
  <2>2. /\ count' = N /\ count' <= MaxTables /\ N \in Nat /\ Len(todo') = N
        /\ \A p, q \in 1 .. N : todo'[p] = todo'[q] => p = q
        /\ \A p \in 1 .. N : todo'[p] \in Tables
        /\ \A t \in Tables : \E p \in 1 .. N : todo'[p] = t
    BY <1>9, <1>11, <2>1
  <2>3. ASSUME NEW k \in 0 .. N - 1 PROVE Plan(k)' = todo'[k + 1] /\ k + 1 \in 1 .. N
    <3>1. ~(k < Done') /\ k - Done' + 1 = k + 1 /\ k + 1 \in 1 .. N BY <1>10, <2>2
    <3> QED BY <1>10, <3>1 DEF Plan
  <2>4. length' >= 1
    <3>1. length \in Nat BY DEF TypeInv, TypeOK
    <3> QED BY <1>1, <3>1 DEF Larger
  <2>5. ASSUME NEW t \in Tables PROVE \E k \in 0 .. N - 1 : Plan(k)' = t
    <3>1. PICK p \in 1 .. N : todo'[p] = t BY <2>2
    <3>2. p - 1 \in 0 .. N - 1 /\ (p - 1) + 1 = p BY <2>2
    <3> QED BY <2>3, <3>1, <3>2
  <2>6. count' = Cardinality(EntriesOf(buckets')) BY <1>1, <2>2
  <2> HIDE DEF N, v, E
  <2>7. \A k \in 0 .. N - 1 : Plan(k)' \in Tables BY <2>2, <2>3
  <2>8. ASSUME NEW k \in 0 .. N - 1, NEW l \in 0 .. N - 1, Plan(k)' = Plan(l)' PROVE k = l
    <3>1. k + 1 = l + 1 BY <2>2, <2>3, <2>8
    <3> QED BY <2>2, <3>1
  <2>9. idx' + Len(todo') = count' /\ length' >= 1 + Done' BY <1>1, <1>10, <2>2, <2>4
  <2>10. 0 .. Done' - 1 = {} BY <1>10
  <2> QED BY <1>3, <2>2, <2>5, <2>6, <2>7, <2>8, <2>9, <2>10
<1>13. SafeInv'
  <2> SUFFICES ASSUME ending' = "safe"
               PROVE  /\ NoStalePages'
                      /\ expected' = [t \in Tables' |-> Shown(Table(t))']
                      /\ \A t \in Tables' : \E p \in 1 .. Len(todo') : todo'[p] = t
    BY DEF SafeInv
  <2>1. HeadersFit /\ NoStalePages BY <1>1
  <2>2. NoStalePages' BY <1>3, <1>4, <2>1 DEF NoStalePages
  <2>3. \A t \in Tables : \E p \in 1 .. Len(todo') : todo'[p] = t BY <1>9, <1>11, <2>1
  <2>4. ASSUME NEW t \in Tables
        PROVE  Shown(Table(t))' = [r \in 0 .. Table(t).num_rows - 1 |-> RowAt(Table(t), r)]
    <3>1. Table(t) \in TableType /\ Loaded(Table(t)) BY <1>1, TableInv
    <3>2. Shown(Table(t)) = [r \in 0 .. Table(t).num_rows - 1 |-> RowAt(Table(t), r)]
      BY <3>1, ShownIs
    <3>3. Shown(Table(t))' = Shown(Table(t)) BY <1>1, <1>4 DEF Shown, Current
    <3> QED BY <3>2, <3>3
  <2>5. expected' = [t \in Tables |-> [r \in 0 .. Table(t).num_rows - 1 |-> RowAt(Table(t), r)]]
    BY <1>1 DEF ContentsOf, Tables, Table
  <2>6. expected' = [t \in Tables' |-> Shown(Table(t))'] BY <1>3, <2>4, <2>5
  <2> QED BY <1>3, <2>2, <2>3, <2>6
<1> QED BY <1>2, <1>12, <1>13

LEMMA StoreHeaderStores ==
  ASSUME TypeInv, StoreInv, SafeInv, StoreHeader, HeaderWritten
  PROVE  StoreInv' /\ SafeInv' /\ StoredInv'
<1> DEFINE t == Head(todo)
           h == Header(t, Table(t))
<1>1. /\ session = "storing" /\ session' = "flushing" /\ todo # <<>>
      /\ buckets' = buckets /\ todo' = todo /\ idx' = idx /\ count' = count
      /\ ending' = ending /\ expected' = expected /\ calm' = calm
  BY DEF StoreHeader, HeaderWritten, memory
<1>2. /\ idx \in SlotNums /\ h.name = t /\ (idx < MaxTables => data' = data)
      /\ \A i \in SlotNums : slots'[i] = IF i = idx THEN h ELSE slots[i]
      /\ length' \in Nat /\ length' >= idx + 2
  BY StoreHeaderIs
<1>3. StoredInv' BY <1>1 DEF StoredInv, AtRest
<1>4. Tables' = Tables /\ \A u : Table(u)' = Table(u) BY <1>1 DEF Tables, Table
<1>5. Closing /\ (Exact' <=> Exact) BY <1>1 DEF Closing, Exact
<1>6. Done = idx /\ Rest = todo /\ Done' = idx + 1 /\ Rest' = Tail(todo) BY <1>1 DEF Done, Rest
<1>7. /\ t = todo[1] /\ Len(todo) \in Nat \ {0} /\ Len(Tail(todo)) = Len(todo) - 1
      /\ \A p \in 1 .. Len(Tail(todo)) : Tail(todo)[p] = todo[p + 1]
  BY <1>1, HeadIs
<1>8. idx \in Nat /\ count \in Nat /\ Bounds
  BY BoundsHold DEF TypeInv, TypeOK, TodoInv, Bounds
<1>9. ASSUME Exact
      PROVE  /\ idx < MaxTables /\ idx < count
             /\ \A k \in 0 .. count - 1 : k \in SlotNums
             /\ count <= MaxTables /\ idx + Len(todo) = count
  <2>1. count <= MaxTables /\ idx + Len(todo) = count BY <1>5, <1>9, PlanIs
  <2> QED BY <1>7, <1>8, <2>1 DEF SlotNums, Bounds
<1> HIDE DEF h, t
<1>10. StoreInv'
  <2> SUFFICES ASSUME Exact
               PROVE  /\ count' = Cardinality(EntriesOf(buckets')) /\ count' <= MaxTables
                      /\ idx' + Len(todo') = count' /\ length' >= 1 + Done'
                      /\ \A k \in 0 .. count' - 1 : Plan(k)' \in Tables'
                      /\ \A k, l \in 0 .. count' - 1 : Plan(k)' = Plan(l)' => k = l
                      /\ \A u \in Tables' : \E k \in 0 .. count' - 1 : Plan(k)' = u
                      /\ \A k \in 0 .. Done' - 1 : slots'[k] = Header(Plan(k), Table(Plan(k)))'
    BY <1>5 DEF StoreInv
  <2>1. /\ count = Cardinality(EntriesOf(buckets)) /\ count <= MaxTables
        /\ idx + Len(todo) = count
        /\ \A k \in 0 .. count - 1 : Plan(k) \in Tables
        /\ \A k, l \in 0 .. count - 1 : Plan(k) = Plan(l) => k = l
        /\ \A u \in Tables : \E k \in 0 .. count - 1 : Plan(k) = u
        /\ \A k \in 0 .. Done - 1 : slots[k] = Header(Plan(k), Table(Plan(k)))
    BY <1>5, PlanIs
  <2>2. ASSUME NEW k \in 0 .. count - 1 PROVE Plan(k)' = Plan(k)
    <3>1. k \in SlotNums /\ k \in Nat BY <1>9
    <3>2. CASE k < idx
      <4>1. slots'[k] = slots[k] /\ k < idx + 1 BY <1>2, <1>8, <3>1, <3>2
      <4> QED BY <1>6, <3>2, <4>1 DEF Plan
    <3>3. CASE k = idx
      <4>1. slots'[k] = h /\ k < Done' /\ ~(k < Done) /\ k - Done + 1 = 1
        BY <1>2, <1>6, <1>8, <3>1, <3>3
      <4>2. Plan(k)' = t BY <1>2, <4>1 DEF Plan
      <4>3. Plan(k) = t BY <1>6, <1>7, <4>1 DEF Plan
      <4> QED BY <4>2, <4>3
    <3>4. CASE k > idx
      <4>1. /\ ~(k < Done) /\ ~(k < Done') /\ k - Done' + 1 = k - idx /\ k - Done + 1 = (k - idx) + 1
            /\ k - idx \in 1 .. Len(Tail(todo))
        BY <1>6, <1>7, <1>8, <1>9, <3>1, <3>4
      <4>2. Plan(k)' = Tail(todo)[k - idx] BY <1>6, <4>1 DEF Plan
      <4>3. Plan(k) = todo[(k - idx) + 1] BY <1>6, <4>1 DEF Plan
      <4> QED BY <1>7, <4>1, <4>2, <4>3
    <3> QED BY <1>8, <3>1, <3>2, <3>3, <3>4
  <2>3. ASSUME NEW k \in 0 .. Done' - 1 PROVE slots'[k] = Header(Plan(k), Table(Plan(k)))'
    <3>1. k \in 0 .. idx /\ k \in 0 .. count - 1 BY <1>6, <1>8, <1>9
    <3>2. Plan(k)' = Plan(k) BY <2>2, <3>1
    <3>3. Table(Plan(k))' = Table(Plan(k)) BY <1>4, <3>2 DEF Table
    <3>4. CASE k = idx
      <4>1. slots'[k] = h BY <1>2, <3>4
      <4>2. Plan(k) = t
        <5>1. ~(k < Done) /\ k - Done + 1 = 1 BY <1>6, <1>8, <3>4
        <5> QED BY <1>6, <1>7, <5>1 DEF Plan
      <4> QED BY <3>2, <3>3, <4>1, <4>2 DEF h, Header
    <3>5. CASE k # idx
      <4>1. k \in 0 .. Done - 1 /\ k \in SlotNums BY <1>6, <1>8, <1>9, <3>1, <3>5
      <4>2. slots'[k] = slots[k] BY <1>2, <3>5, <4>1
      <4> QED BY <2>1, <3>2, <3>3, <4>1, <4>2 DEF Header
    <3> QED BY <3>4, <3>5
  <2>4. length' >= 1 + Done' BY <1>2, <1>6, <1>8
  <2>5. count' = Cardinality(EntriesOf(buckets')) BY <1>1, <2>1
  <2> QED BY <1>1, <1>4, <2>1, <2>2, <2>3, <2>4, <2>5
<1>11. SafeInv'
  <2> SUFFICES ASSUME ending = "safe"
               PROVE  /\ NoStalePages'
                      /\ expected' = [u \in Tables' |-> Shown(Table(u))']
                      /\ \A u \in Tables' : Cached(Table(u))' # {} => \E p \in 1 .. Len(todo') : todo'[p] = u
    BY <1>1 DEF SafeInv
  <2>1. data' = data BY <1>2, <1>9 DEF Exact
  <2>2. /\ NoStalePages /\ expected = [u \in Tables |-> Shown(Table(u))]
        /\ \A u \in Tables : Cached(Table(u)) # {} => \E p \in 1 .. Len(todo) : todo[p] = u
    BY <1>5 DEF SafeInv
  <2>3. NoStalePages' BY <1>4, <2>2 DEF NoStalePages
  <2>4. \A u : Shown(Table(u))' = Shown(Table(u)) BY <1>4, <2>1 DEF Shown, Current
  <2>5. \A u : Cached(Table(u))' = Cached(Table(u)) BY <1>4 DEF Cached
  <2> QED BY <1>1, <1>4, <2>2, <2>3, <2>4, <2>5
<1> QED BY <1>3, <1>10, <1>11

LEMMA NextTableStores ==
  ASSUME TypeInv, StoreInv, SafeInv, NextTable
  PROVE  StoreInv' /\ SafeInv' /\ StoredInv'
<1>1. /\ session = "flushing" /\ session' = "storing" /\ Cached(Table(Head(todo))) = {}
      /\ todo' = Tail(todo) /\ idx' = idx + 1
      /\ buckets' = buckets /\ count' = count /\ slots' = slots /\ data' = data
      /\ length' = length /\ ending' = ending /\ expected' = expected /\ calm' = calm
  BY DEF NextTable, memory, disk
<1>2. StoredInv' BY <1>1 DEF StoredInv, AtRest
<1>3. Tables' = Tables /\ \A u : Table(u)' = Table(u) BY <1>1 DEF Tables, Table
<1>4. Closing /\ Closing' /\ (Exact' <=> Exact) BY <1>1 DEF Closing, Exact
<1>5. Done' = Done /\ Rest' = Rest BY <1>1 DEF Done, Rest
<1>6. \A k : Plan(k)' = Plan(k) BY <1>1, <1>5 DEF Plan
<1>7. todo # <<>> BY <1>1 DEF TypeInv, TodoInv
<1>8. /\ Head(todo) = todo[1] /\ Len(todo) \in Nat \ {0} /\ Len(Tail(todo)) = Len(todo) - 1
      /\ \A p \in 1 .. Len(Tail(todo)) : Tail(todo)[p] = todo[p + 1]
  BY <1>7, HeadIs
<1>9. idx \in Nat BY DEF TypeInv, TodoInv
<1>10. idx' + Len(todo') = idx + Len(todo) BY <1>1, <1>8, <1>9
<1>11. \A k : Header(Plan(k), Table(Plan(k)))' = Header(Plan(k), Table(Plan(k)))
  BY <1>3, <1>6 DEF Header, Table
<1>12. StoreInv' BY <1>1, <1>3, <1>4, <1>5, <1>6, <1>10, <1>11 DEF StoreInv
<1>13. SafeInv'
  <2> SUFFICES ASSUME ending = "safe"
               PROVE  /\ NoStalePages'
                      /\ expected' = [u \in Tables' |-> Shown(Table(u))']
                      /\ \A u \in Tables' : Cached(Table(u))' # {} => \E p \in 1 .. Len(todo') : todo'[p] = u
    BY <1>1 DEF SafeInv
  <2>1. /\ NoStalePages /\ expected = [u \in Tables |-> Shown(Table(u))]
        /\ \A u \in Tables : Cached(Table(u)) # {} => \E p \in 1 .. Len(todo) : todo[p] = u
    BY <1>4 DEF SafeInv
  <2>2. NoStalePages' BY <1>3, <2>1 DEF NoStalePages
  <2>3. \A u : Shown(Table(u))' = Shown(Table(u)) BY <1>1, <1>3 DEF Shown, Current
  <2>4. \A u : Cached(Table(u))' = Cached(Table(u)) BY <1>3 DEF Cached
  <2>5. ASSUME NEW u \in Tables, Cached(Table(u)) # {}
        PROVE  \E p \in 1 .. Len(Tail(todo)) : Tail(todo)[p] = u
    <3>1. PICK p \in 1 .. Len(todo) : todo[p] = u BY <2>1, <2>5
    <3>2. u # Head(todo) BY <1>1, <2>5
    <3>3. p # 1 BY <1>8, <3>1, <3>2
    <3>4. p - 1 \in 1 .. Len(Tail(todo)) /\ (p - 1) + 1 = p BY <1>8, <3>1, <3>3
    <3> QED BY <1>8, <3>1, <3>4
  <2> QED BY <1>1, <1>3, <2>1, <2>2, <2>3, <2>4, <2>5
<1> QED BY <1>2, <1>12, <1>13

\* A page of the file is written from the cache of one table and released;
\* the table is otherwise as it was and the other tables are.
PageFlushed(t, p) ==
  /\ t \in Tables /\ p \in Cached(Table(t)) /\ t = Head(todo) /\ Tables' = Tables
  /\ Cardinality(EntriesOf(buckets')) = Cardinality(EntriesOf(buckets))
  /\ \A u \in Tables : u # t => Table(u)' = Table(u)
  /\ Table(t)'.num_rows = Table(t).num_rows /\ Table(t)'.next_id = Table(t).next_id
  /\ Table(t)'.page_offset = Table(t).page_offset
  /\ Table(t)'.pages = [Table(t).pages EXCEPT ![p] = Uncached]
  /\ \A n \in PageNums :
       data'[n] = IF n = Table(t).page_offset + p THEN Table(t).pages[p] ELSE data[n]

LEMMA FlushPageChanges ==
  ASSUME TypeInv, FlushPage
  PROVE  \E t, p : PageFlushed(t, p)
<1>1. PICK t : t = Head(todo) OBVIOUS
<1>2. PICK p : p = Min(Cached(Table(t))) OBVIOUS
<1>3. PICK table : table = Table(t) OBVIOUS
<1>4. PICK new : new = [table EXCEPT !.pages[p] = Uncached] OBVIOUS
<1>5. PICK o : o = table.page_offset OBVIOUS
<1>6. /\ t \in Tables /\ table \in TableType /\ p \in Cached(table) /\ p \in Pages
      /\ new \in TableType /\ new.num_rows = table.num_rows /\ new.next_id = table.next_id
      /\ new.page_offset = o /\ new.pages = [table.pages EXCEPT ![p] = Uncached]
      /\ Flush(table, {p}) /\ buckets' = Put(buckets, t, new)
  BY <1>1, <1>2, <1>3, <1>4, <1>5, FlushPageIs
<1>7. IsMap(buckets) /\ IsFiniteSet(EntriesOf(buckets)) /\ t \in TablesIn(buckets)
  BY <1>6 DEF TypeInv, MapInv, Tables
<1>8. t \in AnyName BY <1>7, TableIs
<1>9. /\ IsMap(buckets') /\ EntriesOf(buckets') = Updated(buckets, t, new)
      /\ Cardinality(EntriesOf(buckets')) = Cardinality(EntriesOf(buckets))
  BY <1>6, <1>7, <1>8, PutTable
<1>10. /\ TablesIn(buckets') = TablesIn(buckets) \cup {t} /\ ValueAt(buckets', t) = new
       /\ \A u \in TablesIn(buckets) : u # t => ValueAt(buckets', u) = ValueAt(buckets, u)
  <2>1. PICK c : c = buckets' OBVIOUS
  <2>2. IsMap(c) /\ EntriesOf(c) = Updated(buckets, t, new) BY <1>9, <2>1
  <2>3. /\ TablesIn(c) = TablesIn(buckets) \cup {t} /\ ValueAt(c, t) = new
        /\ \A u \in TablesIn(buckets) : u # t => ValueAt(c, u) = ValueAt(buckets, u)
    BY <1>7, <2>2, UpdatedTables
  <2> QED BY <2>1, <2>3
<1>11. Tables' = Tables /\ Table(t)' = new /\ \A u \in Tables : u # t => Table(u)' = Table(u)
  BY <1>7, <1>10 DEF Tables, Table
<1>12. o \in Nat /\ p \in Nat BY <1>5, <1>6, TableFields DEF Offsets, Pages, RowNums
<1>13. \A n \in PageNums : data'[n] = IF n = o + p THEN table.pages[p] ELSE data[n]
  <2>1. data' = [n \in PageNums |-> IF n \in {o + i : i \in {p}} THEN table.pages[n - o] ELSE data[n]]
    BY <1>5, <1>6 DEF Flush
  <2>2. {o + i : i \in {p}} = {o + p} /\ (o + p) - o = p BY <1>12
  <2> QED BY <2>1, <2>2
<1>14. PageFlushed(t, p)
  BY <1>1, <1>3, <1>5, <1>6, <1>9, <1>11, <1>13 DEF PageFlushed
<1> QED BY <1>14

LEMMA FlushPageStores ==
  ASSUME TypeInv, StoreInv, SafeInv, FlushPage
  PROVE  StoreInv' /\ SafeInv' /\ StoredInv'
<1>1. /\ session = "flushing" /\ session' = session
      /\ todo' = todo /\ idx' = idx /\ count' = count
      /\ ending' = ending /\ expected' = expected /\ calm' = calm
  BY DEF FlushPage
<1>1a. PICK t, p : PageFlushed(t, p) BY FlushPageChanges
<1>1b. PICK o : o = Table(t).page_offset OBVIOUS
<1>2. /\ t \in Tables /\ p \in Cached(Table(t)) /\ Tables' = Tables
      /\ Cardinality(EntriesOf(buckets')) = Cardinality(EntriesOf(buckets))
      /\ \A u \in Tables : u # t => Table(u)' = Table(u)
      /\ Table(t)'.num_rows = Table(t).num_rows /\ Table(t)'.next_id = Table(t).next_id
      /\ Table(t)'.page_offset = o
      /\ Table(t)'.pages = [Table(t).pages EXCEPT ![p] = Uncached]
      /\ \A n \in PageNums : data'[n] = IF n = o + p THEN Table(t).pages[p] ELSE data[n]
  BY <1>1a, <1>1b DEF PageFlushed
<1>3. length' \in Nat /\ length <= length' /\ \A i \in SlotNums : i < MaxTables => slots'[i] = slots[i]
  BY FlushPageIs
<1>4. StoredInv' BY <1>1 DEF StoredInv, AtRest
<1>5. Closing /\ (Exact' <=> Exact) BY <1>1 DEF Closing, Exact
<1>6. Done = idx + 1 /\ Rest = Tail(todo) /\ Done' = Done /\ Rest' = Rest BY <1>1 DEF Done, Rest
<1>7. /\ idx \in Nat /\ count \in Nat /\ Bounds /\ length \in Nat
  BY BoundsHold DEF TypeInv, TypeOK, TodoInv, Bounds
<1>8. ASSUME NEW u \in Tables
      PROVE  /\ Table(u)'.num_rows = Table(u).num_rows /\ Table(u)'.next_id = Table(u).next_id
             /\ Table(u)'.page_offset = Table(u).page_offset
  <2>1. CASE u = t BY <1>1b, <1>2, <2>1
  <2>2. CASE u # t BY <1>2, <2>2
  <2> QED BY <2>1, <2>2
<1>9. \A u \in Tables : Header(u, Table(u))' = Header(u, Table(u)) BY <1>8 DEF Header
<1>10. StoreInv'
  <2> SUFFICES ASSUME Exact
               PROVE  /\ count' = Cardinality(EntriesOf(buckets')) /\ count' <= MaxTables
                      /\ idx' + Len(todo') = count' /\ length' >= 1 + Done'
                      /\ \A k \in 0 .. count' - 1 : Plan(k)' \in Tables'
                      /\ \A k, l \in 0 .. count' - 1 : Plan(k)' = Plan(l)' => k = l
                      /\ \A u \in Tables' : \E k \in 0 .. count' - 1 : Plan(k)' = u
                      /\ \A k \in 0 .. Done' - 1 : slots'[k] = Header(Plan(k), Table(Plan(k)))'
    BY <1>5 DEF StoreInv
  <2>1. /\ count = Cardinality(EntriesOf(buckets)) /\ count <= MaxTables
        /\ idx + Len(todo) = count /\ length >= 1 + Done
        /\ \A k \in 0 .. count - 1 : Plan(k) \in Tables
        /\ \A k, l \in 0 .. count - 1 : Plan(k) = Plan(l) => k = l
        /\ \A u \in Tables : \E k \in 0 .. count - 1 : Plan(k) = u
        /\ \A k \in 0 .. Done - 1 : slots[k] = Header(Plan(k), Table(Plan(k)))
    BY <1>5, PlanIs
  <2>2. Done <= count
    <3>1. todo # <<>> BY <1>1 DEF TypeInv, TodoInv
    <3>2. Len(todo) \in Nat \ {0} BY <3>1, HeadIs
    <3> QED BY <1>6, <1>7, <2>1, <3>2
  <2>3. ASSUME NEW k \in 0 .. count - 1 PROVE slots'[k] = slots[k]
    <3>1. k \in SlotNums /\ k < MaxTables BY <1>7, <2>1 DEF SlotNums, Bounds
    <3> QED BY <1>3, <3>1
  <2>4. \A k \in 0 .. count - 1 : Plan(k)' = Plan(k) BY <1>6, <2>3 DEF Plan
  <2>5. ASSUME NEW k \in 0 .. Done - 1 PROVE slots'[k] = Header(Plan(k), Table(Plan(k)))'
    <3>1. k \in 0 .. count - 1 BY <1>6, <1>7, <2>2
    <3>2. Plan(k) \in Tables /\ Plan(k)' = Plan(k) /\ slots'[k] = slots[k]
      BY <2>1, <2>3, <2>4, <3>1
    <3>3. Header(Plan(k), Table(Plan(k)))' = Header(Plan(k), Table(Plan(k)))
      <4> DEFINE u == Plan(k)
      <4>1. u \in Tables /\ u' = u BY <3>2
      <4>2. /\ Table(u)'.num_rows = Table(u).num_rows /\ Table(u)'.next_id = Table(u).next_id
            /\ Table(u)'.page_offset = Table(u).page_offset
        BY <1>8, <4>1 DEF Table
      <4> QED BY <4>1, <4>2 DEF Header
    <3> QED BY <2>1, <3>2, <3>3
  <2>6. length' >= 1 + Done' BY <1>3, <1>6, <1>7, <2>1
  <2> QED BY <1>1, <1>2, <1>6, <2>1, <2>4, <2>5, <2>6
<1>11. SafeInv'
  <2> SUFFICES ASSUME ending = "safe"
               PROVE  /\ NoStalePages'
                      /\ expected' = [u \in Tables' |-> Shown(Table(u))']
                      /\ \A u \in Tables' : Cached(Table(u))' # {} => \E n \in 1 .. Len(todo') : todo'[n] = u
    BY <1>1 DEF SafeInv
  <2>1. /\ NoStalePages /\ expected = [u \in Tables |-> Shown(Table(u))]
        /\ \A u \in Tables : Cached(Table(u)) # {} => \E n \in 1 .. Len(todo) : todo[n] = u
    BY <1>5 DEF SafeInv
  <2>2. ASSUME NEW u \in Tables
        PROVE  /\ Cached(Table(u))' \in SUBSET Cached(Table(u))
               /\ LivePages(Table(u))' = LivePages(Table(u))
    <3>1. LivePages(Table(u))' = LivePages(Table(u)) BY <1>8 DEF LivePages
    <3>2. CASE u # t BY <1>2, <3>1, <3>2 DEF Cached
    <3>3. CASE u = t
      <4>1. Table(u)'.pages = [Table(u).pages EXCEPT ![p] = Uncached] BY <1>2, <3>3
      <4>2. Table(u).pages \in [Pages -> DataPage \cup {Uncached}] BY TableInv, TableFields
      <4>3. \A i \in Pages : Table(u)'.pages[i] # Uncached => Table(u).pages[i] # Uncached
        BY <4>1, <4>2
      <4> QED BY <3>1, <4>3 DEF Cached
    <3> QED BY <3>2, <3>3
  <2>3. NoStalePages'
    <3> SUFFICES ASSUME NEW u \in Tables, NEW w \in Tables, u # w,
                        NEW i \in LivePages(Table(u))', NEW j \in Cached(Table(w))'
                 PROVE  Table(u)'.page_offset + i # Table(w)'.page_offset + j
      BY <1>2 DEF NoStalePages
    <3>1. i \in LivePages(Table(u)) /\ j \in Cached(Table(w)) BY <2>2
    <3>2. Table(u).page_offset + i # Table(w).page_offset + j BY <2>1, <3>1 DEF NoStalePages
    <3> QED BY <1>8, <3>2
  <2>4. ASSUME NEW u \in Tables PROVE Shown(Table(u))' = Shown(Table(u))
    <3>1. Table(u) \in TableType /\ Table(t) \in TableType BY <1>2, TableInv
    <3>2. ASSUME NEW i \in LivePages(Table(u)) PROVE Current(Table(u), i)' = Current(Table(u), i)
      <4> DEFINE q == Table(u).page_offset
      <4>1. i \in Pages /\ Table(u).pages \in [Pages -> DataPage \cup {Uncached}]
        BY <3>1, TableFields
      <4>2. p \in Pages /\ Table(t).pages[p] # Uncached BY <1>2 DEF Cached
      <4>3. q + i \in PageNums /\ q \in Nat /\ i \in Nat /\ o \in Nat /\ p \in Nat
        BY <1>1b, <1>7, <3>1, <4>1, <4>2, TableFields DEF Offsets, Pages, RowNums, PageNums, Bounds
      <4>4. Table(u)'.page_offset = q BY <1>8
      <4>5. data'[q + i] = IF q + i = o + p THEN Table(t).pages[p] ELSE data[q + i]
        BY <1>2, <4>3
      <4>6. Current(Table(u), i)' =
              IF Table(u)'.pages[i] = Uncached THEN data'[q + i] ELSE Table(u)'.pages[i]
        BY <4>4 DEF Current
      <4>7. Current(Table(u), i) =
              IF Table(u).pages[i] = Uncached THEN data[q + i] ELSE Table(u).pages[i]
        BY DEF Current
      <4>8. CASE u = t
        <5>1. Table(u)'.pages = [Table(u).pages EXCEPT ![p] = Uncached] BY <1>2, <4>8
        <5>2. q = o BY <1>1b, <4>8
        <5>3. q + i = o + p <=> i = p
          <6> HIDE DEF q
          <6> QED BY <4>3, <5>2
        <5>4. CASE i = p
          <6>1. Table(u)'.pages[i] = Uncached /\ data'[q + i] = Table(u).pages[i]
            BY <4>1, <4>5, <4>8, <5>1, <5>3, <5>4
          <6> QED BY <4>2, <4>6, <4>7, <4>8, <5>4, <6>1
        <5>5. CASE i # p
          <6>1. Table(u)'.pages[i] = Table(u).pages[i] /\ data'[q + i] = data[q + i]
            BY <4>1, <4>5, <5>1, <5>3, <5>5
          <6> QED BY <4>6, <4>7, <6>1
        <5> QED BY <5>4, <5>5
      <4>9. CASE u # t
        <5>1. q + i # o + p BY <1>1b, <1>2, <2>1, <4>9 DEF NoStalePages
        <5>2. Table(u)' = Table(u) BY <1>2, <4>9
        <5> QED BY <4>5, <4>6, <4>7, <5>1, <5>2
      <4> QED BY <4>8, <4>9
    <3>3. \A r \in 0 .. Table(u).num_rows - 1 : PageOf(r) \in LivePages(Table(u))
      BY <3>1, TableFields
    <3>4. ASSUME NEW r \in 0 .. Table(u).num_rows - 1
          PROVE  Current(Table(u), PageOf(r))' = Current(Table(u), PageOf(r))
      <4> DEFINE i == PageOf(r)
      <4>1. i \in LivePages(Table(u)) BY <3>3
      <4> HIDE DEF i
      <4>2. Current(Table(u), i)' = Current(Table(u), i)
        BY <3>2, <4>1
      <4> QED BY <4>2 DEF i
    <3> QED BY <1>8, <3>4 DEF Shown
  <2>5. expected' = [u \in Tables' |-> Shown(Table(u))'] BY <1>1, <1>2, <2>1, <2>4
  <2>6. ASSUME NEW u \in Tables, Cached(Table(u))' # {}
        PROVE  \E n \in 1 .. Len(todo') : todo'[n] = u
    <3>1. Cached(Table(u)) # {} BY <2>2, <2>6
    <3> QED BY <1>1, <2>1, <3>1
  <2> QED BY <1>2, <2>3, <2>5, <2>6
<1> QED BY <1>4, <1>10, <1>11

LEMMA CloseEndStores ==
  ASSUME TypeInv, CalmInv, StoreInv, SafeInv, CloseEnd
  PROVE  StoreInv' /\ SafeInv' /\ StoredInv'
<1> DEFINE E == EntriesOf(buckets)
<1>1. /\ session = "storing" /\ todo = <<>> /\ session' = "closed"
      /\ count' = count /\ slots' = slots /\ data' = data /\ length' = length
      /\ ending' = ending /\ expected' = expected /\ calm' = calm
  BY DEF CloseEnd, Forget, disk
<1>2. StoreInv' /\ SafeInv' BY <1>1 DEF StoreInv, SafeInv, Closing
<1>3. Closing /\ AtRest' /\ (Exact' <=> Exact) BY <1>1 DEF Closing, AtRest, Exact
<1>4. Done = idx BY <1>1 DEF Done
<1>5. idx \in Nat /\ count \in Nat BY BoundsHold DEF TypeInv, TypeOK, TodoInv, Bounds
<1>6. ASSUME Exact
      PROVE  /\ count <= MaxTables /\ LongEnough /\ NamesDiffer(count) /\ count = Cardinality(E)
             /\ \A u \in Tables : \E k \in 0 .. count - 1 : slots[k].name = u
             /\ \A k \in 0 .. count - 1 : /\ slots[k].name \in Tables
                                          /\ slots[k] = Header(slots[k].name, Table(slots[k].name))
  <2>1. /\ count = Cardinality(E) /\ count <= MaxTables
        /\ idx + Len(todo) = count /\ length >= 1 + Done
        /\ \A k \in 0 .. count - 1 : Plan(k) \in Tables
        /\ \A k, l \in 0 .. count - 1 : Plan(k) = Plan(l) => k = l
        /\ \A u \in Tables : \E k \in 0 .. count - 1 : Plan(k) = u
        /\ \A k \in 0 .. Done - 1 : slots[k] = Header(Plan(k), Table(Plan(k)))
    BY <1>3, <1>6, PlanIs
  <2>2. Len(todo) = 0 BY <1>1
  <2>3. Done = count BY <1>4, <1>5, <2>1, <2>2
  <2>4. \A k \in 0 .. count - 1 : Plan(k) = slots[k].name
    <3> SUFFICES ASSUME NEW k \in 0 .. count - 1 PROVE Plan(k) = slots[k].name OBVIOUS
    <3>1. k < Done BY <1>5, <2>3
    <3> QED BY <3>1 DEF Plan
  <2>5. NamesDiffer(count) BY <2>1, <2>4 DEF NamesDiffer
  <2>6. LongEnough BY <2>1, <2>3 DEF LongEnough
  <2>7. \A k \in 0 .. count - 1 : slots[k] = Header(slots[k].name, Table(slots[k].name))
    BY <2>1, <2>3, <2>4
  <2> QED BY <2>1, <2>4, <2>5, <2>6, <2>7
<1>7. ASSUME Exact, NEW k \in 0 .. count - 1
      PROVE  LET u == slots[k].name
             IN /\ u \in Tables /\ Table(u) \in TableType /\ slots[k] # Torn
                /\ slots[k].num_rows = Table(u).num_rows
                /\ slots[k].page_offset = Table(u).page_offset
                /\ Entry(u, Table(u)) \in E
  <2>1. PICK u : u = slots[k].name OBVIOUS
  <2>2. u \in Tables /\ slots[k] = Header(u, Table(u)) BY <1>6, <1>7, <2>1
  <2>3. u \in AnyName /\ Table(u) \in TableType /\ Entry(u, Table(u)) \in E BY <2>2, TableInv
  <2>4. /\ Header(u, Table(u)) # Torn /\ Header(u, Table(u)).num_rows = Table(u).num_rows
        /\ Header(u, Table(u)).page_offset = Table(u).page_offset
    BY <2>3, HeaderIs
  <2> QED BY <2>1, <2>2, <2>3, <2>4
<1>8. ASSUME Exact
      PROVE  /\ count' <= MaxTables /\ LongEnough' /\ NamesDiffer(count)'
             /\ \A k \in 0 .. count' - 1 : slots'[k] # Torn
  BY <1>1, <1>6, <1>7, <1>8 DEF LongEnough, NamesDiffer
<1>9. ASSUME calm
      PROVE  /\ \A k \in 0 .. count - 1 : slots[k].num_rows <= RowsPerPage /\ slots[k].page_offset < count
             /\ \A k, l \in 0 .. count - 1 : slots[k].page_offset = slots[l].page_offset => k = l
  <2>1. Exact /\ Tidy(E) BY <1>9 DEF Exact, CalmInv
  <2>2. ASSUME NEW k \in 0 .. count - 1
        PROVE  \E e \in E : /\ e.key = slots[k].name /\ e.value.num_rows = slots[k].num_rows
                            /\ e.value.page_offset = slots[k].page_offset
    <3>1. PICK u : u = slots[k].name OBVIOUS
    <3>2. /\ slots[k].num_rows = Table(u).num_rows
          /\ slots[k].page_offset = Table(u).page_offset
          /\ Entry(u, Table(u)) \in E
      BY <1>7, <2>1, <3>1
    <3>3. Entry(u, Table(u)).key = u /\ Entry(u, Table(u)).value = Table(u) BY DEF Entry
    <3> QED BY <3>1, <3>2, <3>3
  <2>3. count = Cardinality(E) /\ NamesDiffer(count) BY <1>6, <2>1
  <2> HIDE DEF E
  <2>4. ASSUME NEW k \in 0 .. count - 1
        PROVE  slots[k].num_rows <= RowsPerPage /\ slots[k].page_offset < count
    BY <2>1, <2>2, <2>3 DEF Tidy
  <2>5. ASSUME NEW k \in 0 .. count - 1, NEW l \in 0 .. count - 1,
               slots[k].page_offset = slots[l].page_offset
        PROVE  k = l
    <3>1. PICK e \in E : /\ e.key = slots[k].name
                         /\ e.value.page_offset = slots[k].page_offset BY <2>2
    <3>2. PICK f \in E : /\ f.key = slots[l].name
                         /\ f.value.page_offset = slots[l].page_offset BY <2>2
    <3>3. slots[k].name = slots[l].name BY <2>1, <2>5, <3>1, <3>2 DEF Tidy
    <3> QED BY <2>3, <3>3 DEF NamesDiffer
  <2> QED BY <2>4, <2>5
<1>10. ASSUME ending = "safe"
       PROVE  /\ expected = [t \in StoredNames |-> expected[t]]
              /\ \A k \in 0 .. count - 1 : expected[slots[k].name] = Stored(slots[k])
  <2>1. Exact BY <1>10 DEF Exact
  <2>2. /\ expected = [u \in Tables |-> Shown(Table(u))]
        /\ \A u \in Tables : Cached(Table(u)) # {} => \E p \in 1 .. Len(todo) : todo[p] = u
    BY <1>3, <1>10 DEF SafeInv
  <2>3. 1 .. Len(todo) = {} BY <1>1
  <2>4. Tables = StoredNames BY <1>6, <2>1 DEF StoredNames
  <2>5. ASSUME NEW k \in 0 .. count - 1 PROVE expected[slots[k].name] = Stored(slots[k])
    <3>1. PICK u : u = slots[k].name OBVIOUS
    <3>2. /\ u \in Tables /\ Table(u) \in TableType
          /\ slots[k].num_rows = Table(u).num_rows
          /\ slots[k].page_offset = Table(u).page_offset
      BY <1>7, <2>1, <3>1
    <3>3. Cached(Table(u)) = {} BY <2>2, <2>3, <3>2
    <3>4. ASSUME NEW r \in 0 .. Table(u).num_rows - 1
          PROVE  Current(Table(u), PageOf(r)) = data[Table(u).page_offset + PageOf(r)]
      <4>1. PageOf(r) \in Pages BY <3>2, TableFields
      <4>2. Table(u).pages[PageOf(r)] = Uncached BY <3>3, <4>1 DEF Cached
      <4> QED BY <4>2 DEF Current
    <3>5. Shown(Table(u)) = Stored(slots[k]) BY <3>2, <3>4 DEF Shown, Stored
    <3> QED BY <2>2, <3>1, <3>2, <3>5
  <2> QED BY <2>2, <2>4, <2>5
<1>11. StoredInv'
  <2>1. AtRest' /\ Exact' => /\ count' <= MaxTables /\ LongEnough'
                             /\ \A k \in 0 .. count' - 1 : slots'[k] # Torn
                             /\ NamesDiffer(count)'
    BY <1>3, <1>8
  <2>2. calm' =>
          /\ \A k \in 0 .. count' - 1 : slots'[k].num_rows <= RowsPerPage /\ slots'[k].page_offset < count'
          /\ \A k, l \in 0 .. count' - 1 : slots'[k].page_offset = slots'[l].page_offset => k = l
    BY <1>1, <1>9
  <2>3. ending' = "safe" =>
          /\ expected' = [t \in StoredNames' |-> expected'[t]]
          /\ \A k \in 0 .. count' - 1 : expected'[slots'[k].name] = Stored(slots[k])'
    BY <1>1, <1>10 DEF Stored, StoredNames
  <2> QED BY <2>1, <2>2, <2>3 DEF StoredInv
<1> QED BY <1>2, <1>11

\* What does not touch the file leaves what it holds.
LEMMA SameStored ==
  ASSUME StoredInv, UNCHANGED disk, AtRest' => AtRest,
         ending' = ending, expected' = expected, calm' = calm
  PROVE  StoredInv'
<1>1. /\ count' = count /\ slots' = slots /\ data' = data /\ length' = length
      /\ (Exact' <=> Exact)
  BY DEF disk, Exact
<1>2. /\ (LongEnough' <=> LongEnough) /\ StoredNames' = StoredNames
      /\ (NamesDiffer(count)' <=> NamesDiffer(count)) /\ \A k : Stored(slots[k])' = Stored(slots[k])
  BY <1>1 DEF LongEnough, StoredNames, NamesDiffer, Stored
<1>3. AtRest' /\ Exact' => /\ count' <= MaxTables /\ LongEnough'
                           /\ \A k \in 0 .. count' - 1 : slots'[k] # Torn
                           /\ NamesDiffer(count)'
  BY <1>1, <1>2 DEF StoredInv
<1>4. AtRest' /\ calm' =>
        /\ \A k \in 0 .. count' - 1 : slots'[k].num_rows <= RowsPerPage /\ slots'[k].page_offset < count'
        /\ \A k, l \in 0 .. count' - 1 : slots'[k].page_offset = slots'[l].page_offset => k = l
  BY <1>1 DEF StoredInv
<1>5. AtRest' /\ ending' = "safe" =>
        /\ expected' = [t \in StoredNames' |-> expected'[t]]
        /\ \A k \in 0 .. count' - 1 : expected'[slots'[k].name] = Stored(slots[k])'
  BY <1>1, <1>2 DEF StoredInv
<1> QED BY <1>3, <1>4, <1>5 DEF StoredInv

LEMMA SameSteps ==
  ASSUME StoreInv, SafeInv, StoredInv, UNCHANGED vars
  PROVE  StoreInv' /\ SafeInv' /\ StoredInv'
<1>1. /\ session' = session /\ buckets' = buckets /\ todo' = todo /\ idx' = idx
      /\ count' = count /\ slots' = slots /\ data' = data /\ length' = length
      /\ ending' = ending /\ expected' = expected /\ calm' = calm /\ UNCHANGED disk
  BY DEF vars, memory, disk
<1>2. /\ Tables' = Tables /\ (\A u : Table(u)' = Table(u)) /\ Done' = Done /\ Rest' = Rest
      /\ (Closing' <=> Closing) /\ (AtRest' <=> AtRest) /\ (Exact' <=> Exact)
  BY <1>1 DEF Tables, Table, Done, Rest, Closing, AtRest, Exact
<1>3. \A k : Plan(k)' = Plan(k) BY <1>1, <1>2 DEF Plan
<1>4. \A k : Header(Plan(k), Table(Plan(k)))' = Header(Plan(k), Table(Plan(k)))
  BY <1>2, <1>3 DEF Header, Table
<1>5. StoreInv' BY <1>1, <1>2, <1>3, <1>4 DEF StoreInv
<1>6. /\ \A u : Shown(Table(u))' = Shown(Table(u))
      /\ \A u : Cached(Table(u))' = Cached(Table(u))
      /\ (NoStalePages' <=> NoStalePages)
  BY <1>1, <1>2 DEF Shown, Current, Cached, NoStalePages
<1>7. SafeInv' BY <1>1, <1>2, <1>6 DEF SafeInv
<1>8. StoredInv' BY <1>1, <1>2, SameStored
<1> QED BY <1>5, <1>7, <1>8

LEMMA InitStores ==
  ASSUME Init
  PROVE  StoreSteps
<1>1. /\ session = "closed" /\ buckets = NoEntries(Capacity) /\ count = 0 /\ length = 0
      /\ expected = ContentsOf(NoEntries(Capacity))
  BY DEF Init
<1>2. Bounds BY BoundsHold
<1>3. EntriesOf(buckets) = {} /\ TablesIn(NoEntries(Capacity)) = {}
  BY <1>1, <1>2, EmptyMap DEF Bounds
<1>4. CalmInv BY <1>3 DEF CalmInv, Tidy
<1>5. StoreInv /\ SafeInv BY <1>1 DEF StoreInv, SafeInv, Closing
<1>6. 0 .. count - 1 = {} BY <1>1
<1>7. 0 <= MaxTables BY <1>2 DEF Bounds
<1>8. expected = [t \in {} |-> expected[t]]
  <2> DEFINE rows(t) == [r \in 0 .. ValueAt(NoEntries(Capacity), t).num_rows - 1 |->
                           RowAt(ValueAt(NoEntries(Capacity), t), r)]
  <2>1. expected = [t \in {} |-> rows(t)] BY <1>1, <1>3 DEF ContentsOf
  <2> HIDE DEF rows
  <2> QED BY <2>1
<1>9. StoredNames = {} BY <1>6 DEF StoredNames
<1>10. LongEnough /\ NamesDiffer(count) BY <1>1, <1>6 DEF LongEnough, NamesDiffer
<1>11. StoredInv BY <1>1, <1>6, <1>7, <1>8, <1>9, <1>10 DEF StoredInv
<1> QED BY <1>4, <1>5, <1>11 DEF StoreSteps

LEMMA StepStores ==
  ASSUME TypeInv, StoreSteps, [Next]_vars
  PROVE  StoreSteps'
<1> DEFINE Kept == StoreInv' /\ SafeInv' /\ StoredInv'
<1>1. CalmInv /\ StoreInv /\ SafeInv /\ StoredInv BY DEF StoreSteps
<1>2. ASSUME NEW t \in Names,
             \/ CreateTable(t) \/ DropTable(t) \/ Insert(t) \/ DeleteNone(t)
             \/ \E r \in RowNums : DeleteRow(t, r)
      PROVE  Kept
  <2>1. Statement BY <1>2 DEF CreateTable, DropTable, Insert, DeleteNone, DeleteRow
  <2>2. session' = "open" BY <2>1 DEF Statement
  <2> QED BY <2>2, NothingPromised
<1>f. ASSUME WriteLost PROVE Kept
  <2>1. ending' # "safe" /\ calm' = FALSE BY <1>f DEF WriteLost
  <2> QED BY <2>1, NothingPromised
<1>3. ASSUME CloseBegin PROVE Kept BY <1>f, <1>3, CloseBeginStores DEF CloseBegin
<1>4. ASSUME StoreHeader PROVE Kept BY <1>f, <1>1, <1>4, StoreHeaderStores DEF StoreHeader
<1>5. ASSUME FlushPage PROVE Kept BY <1>1, <1>5, FlushPageStores
<1>6. ASSUME NextTable PROVE Kept BY <1>1, <1>6, NextTableStores
<1>7. ASSUME CloseEnd PROVE Kept BY <1>1, <1>7, CloseEndStores
<1>8. ASSUME CloseAborts \/ MetaExit \/ Crash PROVE Kept
  <2>1. ending' # "safe" /\ calm' = FALSE BY <1>8 DEF CloseAborts, MetaExit, Crash
  <2> QED BY <2>1, NothingPromised
<1>9. ASSUME Open PROVE Kept
  <2>1. session' = "open" BY <1>9 DEF Open
  <2> QED BY <2>1, NothingPromised
<1>10. ASSUME OpenTorn PROVE Kept
  <2>1. /\ session = "closed" /\ session' = "undefined" /\ UNCHANGED disk
        /\ ending' = ending /\ expected' = expected /\ calm' = calm
    BY <1>10 DEF OpenTorn
  <2>2. StoreInv' /\ SafeInv' BY <2>1 DEF StoreInv, SafeInv, Closing
  <2>3. StoredInv' BY <1>1, <2>1, SameStored DEF AtRest
  <2> QED BY <2>2, <2>3
<1>11. ASSUME OpenRefused PROVE Kept BY <1>1, <1>11, SameSteps DEF OpenRefused
<1>12. ASSUME UNCHANGED vars PROVE Kept BY <1>1, <1>12, SameSteps
<1>13. CalmInv' BY <1>1, CalmStep
<1>14. Kept
  BY <1>2, <1>3, <1>4, <1>5, <1>6, <1>7, <1>8, <1>9, <1>10, <1>11, <1>12 DEF Next, CloseStep
<1> QED BY <1>13, <1>14 DEF StoreSteps

LEMMA StoreInvariant == Spec => [](TypeInv /\ StoreSteps)
<1>1. Init => TypeInv /\ StoreSteps BY InitTyped, InitStores
<1>2. TypeInv /\ StoreSteps /\ [Next]_vars => (TypeInv /\ StoreSteps)' BY StepTyped, StepStores
<1> QED BY <1>1, <1>2, PTL DEF Spec

\* Tables of one page, at different offsets, have no page in common.
LEMMA TidyApart ==
  ASSUME TypeInv, CalmInv, calm
  PROVE  \A t, u \in Tables : t # u => Extent(Table(t)) \cap Extent(Table(u)) = {}
<1> SUFFICES ASSUME NEW t \in Tables, NEW u \in Tables, t # u
             PROVE  Extent(Table(t)) \cap Extent(Table(u)) = {}
  OBVIOUS
<1>1. Tidy(EntriesOf(buckets)) BY DEF CalmInv
<1>2. ASSUME NEW w \in Tables
      PROVE  /\ Entry(w, Table(w)) \in EntriesOf(buckets) /\ Table(w) \in TableType
             /\ Entry(w, Table(w)).key = w /\ Entry(w, Table(w)).value = Table(w)
  BY TableInv DEF Entry
<1>3. ASSUME NEW w \in Tables
      PROVE  Extent(Table(w)) \in SUBSET {Table(w).page_offset}
  <2>1. Table(w).num_rows <= RowsPerPage BY <1>1, <1>2 DEF Tidy
  <2>2. LivePages(Table(w)) \in SUBSET {0} /\ Table(w).page_offset \in Nat
    BY <1>2, <2>1, TableFields, LivePagesAre DEF Offsets
  <2> QED BY <2>2 DEF Extent
<1>4. Table(t).page_offset # Table(u).page_offset
  <2>1. /\ Entry(t, Table(t)) \in EntriesOf(buckets) /\ Entry(u, Table(u)) \in EntriesOf(buckets)
        /\ Entry(t, Table(t)).key = t /\ Entry(t, Table(t)).value = Table(t)
        /\ Entry(u, Table(u)).key = u /\ Entry(u, Table(u)).value = Table(u)
    BY <1>2
  <2> QED BY <1>1, <2>1 DEF Tidy
<1> QED BY <1>3, <1>4

\* In a calm database no two tables have rows on one page of the file: what
\* table_position counts when a table is created is as many pages as there are
\* tables, and headers store and restore it (table_position, header_table_write).
THEOREM CalmTablesApart == Spec => []ExtentsDisjoint
<1>1. TypeInv /\ StoreSteps => ExtentsDisjoint
  BY TidyApart DEF StoreSteps, ExtentsDisjoint
<1> QED BY <1>1, StoreInvariant, PTL

\* What the restored map holds is what the headers and pages of the file do.
LEMMA RestoredContents ==
  ASSUME TypeInv, StoredInv, AtRest, ending = "safe"
  PROVE  Readable /\ ContentsOf(RestoredMap) = expected
<1> DEFINE b == RestoredMap
           rows(t) == [r \in 0 .. ValueAt(b, t).num_rows - 1 |-> RowAt(ValueAt(b, t), r)]
<1>1. Exact BY DEF Exact
<1>2. /\ count \in Nat /\ Readable /\ RestoredTo(b, count) /\ NamesDiffer(count)
      /\ \A k \in 0 .. count - 1 : slots[k] \in HeaderType
  BY <1>1, StoredHeaders
<1>3. /\ expected = [t \in StoredNames |-> expected[t]]
      /\ \A k \in 0 .. count - 1 : expected[slots[k].name] = Stored(slots[k])
  BY DEF StoredInv
<1>4. /\ IsMap(b) /\ \A e \in EntriesOf(b) : \E k \in 0 .. count - 1 : e = StoredEntry(k)
      /\ \A k \in 0 .. count - 1 : StoredEntry(k) \in EntriesOf(b)
  BY <1>2 DEF RestoredTo
<1>5. \A k \in 0 .. count - 1 : /\ StoredEntry(k).key = slots[k].name
                               /\ StoredEntry(k).value = Restored(slots[k])
  BY DEF StoredEntry, Entry
<1> HIDE DEF b
<1>6. TablesIn(b) = StoredNames BY <1>4, <1>5 DEF TablesIn, StoredNames
<1>7. ASSUME NEW k \in 0 .. count - 1
      PROVE  ValueAt(b, slots[k].name) = Restored(slots[k])
  <2>1. PICK t : t = slots[k].name OBVIOUS
  <2>2. PICK e : e = StoredEntry(k) OBVIOUS
  <2>3. e \in EntriesOf(b) /\ e.key = t /\ e.value = Restored(slots[k])
    BY <1>4, <1>5, <2>1, <2>2
  <2>4. t \in TablesIn(b) BY <2>3 DEF TablesIn
  <2>5. e = Entry(t, ValueAt(b, t)) BY <1>4, <2>3, <2>4, TableIs
  <2>6. e.value = ValueAt(b, t) BY <2>5 DEF Entry
  <2> QED BY <2>1, <2>3, <2>6
<1>8. ASSUME NEW t \in StoredNames PROVE rows(t) = expected[t]
  <2>1. PICK k \in 0 .. count - 1 : t = slots[k].name BY DEF StoredNames
  <2>2. PICK h : h = slots[k] OBVIOUS
  <2>3. h \in HeaderType /\ ValueAt(b, t) = Restored(h) /\ expected[t] = Stored(h)
    BY <1>2, <1>3, <1>7, <2>1, <2>2
  <2>4. /\ Restored(h).num_rows = h.num_rows /\ Restored(h) \in TableType
        /\ \A i \in LivePages(Restored(h)) : Restored(h).pages[i] = data[h.page_offset + i]
    BY <2>3, RestoredTable
  <2>5. ASSUME NEW r \in 0 .. h.num_rows - 1
        PROVE  RowAt(Restored(h), r) = data[h.page_offset + PageOf(r)][r % RowsPerPage]
    <3>1. PageOf(r) \in LivePages(Restored(h)) BY <2>4, TableFields
    <3>2. Restored(h).pages[PageOf(r)] = data[h.page_offset + PageOf(r)] BY <2>4, <3>1
    <3> QED BY <3>2 DEF RowAt
  <2>6. rows(t) = Stored(h) BY <2>3, <2>4, <2>5 DEF Stored
  <2> QED BY <2>3, <2>6
<1>9. ContentsOf(b) = [t \in TablesIn(b) |-> rows(t)] BY DEF ContentsOf
<1> HIDE DEF rows
<1>10. ContentsOf(b) = expected BY <1>3, <1>6, <1>8, <1>9
<1> QED BY <1>2, <1>10 DEF b

\* A close that sees every table once, has a header slot for each of them and
\* caches nothing stale stores the database: the next open brings back all
\* tables with all their rows (header_tables_store, header_tables_restore).
THEOREM SafeCloseIsRestored == Spec => []SafeCloseRestores
<1>1. TypeInv /\ StoreSteps => SafeCloseRestores
  BY RestoredContents DEF StoreSteps, SafeCloseRestores, AtRest
<1> QED BY <1>1, StoreInvariant, PTL
=============================================================================
