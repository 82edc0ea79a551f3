------------------------------- MODULE Chains -------------------------------
(***************************************************************************)
(* The hash map's data: buckets, each a chain of entries [key, value] from *)
(* the head on (core/hashmap).  What one lookup, insertion or removal does *)
(* to a chain, and in closed form what the loops of resize and of the      *)
(* iterator come to; module HashMap runs those loops and is checked        *)
(* against the closed forms, module Database uses them.                    *)
(***************************************************************************)
EXTENDS Integers, Sequences, FiniteSets, SequencesExt

CONSTANTS HashOf    \* the djb2 value of each key, as a function

\* hash(key, capacity)
Index(k, capacity) == HashOf[k] % capacity

Entry(k, v) == [key |-> k, value |-> v]

NoEntries(capacity) == [i \in 0 .. capacity - 1 |-> <<>>]
CapacityOf(buckets) == Cardinality(DOMAIN buckets)

\* bucket_find: the place of the first entry with key k in a chain, or 0.
FindIn(chain, k) == SelectInSeq(chain, LAMBDA e : e.key = k)

ChainOf(buckets, k) == buckets[Index(k, CapacityOf(buckets))]
Has(buckets, k) == FindIn(ChainOf(buckets, k), k) # 0
ValueAt(buckets, k) == ChainOf(buckets, k)[FindIn(ChainOf(buckets, k), k)].value

\* Mutant of Put: an entry is added without looking for the key.
MutPut(buckets, k, v) ==
  LET i == Index(k, CapacityOf(buckets))
  IN [buckets EXCEPT ![i] = <<Entry(k, v)>> \o @]

\* The new entry is put at the head of its chain; the value of an existing
\* one is replaced in place.
Put(buckets, k, v) ==
  LET i == Index(k, CapacityOf(buckets))
      n == FindIn(buckets[i], k)
  IN IF n = 0 THEN [buckets EXCEPT ![i] = <<Entry(k, v)>> \o @]
              ELSE [buckets EXCEPT ![i][n].value = v]

\* The first entry with key k is unlinked.
Unlink(buckets, k) ==
  LET i == Index(k, CapacityOf(buckets))
  IN [buckets EXCEPT ![i] = RemoveAt(@, FindIn(@, k))]

\* Load factor above 0.7 once one more entry is in.
Overloaded(size, capacity) == 10 * (size + 1) > 7 * capacity

\* Resizing moves every chain, head first, to the heads of new chains: the
\* new chain j takes from the old one the entries that hash to it.
Moved(chain, j, capacity) ==
  FoldLeft(LAMBDA new, e : IF Index(e.key, capacity) = j THEN <<e>> \o new ELSE new,
           <<>>, chain)
Resized(buckets) ==
  LET old == CapacityOf(buckets)
  IN [j \in 0 .. 2 * old - 1 |-> Moved(buckets[j % old], j, 2 * old)]

\* What the iterator returns of the chain in bucket i: all but its last
\* entry; and of a later bucket the head a first time before that.
VisitsOf(i, chain) ==
  IF chain = <<>> THEN <<>>
  ELSE (IF i = 0 THEN <<>> ELSE <<Head(chain)>>) \o Front(chain)

\* What a loop "while (has_next) next" sees, bucket by bucket.
Visits(buckets) ==
  FlattenSeq([n \in 1 .. CapacityOf(buckets) |-> VisitsOf(n - 1, buckets[n - 1])])

\* All entries of the map.
EntriesOf(buckets) == UNION {ToSet(buckets[i]) : i \in DOMAIN buckets}

\* The shape of a map whose iteration is exact: nothing in bucket 0, no
\* chain longer than one.
Flat(buckets) ==
  buckets[0] = <<>> /\ \A i \in DOMAIN buckets : Len(buckets[i]) <= 1

-----------------------------------------------------------------------------
(* The maps over some keys and values *)

EntriesIn(keys, values) == [key : keys, value : values]
MapsOver(n, keys, values) == [0 .. n - 1 -> Seq(EntriesIn(keys, values))]

\* Every entry is in the bucket its key hashes to, and a key occurs once: a
\* lookup, which searches one chain, cannot miss an entry or see an old one.
WellPlaced(buckets) ==
  \A i \in DOMAIN buckets : \A m, n \in DOMAIN buckets[i] :
    /\ Index(buckets[i][m].key, CapacityOf(buckets)) = i
    /\ buckets[i][m].key = buckets[i][n].key => m = n
=============================================================================
