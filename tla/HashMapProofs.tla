---------------------------- MODULE HashMapProofs ----------------------------
(***************************************************************************)
(* What is proved of the hash map for all keys, hash values, tables and    *)
(* first capacities: entries stay where lookups search, the size counts    *)
(* them, a resize loses none, the map is the one of TableMap, and the      *)
(* loops of resize and of the iterator come to the closed forms of Chains. *)
(***************************************************************************)
EXTENDS HashMap, ChainsProofs

LEMMA HashTyped == HashOf \in [Keys -> Nat]
BY MapAssumption

-----------------------------------------------------------------------------
(* The inductive invariant                                                 *)

\* e is in a bucket before the one a resize is at, or in that one and among
\* its first j.
Passed(e, j) ==
  \E i \in 0 .. capacity - 1 : \E p \in 1 .. Len(buckets[i]) :
    buckets[i][p] = e /\ (i < index \/ (i = index /\ p <= j))

\* rest is what follows the first j entries of the bucket.
RestFrom(j) ==
  /\ Len(rest) = Len(buckets[index]) - j
  /\ \A p \in 1 .. Len(rest) : rest[p] = buckets[index][j + p]

\* A resize has moved just the entries it has passed.
ResizeOK ==
  op = "resize" =>
    /\ pending \in Entries
    /\ Placed(moved, 2 * capacity)
    /\ \E j \in 0 .. Len(buckets[index]) :
         RestFrom(j) /\ EntriesOf(moved) = {e \in EntriesOf(buckets) : Passed(e, j)}

MapOK ==
  /\ capacity \in Nat \ {0} /\ buckets \in ChainsOver(capacity)
  /\ Placed(buckets, capacity)
  /\ IsFiniteSet(EntriesOf(buckets)) /\ SizeIsCount

IInv == TypeOK /\ MapOK /\ ResizeOK

LEMMA InitIInv == Init => IInv
<1> SUFFICES ASSUME Init PROVE IInv OBVIOUS
<1>1. capacity \in Nat \ {0} BY MapAssumption DEF Init
<1>2. \A i \in 0 .. capacity - 1 : buckets[i] = <<>> BY DEF Init, NoEntries
<1>3. buckets \in ChainsOver(capacity) BY <1>1, <1>2 DEF Init, NoEntries, ChainsOver, MapsOver, Entries
<1>4. Placed(buckets, capacity) BY <1>2 DEF Placed
<1>5. EntriesOf(buckets) = {}
  <2>1. ASSUME NEW e \in EntriesOf(buckets) PROVE FALSE BY <1>1, <1>2, <1>3, EntryAt DEF ChainsOver, Entries
  <2> QED BY <2>1
<1>6. IsFiniteSet(EntriesOf(buckets)) /\ SizeIsCount
  BY <1>1, <1>5, FS_EmptySet DEF SizeIsCount, Init
<1>7. MapOK BY <1>1, <1>3, <1>4, <1>6 DEF MapOK
<1>8. TypeOK
  <2>1. pending \in [key : Keys, value : Values \cup {NoTable}]
    BY MapAssumption DEF Init, NoPending, Entry
  <2>2. last \in [key : Keys \cup {NoTable}, value : Values \cup {NoTable}]
    BY DEF Init, Entry
  <2>3. size \in Nat /\ op = "idle" /\ moved = <<>> /\ index \in 0 .. capacity - 1
    BY <1>1 DEF Init
  <2>4. rest \in Seq(Entries) /\ visited \in Seq(Entries) BY DEF Init
  <2> QED BY <1>1, <1>3, <2>1, <2>2, <2>3, <2>4 DEF TypeOK
<1>9. ResizeOK BY DEF Init, ResizeOK
<1> QED BY <1>7, <1>8, <1>9 DEF IInv

\* The map itself is touched by Set, Delete and EndResize only.
LEMMA MapUnchanged ==
  ASSUME MapOK, UNCHANGED <<capacity, buckets, size>>
  PROVE  MapOK'
BY DEF MapOK, SizeIsCount

\* What is put into a map with room for one more entry leaves it in order.
LEMMA StoreKeeps ==
  ASSUME NEW n \in Nat \ {0}, NEW b \in ChainsOver(n), Placed(b, n),
         IsFiniteSet(EntriesOf(b)), 10 * (Cardinality(EntriesOf(b)) + 1) <= 7 * n,
         NEW k \in Keys, NEW v \in Values,
         capacity' = n, buckets' = Put(b, k, v),
         size' = IF Has(b, k) THEN Cardinality(EntriesOf(b)) ELSE Cardinality(EntriesOf(b)) + 1
  PROVE  MapOK' /\ size' \in Nat
<1>1. Put(b, k, v) \in ChainsOver(n) /\ Placed(Put(b, k, v), n) BY HashTyped, PutKeeps DEF ChainsOver, Entries
<1>2. /\ IsFiniteSet(EntriesOf(Put(b, k, v)))
      /\ Cardinality(EntriesOf(Put(b, k, v))) = size'
  BY HashTyped, PutCounts DEF ChainsOver, Entries
<1>3. Cardinality(EntriesOf(b)) \in Nat BY FS_CardinalityType
<1>4. size' \in Nat /\ 10 * size' <= 7 * n BY <1>3
<1>5. SizeIsCount' BY <1>2, <1>4 DEF SizeIsCount
<1> QED BY <1>1, <1>2, <1>4, <1>5 DEF MapOK

LEMMA SetKeeps ==
  ASSUME IInv, NEW k \in Keys, NEW v \in Values, Set(k, v)
  PROVE  IInv'
<1>1. /\ capacity \in Nat \ {0} /\ buckets \in ChainsOver(capacity)
      /\ Placed(buckets, capacity) /\ IsFiniteSet(EntriesOf(buckets))
      /\ size = Cardinality(EntriesOf(buckets)) /\ size \in Nat
  BY DEF IInv, MapOK, TypeOK, SizeIsCount
<1>2. /\ buckets' = Put(buckets, k, v) /\ last' = Entry(k, v)
      /\ size' = IF Has(buckets, k) THEN size ELSE size + 1
      /\ UNCHANGED <<capacity, op, pending, moved, index, rest, visited>>
      /\ op = "idle"
  BY DEF Set, Store, Entry
<1>3. 10 * (size + 1) <= 7 * capacity BY <1>1 DEF Set, Overloaded
<1>4. MapOK' /\ size' \in Nat BY <1>1, <1>2, <1>3, StoreKeeps
<1>5. last' \in [key : Keys \cup {NoTable}, value : Values \cup {NoTable}]
  BY <1>2 DEF Entry
<1>6. TypeOK' BY <1>2, <1>4, <1>5 DEF IInv, TypeOK, MapOK
<1>7. ResizeOK' BY <1>2 DEF ResizeOK
<1> QED BY <1>4, <1>6, <1>7 DEF IInv

LEMMA DeleteKeeps ==
  ASSUME IInv, NEW k \in Keys, Delete(k)
  PROVE  IInv'
<1>1. /\ capacity \in Nat \ {0} /\ buckets \in ChainsOver(capacity)
      /\ Placed(buckets, capacity) /\ IsFiniteSet(EntriesOf(buckets))
      /\ size = Cardinality(EntriesOf(buckets)) /\ 10 * size <= 7 * capacity
  BY DEF IInv, MapOK, SizeIsCount
<1>2. /\ Has(buckets, k) /\ buckets' = Unlink(buckets, k) /\ last' = Entry(k, NoTable)
      /\ size' = size - 1 /\ op = "idle"
      /\ UNCHANGED <<capacity, op, pending, moved, index, rest, visited>>
  BY DEF Delete
<1>3. Unlink(buckets, k) \in ChainsOver(capacity) /\ Placed(Unlink(buckets, k), capacity)
  BY HashTyped, <1>1, <1>2, UnlinkKeeps DEF ChainsOver, Entries
<1>4. /\ IsFiniteSet(EntriesOf(Unlink(buckets, k)))
      /\ size \in Nat \ {0}
      /\ Cardinality(EntriesOf(Unlink(buckets, k))) = size - 1
  BY HashTyped, <1>1, <1>2, UnlinkCounts DEF ChainsOver, Entries
<1>5. size' \in Nat /\ SizeIsCount' BY <1>1, <1>2, <1>4 DEF SizeIsCount
<1>6. MapOK' BY <1>1, <1>2, <1>3, <1>4, <1>5 DEF MapOK
<1>7. last' \in [key : Keys \cup {NoTable}, value : Values \cup {NoTable}]
  BY <1>2 DEF Entry
<1>8. TypeOK' BY <1>2, <1>5, <1>6, <1>7 DEF IInv, TypeOK, MapOK
<1>9. ResizeOK' BY <1>2 DEF ResizeOK
<1> QED BY <1>6, <1>8, <1>9 DEF IInv

-----------------------------------------------------------------------------
(* Resizing                                                                *)

LEMMA BeginResizeKeeps ==
  ASSUME IInv, NEW k \in Keys, NEW v \in Values, BeginResize(k, v)
  PROVE  IInv'
<1>1. /\ capacity \in Nat \ {0} /\ buckets \in ChainsOver(capacity)
      /\ 2 * capacity \in Nat \ {0} /\ 0 \in 0 .. capacity - 1
  BY DEF IInv, MapOK
<1>2. /\ op' = "resize" /\ pending' = Entry(k, v) /\ moved' = NoEntries(2 * capacity)
      /\ index' = 0 /\ rest' = buckets[0]
      /\ UNCHANGED <<capacity, buckets, size, last, visited>>
  BY DEF BeginResize, map
<1>3. MapOK' BY <1>2, MapUnchanged DEF IInv
<1>4. /\ moved' \in ChainsOver(2 * capacity) /\ Placed(moved', 2 * capacity)
      /\ EntriesOf(moved') = {}
  BY <1>1, <1>2, EmptyKeeps DEF ChainsOver, Entries
<1>5. pending' \in Entries BY <1>2 DEF Entry, Entries, EntriesIn
<1>6. rest' \in Seq(Entries) BY <1>1, <1>2 DEF ChainsOver, MapsOver, Entries
<1>7. TypeOK' BY <1>1, <1>2, <1>4, <1>5, <1>6 DEF IInv, TypeOK, Entries, EntriesIn
<1>8. ResizeOK'
  <2>1. RestFrom(0)' BY <1>2, <1>6 DEF RestFrom
  <2>2. \A e : ~Passed(e, 0)' BY <1>2 DEF Passed
  <2>3. 0 \in 0 .. Len(buckets'[index']) BY <1>2, <1>6
  <2> QED BY <1>2, <1>4, <1>5, <2>1, <2>2, <2>3 DEF ResizeOK
<1> QED BY <1>3, <1>7, <1>8 DEF IInv

LEMMA MoveEntryKeeps ==
  ASSUME IInv, MoveEntry
  PROVE  IInv'
<1>1. /\ capacity \in Nat \ {0} /\ buckets \in ChainsOver(capacity)
      /\ Placed(buckets, capacity) /\ 2 * capacity \in Nat \ {0}
      /\ moved \in ChainsOver(2 * capacity)
      /\ index \in 0 .. capacity - 1 /\ rest \in Seq(Entries)
  BY DEF IInv, MapOK, TypeOK, MoveEntry
<1> DEFINE chain == buckets[index]
           e == Head(rest)
<1>2. /\ op = "resize" /\ rest # <<>> /\ rest' = Tail(rest)
      /\ moved' = [moved EXCEPT ![Index(e.key, 2 * capacity)] = <<e>> \o @]
      /\ UNCHANGED <<capacity, buckets, size, last, op, pending, index, visited>>
  BY DEF MoveEntry, map
<1>3. PICK j \in 0 .. Len(chain) :
        RestFrom(j) /\ EntriesOf(moved) = {f \in EntriesOf(buckets) : Passed(f, j)}
  BY <1>2 DEF IInv, ResizeOK
<1>4. chain \in Seq(Entries) /\ Len(chain) \in Nat BY <1>1 DEF ChainsOver, MapsOver, Entries
<1>5. j + 1 \in 1 .. Len(chain) /\ e = chain[j + 1] /\ e \in Entries
  BY <1>1, <1>2, <1>3, <1>4 DEF RestFrom
<1>6. e \in EntriesOf(buckets) BY <1>1, <1>5, EntryAt DEF ChainsOver, Entries
<1>7. ASSUME NEW f \in EntriesOf(moved) PROVE f.key # e.key
  <2>1. SUFFICES ASSUME f.key = e.key PROVE FALSE OBVIOUS
  <2>2. f \in EntriesOf(buckets) /\ Passed(f, j) BY <1>3
  <2>3. PICK i \in 0 .. capacity - 1 : \E p \in 1 .. Len(buckets[i]) :
          buckets[i][p] = f /\ (i < index \/ (i = index /\ p <= j))
    BY <2>2 DEF Passed
  <2>4. PICK p \in 1 .. Len(buckets[i]) :
          buckets[i][p] = f /\ (i < index \/ (i = index /\ p <= j))
    BY <2>3
  <2> HIDE DEF e
  <2>5. i = index
    <3>1. Index(f.key, capacity) = i BY <1>1, <2>4 DEF Placed
    <3>2. Index(e.key, capacity) = index BY <1>1, <1>5 DEF Placed
    <3> QED BY <2>1, <3>1, <3>2
  <2>6. p = j + 1 BY <1>1, <1>5, <2>1, <2>4, <2>5 DEF Placed
  <2> QED BY <1>1, <2>4, <2>5, <2>6
<1>8. /\ moved' \in ChainsOver(2 * capacity) /\ Placed(moved', 2 * capacity)
      /\ EntriesOf(moved') = EntriesOf(moved) \cup {e}
  <2>1. Placed(moved, 2 * capacity) BY <1>2 DEF IInv, ResizeOK
  <2> DEFINE n == 2 * capacity
             c == Pushed(moved, e, n)
  <2>2. moved' = c BY <1>2 DEF Pushed
  <2>3. n \in Nat \ {0} /\ moved \in ChainsOver(n) /\ Placed(moved, n) /\ e \in Entries
    BY <1>1, <1>5, <2>1
  <2>4. Lacks(moved, e.key) BY <1>7 DEF Lacks
  <2>5. c \in ChainsOver(n) /\ Placed(c, n) /\ EntriesOf(c) = EntriesOf(moved) \cup {e}
    <3> HIDE DEF e, n
    <3> QED BY HashTyped, <2>3, <2>4, PushKeeps DEF ChainsOver, Entries
  <2> QED BY <2>2, <2>5
<1>9. MapOK' BY <1>2, MapUnchanged DEF IInv
<1>10. rest' \in Seq(Entries) BY <1>1, <1>2
<1>11. TypeOK' BY <1>1, <1>2, <1>8, <1>10 DEF IInv, TypeOK
<1>12. RestFrom(j + 1)'
  <2>1. Len(rest') = Len(rest) - 1 /\ \A p \in 1 .. Len(rest') : rest'[p] = rest[p + 1]
    BY <1>1, <1>2
  <2>2. /\ Len(rest) = Len(chain) - j /\ \A p \in 1 .. Len(rest) : rest[p] = chain[j + p]
        /\ Len(rest) \in Nat
    BY <1>1, <1>3 DEF RestFrom
  <2>3. Len(rest') = Len(chain) - (j + 1) BY <1>4, <2>1, <2>2
  <2>4. ASSUME NEW p \in 1 .. Len(rest') PROVE rest'[p] = chain[(j + 1) + p]
    <3>1. p + 1 \in 1 .. Len(rest) /\ j + (p + 1) = (j + 1) + p BY <2>1, <2>2
    <3> QED BY <2>1, <2>2, <3>1
  <2> QED BY <1>2, <2>3, <2>4 DEF RestFrom
<1>13. ASSUME NEW f PROVE Passed(f, j + 1)' <=> Passed(f, j) \/ f = e
  <2>1. ASSUME Passed(f, j) PROVE Passed(f, j + 1)' BY <1>2, <2>1 DEF Passed
  <2>2. ASSUME f = e PROVE Passed(f, j + 1)' BY <1>1, <1>2, <1>5, <2>2 DEF Passed
  <2>3. ASSUME Passed(f, j + 1)' PROVE Passed(f, j) \/ f = e
    <3>1. PICK i \in 0 .. capacity - 1 : \E p \in 1 .. Len(buckets[i]) :
            buckets[i][p] = f /\ (i < index \/ (i = index /\ p <= j + 1))
      BY <1>2, <2>3 DEF Passed
    <3>2. PICK p \in 1 .. Len(buckets[i]) :
            buckets[i][p] = f /\ (i < index \/ (i = index /\ p <= j + 1))
      BY <3>1
    <3>3. CASE i = index /\ p = j + 1 BY <1>5, <3>2, <3>3
    <3>4. CASE ~(i = index /\ p = j + 1)
      <4>1. i < index \/ (i = index /\ p <= j) BY <3>2, <3>4
      <4> QED BY <3>2, <4>1 DEF Passed
    <3> QED BY <3>3, <3>4
  <2> QED BY <2>1, <2>2, <2>3
<1>14. EntriesOf(moved') = {f \in EntriesOf(buckets') : Passed(f, j + 1)'}
  BY <1>2, <1>3, <1>6, <1>8, <1>13
<1>15. ResizeOK'
  <2>1. j + 1 \in 0 .. Len(buckets'[index']) BY <1>2, <1>5
  <2>2. pending' \in Entries BY <1>2 DEF IInv, ResizeOK
  <2> QED BY <1>2, <1>8, <1>12, <1>14, <2>1, <2>2 DEF ResizeOK
<1> QED BY <1>9, <1>11, <1>15 DEF IInv

LEMMA NextChainKeeps ==
  ASSUME IInv, NextChain
  PROVE  IInv'
<1>1. /\ capacity \in Nat \ {0} /\ buckets \in ChainsOver(capacity)
      /\ index \in 0 .. capacity - 1 /\ index + 1 \in 0 .. capacity - 1
  BY DEF IInv, MapOK, TypeOK, NextChain
<1>2. /\ op = "resize" /\ rest = <<>> /\ index' = index + 1 /\ rest' = buckets[index + 1]
      /\ UNCHANGED <<capacity, buckets, size, last, op, pending, moved, visited>>
  BY DEF NextChain, map
<1>3. PICK j \in 0 .. Len(buckets[index]) :
        RestFrom(j) /\ EntriesOf(moved) = {f \in EntriesOf(buckets) : Passed(f, j)}
  BY <1>2 DEF IInv, ResizeOK
<1>4. \A i \in 0 .. capacity - 1 : buckets[i] \in Seq(Entries) /\ Len(buckets[i]) \in Nat
  BY <1>1 DEF ChainsOver, MapsOver, Entries
<1>5. j = Len(buckets[index])
  <2>1. Len(rest) = 0 BY <1>2
  <2> QED BY <1>1, <1>3, <1>4, <2>1 DEF RestFrom
<1>6. ASSUME NEW f PROVE Passed(f, 0)' <=> Passed(f, j)
  <2>1. ASSUME Passed(f, 0)' PROVE Passed(f, j)
    <3>1. PICK i \in 0 .. capacity - 1 : \E p \in 1 .. Len(buckets[i]) :
            buckets[i][p] = f /\ (i < index + 1 \/ (i = index + 1 /\ p <= 0))
      BY <1>2, <2>1, Zenon DEF Passed
    <3>2. PICK p \in 1 .. Len(buckets[i]) :
            buckets[i][p] = f /\ (i < index + 1 \/ (i = index + 1 /\ p <= 0))
      BY <3>1, Zenon
    <3>3. Len(buckets[i]) \in Nat BY <1>4
    <3>4. i < index \/ (i = index /\ p <= j) BY <1>1, <1>5, <3>2, <3>3
    <3> QED BY <3>2, <3>4, Zenon DEF Passed
  <2>2. ASSUME Passed(f, j) PROVE Passed(f, 0)'
    <3>1. PICK i \in 0 .. capacity - 1 : \E p \in 1 .. Len(buckets[i]) :
            buckets[i][p] = f /\ (i < index \/ (i = index /\ p <= j))
      BY <2>2, Zenon DEF Passed
    <3>2. PICK p \in 1 .. Len(buckets[i]) : buckets[i][p] = f BY <3>1, Zenon
    <3>3. i < index + 1 BY <1>1, <3>1
    <3> QED BY <1>2, <3>2, <3>3, Zenon DEF Passed
  <2> QED BY <2>1, <2>2
<1>7. MapOK' BY <1>2, MapUnchanged DEF IInv
<1>8. TypeOK' BY <1>1, <1>2, <1>4 DEF IInv, TypeOK
<1>9. ResizeOK'
  <2>1. RestFrom(0)' BY <1>1, <1>2, <1>4 DEF RestFrom
  <2>2. EntriesOf(moved') = {f \in EntriesOf(buckets') : Passed(f, 0)'} BY <1>2, <1>3, <1>6
  <2>3. 0 \in 0 .. Len(buckets'[index']) BY <1>1, <1>2, <1>4
  <2>4. pending' \in Entries /\ Placed(moved', 2 * capacity') BY <1>2 DEF IInv, ResizeOK
  <2> QED BY <2>1, <2>2, <2>3, <2>4 DEF ResizeOK
<1> QED BY <1>7, <1>8, <1>9 DEF IInv

\* When the last bucket is done, the new buckets have all the entries.
LEMMA AllMoved ==
  ASSUME IInv, op = "resize", rest = <<>>, index + 1 = capacity
  PROVE  EntriesOf(moved) = EntriesOf(buckets)
<1>1. capacity \in Nat \ {0} /\ buckets \in ChainsOver(capacity) /\ index \in 0 .. capacity - 1
  BY DEF IInv, MapOK, TypeOK
<1>2. PICK j \in 0 .. Len(buckets[index]) :
        RestFrom(j) /\ EntriesOf(moved) = {f \in EntriesOf(buckets) : Passed(f, j)}
  BY DEF IInv, ResizeOK
<1>3. j = Len(buckets[index])
  <2>1. Len(rest) = 0 /\ Len(buckets[index]) \in Nat BY <1>1 DEF ChainsOver, MapsOver, Entries
  <2> QED BY <1>2, <2>1 DEF RestFrom
<1>4. ASSUME NEW f \in EntriesOf(buckets) PROVE Passed(f, j)
  <2>1. PICK i \in 0 .. capacity - 1 : \E p \in 1 .. Len(buckets[i]) : buckets[i][p] = f
    BY <1>1, EntryAt DEF ChainsOver, Entries
  <2>2. i < index \/ i = index BY <1>1
  <2> QED BY <1>3, <2>1, <2>2 DEF Passed
<1> QED BY <1>2, <1>4

LEMMA EndResizeKeeps ==
  ASSUME IInv, EndResize
  PROVE  IInv'
<1>1. /\ capacity \in Nat \ {0} /\ 2 * capacity \in Nat \ {0}
      /\ moved \in ChainsOver(2 * capacity) /\ Placed(moved, 2 * capacity)
      /\ IsFiniteSet(EntriesOf(buckets)) /\ size = Cardinality(EntriesOf(buckets))
      /\ size \in Nat /\ 10 * size <= 7 * capacity
      /\ pending \in Entries
  BY DEF IInv, MapOK, TypeOK, ResizeOK, SizeIsCount, EndResize
<1>2. /\ op' = "idle" /\ pending' = NoPending /\ moved' = <<>> /\ index' = 0
      /\ capacity' = 2 * capacity /\ last' = pending
      /\ buckets' = Put(moved, pending.key, pending.value)
      /\ size' = IF Has(moved, pending.key) THEN size ELSE size + 1
      /\ UNCHANGED <<rest, visited>>
  BY DEF EndResize
<1>3. EntriesOf(moved) = EntriesOf(buckets) BY AllMoved DEF EndResize
<1>4. pending.key \in Keys /\ pending.value \in Values BY <1>1 DEF Entries, EntriesIn
<1>5. 10 * (size + 1) <= 7 * (2 * capacity) BY <1>1
<1>6. MapOK' /\ size' \in Nat
  <2>1. /\ IsFiniteSet(EntriesOf(moved)) /\ size = Cardinality(EntriesOf(moved))
        /\ 10 * (Cardinality(EntriesOf(moved)) + 1) <= 7 * (2 * capacity)
    BY <1>1, <1>3, <1>5
  <2> QED BY <1>1, <1>2, <1>4, <2>1, StoreKeeps
<1>7. pending' \in [key : Keys, value : Values \cup {NoTable}]
  BY <1>2, MapAssumption DEF NoPending, Entry
<1>8. last' \in [key : Keys \cup {NoTable}, value : Values \cup {NoTable}]
  BY <1>1, <1>2 DEF Entries, EntriesIn
<1>9. TypeOK' BY <1>1, <1>2, <1>6, <1>7, <1>8 DEF IInv, TypeOK, MapOK
<1>10. ResizeOK' BY <1>2 DEF ResizeOK
<1> QED BY <1>6, <1>9, <1>10 DEF IInv

-----------------------------------------------------------------------------
(* Iterating                                                               *)

LEMMA IterateKeeps ==
  ASSUME IInv, BeginIterate \/ IterateStep
  PROVE  IInv'
<1>1. /\ capacity \in Nat \ {0} /\ buckets \in ChainsOver(capacity)
      /\ 0 \in 0 .. capacity - 1
  BY DEF IInv, MapOK
<1>2. UNCHANGED <<capacity, buckets, size, last, pending, moved>> /\ op # "resize"
  BY DEF BeginIterate, IterateStep, Step, EndIterate, map
<1>3. op' \in {"idle", "iterate"} BY DEF BeginIterate, IterateStep, Step, EndIterate
<1>4. MapOK' BY <1>2, MapUnchanged DEF IInv
<1>5. \A i \in 0 .. capacity - 1 : buckets[i] \in Seq(Entries) BY <1>1 DEF ChainsOver, MapsOver, Entries
<1>6. index' \in 0 .. capacity - 1 /\ rest' \in Seq(Entries) /\ visited' \in Seq(Entries)
  <2>1. CASE BeginIterate BY <1>1, <1>5, <2>1 DEF BeginIterate
  <2>2. CASE EndIterate BY <1>1, <2>2 DEF EndIterate
  <2>3. CASE Step /\ Len(rest) > 1
    <3>1. /\ visited' = Append(visited, Head(rest)) /\ rest' = Tail(rest) /\ index' = index
      BY <2>3 DEF Step
    <3>2. rest \in Seq(Entries) /\ visited \in Seq(Entries) /\ index \in 0 .. capacity - 1
      BY DEF IInv, TypeOK
    <3>3. rest # <<>> BY <2>3
    <3>4. Head(rest) \in Entries /\ Tail(rest) \in Seq(Entries) BY <3>2, <3>3
    <3> QED BY <3>1, <3>2, <3>4
  <2>4. CASE Step /\ ~(Len(rest) > 1)
    <3>1. /\ Later # {} /\ index' = NextBucket /\ rest' = buckets[NextBucket]
          /\ visited' = Append(visited, Head(buckets[NextBucket]))
      BY <2>4 DEF Step, HasNext
    <3>2. DOMAIN buckets = 0 .. capacity - 1 BY <1>1, CapacityIs DEF ChainsOver, Entries
    <3>3. Later \in SUBSET Nat BY <3>2 DEF Later
    <3>4. \E i \in Later : \A j \in Later : i <= j BY <3>1, <3>3, LeastExists
    <3>5. NextBucket \in Later BY <3>4 DEF NextBucket
    <3>6. NextBucket \in 0 .. capacity - 1 /\ buckets[NextBucket] # <<>>
      BY <3>2, <3>5 DEF Later
    <3>7. buckets[NextBucket] \in Seq(Entries) BY <1>5, <3>6
    <3>8. Head(buckets[NextBucket]) \in Entries BY <3>6, <3>7
    <3>9. visited \in Seq(Entries) BY DEF IInv, TypeOK
    <3> QED BY <3>1, <3>6, <3>7, <3>8, <3>9
  <2> QED BY <2>1, <2>2, <2>3, <2>4 DEF IterateStep
<1>7. TypeOK' BY <1>1, <1>2, <1>3, <1>6 DEF IInv, TypeOK
<1>8. ResizeOK' BY <1>3 DEF ResizeOK
<1> QED BY <1>4, <1>7, <1>8 DEF IInv

LEMMA StepIInv == IInv /\ [Next]_vars => IInv'
<1> SUFFICES ASSUME IInv, [Next]_vars PROVE IInv' OBVIOUS
<1>1. ASSUME NEW k \in Keys, NEW v \in Values, Set(k, v) \/ BeginResize(k, v) PROVE IInv'
  BY <1>1, SetKeeps, BeginResizeKeeps
<1>2. CASE ResizeStep
  BY <1>2, MoveEntryKeeps, NextChainKeeps, EndResizeKeeps DEF ResizeStep
<1>3. ASSUME NEW k \in Keys, Delete(k) PROVE IInv' BY <1>3, DeleteKeeps
<1>4. CASE BeginIterate \/ IterateStep BY <1>4, IterateKeeps
<1>5. CASE UNCHANGED vars
  <2>1. MapOK' BY <1>5, MapUnchanged DEF IInv, vars
  <2>2. TypeOK' BY <1>5 DEF IInv, TypeOK, vars
  <2>3. ResizeOK' BY <1>5 DEF IInv, ResizeOK, RestFrom, Passed, vars
  <2> QED BY <2>1, <2>2, <2>3 DEF IInv
<1> QED BY <1>1, <1>2, <1>3, <1>4, <1>5 DEF Next

LEMMA Inductive == Spec => []IInv
BY InitIInv, StepIInv, PTL DEF Spec

-----------------------------------------------------------------------------
(* The theorems                                                            *)

\* The state has its types: among others size never falls below zero.
THEOREM TypeCorrect == Spec => []TypeOK
<1>1. IInv => TypeOK BY DEF IInv
<1> QED BY <1>1, Inductive, PTL

\* Every entry is where a lookup searches, and a name has one entry, for
\* every hash function, capacity and history of sets, deletes and resizes.
THEOREM LookupsFind == Spec => []MapWellPlaced
<1>1. IInv => MapWellPlaced BY PlacedIs DEF IInv, MapOK, MapWellPlaced, ChainsOver, Entries
<1> QED BY <1>1, Inductive, PTL

\* size is the number of entries, and the load factor is kept.
THEOREM SizeCorrect == Spec => []SizeIsCount
<1>1. IInv => SizeIsCount BY DEF IInv, MapOK
<1> QED BY <1>1, Inductive, PTL

\* An entry is passed, in the rest of the chain at hand, or in a later one.
LEMMA WhereEntriesAre ==
  ASSUME IInv, op = "resize"
  PROVE  NothingLostInResize
<1>1. /\ capacity \in Nat \ {0} /\ buckets \in ChainsOver(capacity)
      /\ Placed(buckets, capacity) /\ 2 * capacity \in Nat \ {0}
      /\ moved \in ChainsOver(2 * capacity) /\ Placed(moved, 2 * capacity)
      /\ index \in 0 .. capacity - 1 /\ rest \in Seq(Entries)
  BY DEF IInv, MapOK, TypeOK, ResizeOK
<1>2. PICK j \in 0 .. Len(buckets[index]) :
        RestFrom(j) /\ EntriesOf(moved) = {f \in EntriesOf(buckets) : Passed(f, j)}
  BY DEF IInv, ResizeOK
<1> DEFINE later == UNION {ToSet(buckets[i]) : i \in index + 1 .. capacity - 1}
<1>3. \A i \in 0 .. capacity - 1 :
        /\ buckets[i] \in Seq(Entries) /\ Len(buckets[i]) \in Nat
        /\ \A e : e \in ToSet(buckets[i]) <=> \E p \in 1 .. Len(buckets[i]) : buckets[i][p] = e
  <2>1. SUFFICES ASSUME NEW i \in 0 .. capacity - 1
                 PROVE  /\ buckets[i] \in Seq(Entries) /\ Len(buckets[i]) \in Nat
                        /\ \A e : e \in ToSet(buckets[i])
                                <=> \E p \in 1 .. Len(buckets[i]) : buckets[i][p] = e
    BY Zenon
  <2>2. buckets[i] \in Seq(Entries) BY <1>1 DEF ChainsOver, MapsOver, Entries
  <2>3. Len(buckets[i]) \in Nat /\ DOMAIN buckets[i] = 1 .. Len(buckets[i]) BY <2>2
  <2> QED BY <2>2, <2>3, Zenon DEF ToSet
<1>4. \A e : e \in ToSet(rest) <=> \E p \in 1 .. Len(rest) : rest[p] = e
  BY <1>1 DEF ToSet
<1>5. /\ Len(rest) = Len(buckets[index]) - j
      /\ \A p \in 1 .. Len(rest) :
           j + p \in 1 .. Len(buckets[index]) /\ rest[p] = buckets[index][j + p]
  <2>1. /\ Len(rest) = Len(buckets[index]) - j
        /\ \A p \in 1 .. Len(rest) : rest[p] = buckets[index][j + p]
    BY <1>2 DEF RestFrom
  <2>2. Len(buckets[index]) \in Nat BY <1>1, <1>3
  <2>3. \A p \in 1 .. Len(rest) : j + p \in 1 .. Len(buckets[index]) BY <2>1, <2>2
  <2> QED BY <2>1, <2>3
<1>6. ASSUME NEW e \in EntriesOf(buckets)
      PROVE  e \in EntriesOf(moved) \cup ToSet(rest) \cup later
  <2>1. PICK i \in 0 .. capacity - 1 : \E p \in 1 .. Len(buckets[i]) : buckets[i][p] = e
    BY <1>1, EntryAt DEF ChainsOver, Entries
  <2>2. PICK p \in 1 .. Len(buckets[i]) : buckets[i][p] = e BY <2>1
  <2>3. CASE i < index \/ (i = index /\ p <= j)
    <3>1. Passed(e, j) BY <2>2, <2>3 DEF Passed
    <3> QED BY <1>2, <3>1
  <2>4. CASE i = index /\ p > j
    <3>1. p - j \in 1 .. Len(rest) /\ j + (p - j) = p BY <1>3, <1>5, <2>4
    <3>2. rest[p - j] = e BY <1>5, <2>2, <2>4, <3>1
    <3> QED BY <1>4, <3>1, <3>2
  <2>5. CASE i > index
    <3>1. i \in index + 1 .. capacity - 1 BY <1>1, <2>5
    <3>2. e \in ToSet(buckets[i]) BY <1>3, <2>2
    <3> QED BY <3>1, <3>2
  <2> QED BY <1>1, <1>3, <2>3, <2>4, <2>5
<1>7. ASSUME NEW e \in ToSet(rest) PROVE e \in EntriesOf(buckets) /\ e \notin EntriesOf(moved)
  <2>1. PICK p \in 1 .. Len(rest) : rest[p] = e BY <1>4
  <2>2. j + p \in 1 .. Len(buckets[index]) /\ buckets[index][j + p] = e BY <1>5, <2>1
  <2>3. e \in EntriesOf(buckets) BY <1>1, <2>2, EntryAt DEF ChainsOver, Entries
  <2>4. SUFFICES ASSUME Passed(e, j) PROVE FALSE BY <1>2, <2>3
  <2>5. PICK i \in 0 .. capacity - 1 : \E q \in 1 .. Len(buckets[i]) :
          buckets[i][q] = e /\ (i < index \/ (i = index /\ q <= j))
    BY <2>4 DEF Passed
  <2>6. PICK q \in 1 .. Len(buckets[i]) :
          buckets[i][q] = e /\ (i < index \/ (i = index /\ q <= j))
    BY <2>5
  <2>7. i = index
    <3>1. Index(e.key, capacity) = i BY <1>1, <2>6 DEF Placed
    <3>2. Index(e.key, capacity) = index BY <1>1, <2>2 DEF Placed
    <3> QED BY <3>1, <3>2
  <2>8. q = j + p BY <1>1, <2>2, <2>6, <2>7 DEF Placed
  <2> QED BY <1>1, <1>3, <2>6, <2>7, <2>8
<1>8. ASSUME NEW e \in later PROVE e \in EntriesOf(buckets)
  <2>1. PICK i \in index + 1 .. capacity - 1 : e \in ToSet(buckets[i]) OBVIOUS
  <2>2. i \in 0 .. capacity - 1 BY <1>1
  <2>3. PICK p \in 1 .. Len(buckets[i]) : buckets[i][p] = e BY <1>3, <2>1, <2>2
  <2> QED BY <1>1, <2>2, <2>3, EntryAt DEF ChainsOver, Entries
<1>9. EntriesOf(moved) \subseteq EntriesOf(buckets) BY <1>2
<1>10. WellPlaced(moved) BY <1>1, PlacedIs DEF ChainsOver, Entries
<1>11. EntriesOf(buckets) = EntriesOf(moved) \cup ToSet(rest) \cup later
  <2> HIDE DEF later
  <2> QED BY <1>6, <1>7, <1>8, <1>9
<1> QED BY <1>7, <1>10, <1>11 DEF NothingLostInResize

\* Whatever a resize is at, each entry is in the new buckets or still to be
\* moved, and not in both places.
THEOREM ResizeLosesNothing == Spec => []NothingLostInResize
<1>1. IInv => NothingLostInResize BY WhereEntriesAre DEF NothingLostInResize
<1> QED BY <1>1, Inductive, PTL

-----------------------------------------------------------------------------
(* The map is the one of TableMap                                          *)

MapOf(b) == [k \in Keys |-> IF Has(b, k) THEN ValueAt(b, k) ELSE NoTable]

\* The map is a function of the entries, wherever they are placed.
LEMMA MapOfEntries ==
  ASSUME NEW n \in Nat \ {0}, NEW b \in ChainsOver(n), Placed(b, n), NEW k \in Keys
  PROVE  /\ \A e \in EntriesOf(b) : e.key = k => MapOf(b)[k] = e.value
         /\ (\A e \in EntriesOf(b) : e.key # k) => MapOf(b)[k] = NoTable
<1>1. Has(b, k) <=> \E e \in EntriesOf(b) : e.key = k BY HashTyped, HasMeans DEF ChainsOver, Entries
<1>2. \A e \in EntriesOf(b) : e.key = k => ValueAt(b, k) = e.value BY HashTyped, HasMeans DEF ChainsOver, Entries
<1> QED BY <1>1, <1>2 DEF MapOf

LEMMA SameEntriesSameMap ==
  ASSUME NEW n \in Nat \ {0}, NEW b \in ChainsOver(n), Placed(b, n),
         NEW m \in Nat \ {0}, NEW c \in ChainsOver(m), Placed(c, m),
         EntriesOf(b) = EntriesOf(c)
  PROVE  MapOf(b) = MapOf(c)
<1>1. ASSUME NEW k \in Keys PROVE MapOf(b)[k] = MapOf(c)[k]
  <2>1. CASE \E e \in EntriesOf(b) : e.key = k
    <3>1. PICK e \in EntriesOf(b) : e.key = k BY <2>1
    <3>2. MapOf(b)[k] = e.value BY <3>1, MapOfEntries
    <3>3. MapOf(c)[k] = e.value BY <3>1, MapOfEntries
    <3> QED BY <3>2, <3>3
  <2>2. CASE \A e \in EntriesOf(b) : e.key # k
    <3>1. MapOf(b)[k] = NoTable BY <2>2, MapOfEntries
    <3>2. MapOf(c)[k] = NoTable BY <2>2, MapOfEntries
    <3> QED BY <3>1, <3>2
  <2> QED BY <2>1, <2>2
<1> QED BY <1>1 DEF MapOf

LEMMA PutChanges ==
  ASSUME NEW n \in Nat \ {0}, NEW b \in ChainsOver(n), Placed(b, n),
         NEW k \in Keys, NEW v \in Values
  PROVE  MapOf(Put(b, k, v)) = [MapOf(b) EXCEPT ![k] = v]
<1> DEFINE c == Put(b, k, v)
<1>0. b \in MapsOver(n, Keys, Values) BY DEF ChainsOver, Entries
<1>1. c \in ChainsOver(n) /\ Placed(c, n)
  BY <1>0, HashTyped, PutKeeps, Zenon DEF ChainsOver, Entries
<1>2. EntriesOf(c) = {f \in EntriesOf(b) : f.key # k} \cup {Entry(k, v)}
  <2>1. EntriesOf(c) = Updated(b, k, v) BY <1>0, HashTyped, PutKeeps
  <2> QED BY <2>1 DEF Updated, Others
<1>3. Entry(k, v).key = k /\ Entry(k, v).value = v BY DEF Entry
<1> HIDE DEF c
<1>4. MapOf(c)[k] = v
  <2>1. Entry(k, v) \in EntriesOf(c) BY <1>2
  <2> QED BY <1>1, <1>3, <2>1, MapOfEntries
<1>5. ASSUME NEW l \in Keys, l # k PROVE MapOf(c)[l] = MapOf(b)[l]
  <2>1. CASE \E e \in EntriesOf(b) : e.key = l
    <3>1. PICK e \in EntriesOf(b) : e.key = l BY <2>1
    <3>2. e \in EntriesOf(c) BY <1>2, <1>5, <3>1
    <3>3. MapOf(b)[l] = e.value BY <3>1, MapOfEntries
    <3>4. MapOf(c)[l] = e.value BY <1>1, <3>1, <3>2, MapOfEntries
    <3> QED BY <3>3, <3>4
  <2>2. CASE \A e \in EntriesOf(b) : e.key # l
    <3>1. \A e \in EntriesOf(c) : e.key # l BY <1>2, <1>3, <1>5, <2>2
    <3>2. MapOf(b)[l] = NoTable BY <2>2, MapOfEntries
    <3>3. MapOf(c)[l] = NoTable BY <1>1, <3>1, MapOfEntries
    <3> QED BY <3>2, <3>3
  <2> QED BY <2>1, <2>2
<1>6. MapOf(c) = [MapOf(b) EXCEPT ![k] = v] BY <1>4, <1>5 DEF MapOf
<1> QED BY <1>6 DEF c

LEMMA UnlinkChanges ==
  ASSUME NEW n \in Nat \ {0}, NEW b \in ChainsOver(n), Placed(b, n),
         NEW k \in Keys, Has(b, k)
  PROVE  /\ MapOf(b)[k] # NoTable
         /\ MapOf(Unlink(b, k)) = [MapOf(b) EXCEPT ![k] = NoTable]
<1> DEFINE c == Unlink(b, k)
<1>0. b \in MapsOver(n, Keys, Values) BY DEF ChainsOver, Entries
<1>1. c \in ChainsOver(n) /\ Placed(c, n)
  BY <1>0, HashTyped, UnlinkKeeps, Zenon DEF ChainsOver, Entries
<1>2. EntriesOf(c) = {f \in EntriesOf(b) : f.key # k}
  <2>1. EntriesOf(c) = Others(b, k) BY <1>0, HashTyped, UnlinkKeeps
  <2> QED BY <2>1 DEF Others
<1> HIDE DEF c
<1>3. MapOf(b)[k] # NoTable
  <2>1. PICK e \in EntriesOf(b) : e.key = k BY HashTyped, HasMeans DEF ChainsOver, Entries
  <2>2. e \in Entries BY EntryAt DEF ChainsOver, Entries
  <2>3. e.value # NoTable BY <2>2, MapAssumption DEF Entries, EntriesIn
  <2> QED BY <2>1, <2>3, MapOfEntries
<1>4. MapOf(c)[k] = NoTable
  <2>1. \A e \in EntriesOf(c) : e.key # k BY <1>2
  <2> QED BY <1>1, <2>1, MapOfEntries
<1>5. ASSUME NEW l \in Keys, l # k PROVE MapOf(c)[l] = MapOf(b)[l]
  <2>1. CASE \E e \in EntriesOf(b) : e.key = l
    <3>1. PICK e \in EntriesOf(b) : e.key = l BY <2>1
    <3>2. e \in EntriesOf(c) BY <1>2, <1>5, <3>1
    <3>3. MapOf(b)[l] = e.value BY <3>1, MapOfEntries
    <3>4. MapOf(c)[l] = e.value BY <1>1, <3>1, <3>2, MapOfEntries
    <3> QED BY <3>3, <3>4
  <2>2. CASE \A e \in EntriesOf(b) : e.key # l
    <3>1. \A e \in EntriesOf(c) : e.key # l BY <1>2, <2>2
    <3>2. MapOf(b)[l] = NoTable BY <2>2, MapOfEntries
    <3>3. MapOf(c)[l] = NoTable BY <1>1, <3>1, MapOfEntries
    <3> QED BY <3>2, <3>3
  <2> QED BY <2>1, <2>2
<1>6. MapOf(c) = [MapOf(b) EXCEPT ![k] = NoTable] BY <1>4, <1>5 DEF MapOf
<1> QED BY <1>3, <1>6 DEF c

\* The hash map implements TableMap: hashmap_get finds the table last set
\* under a name, and none after a delete, through every collision and resize.
THEOREM RefinesTableMap == Spec => ImplementsTableMap
<1>1. Init => Promise!Init
  <2> SUFFICES ASSUME Init PROVE Promise!Init OBVIOUS
  <2>1. InitialCapacity \in Nat \ {0} /\ buckets = NoEntries(InitialCapacity)
    BY MapAssumption DEF Init
  <2>2. /\ buckets \in ChainsOver(InitialCapacity) /\ Placed(buckets, InitialCapacity)
        /\ EntriesOf(buckets) = {}
    BY <2>1, EmptyKeeps DEF ChainsOver, Entries
  <2>3. \A k \in Keys : MapOf(buckets)[k] = NoTable BY <2>1, <2>2, MapOfEntries
  <2>4. MapOf(buckets) = [k \in Keys |-> NoTable] BY <2>3 DEF MapOf
  <2>5. last = [key |-> NoTable, value |-> NoTable] BY DEF Init, Entry
  <2> QED BY <2>4, <2>5 DEF Promise!Init, MapOf
<1>2. IInv /\ [Next]_vars => [Promise!Next]_Promise!vars
  <2> SUFFICES ASSUME IInv, [Next]_vars PROVE [Promise!Next]_Promise!vars OBVIOUS
  <2>1. capacity \in Nat \ {0} /\ buckets \in ChainsOver(capacity) /\ Placed(buckets, capacity)
    BY DEF IInv, MapOK
  <2>2. ASSUME NEW k \in Keys, NEW v \in Values,
               MapOf(buckets') = [MapOf(buckets) EXCEPT ![k] = v], last' = Entry(k, v)
        PROVE  Promise!Next
    <3>1. Promise!Set(k, v) BY <2>2 DEF Promise!Set, Promise!Change, MapOf, Entry
    <3> QED BY <3>1 DEF Promise!Next
  <2>3. ASSUME NEW k \in Keys, NEW v \in Values, Set(k, v) PROVE Promise!Next
    <3>1. buckets' = Put(buckets, k, v) /\ last' = Entry(k, v)
      BY <2>3 DEF Set, Store, Entry
    <3>2. MapOf(buckets') = [MapOf(buckets) EXCEPT ![k] = v] BY <2>1, <3>1, PutChanges
    <3> QED BY <2>2, <3>1, <3>2
  <2>4. ASSUME EndResize PROVE Promise!Next
    <3>1. /\ buckets' = Put(moved, pending.key, pending.value) /\ last' = pending
      BY <2>4 DEF EndResize
    <3>2. /\ pending \in Entries /\ 2 * capacity \in Nat \ {0}
          /\ moved \in ChainsOver(2 * capacity) /\ Placed(moved, 2 * capacity)
      BY <2>1, <2>4 DEF EndResize, IInv, TypeOK, ResizeOK
    <3>3. pending.key \in Keys /\ pending.value \in Values
          /\ pending = Entry(pending.key, pending.value)
      BY <3>2 DEF Entries, Entry, EntriesIn
    <3>4. EntriesOf(moved) = EntriesOf(buckets) BY <2>4, AllMoved DEF EndResize
    <3>5. MapOf(moved) = MapOf(buckets) BY <2>1, <3>2, <3>4, SameEntriesSameMap
    <3>6. MapOf(buckets') = [MapOf(buckets) EXCEPT ![pending.key] = pending.value]
      BY <3>1, <3>2, <3>3, <3>5, PutChanges
    <3> QED BY <2>2, <3>1, <3>3, <3>6
  <2>5. ASSUME NEW k \in Keys, Delete(k) PROVE Promise!Next
    <3>1. Has(buckets, k) /\ buckets' = Unlink(buckets, k) /\ last' = Entry(k, NoTable)
      BY <2>5 DEF Delete
    <3>2. /\ MapOf(buckets)[k] # NoTable
          /\ MapOf(buckets') = [MapOf(buckets) EXCEPT ![k] = NoTable]
      BY <2>1, <3>1, UnlinkChanges
    <3>3. Promise!Delete(k) BY <3>1, <3>2 DEF Promise!Delete, Promise!Change, MapOf, Entry
    <3> QED BY <3>3 DEF Promise!Next
  <2>6. ASSUME UNCHANGED <<buckets, last>> PROVE UNCHANGED Promise!vars
    BY <2>6 DEF Promise!vars
  <2>7. ASSUME NEW k \in Keys, NEW v \in Values, BeginResize(k, v)
        PROVE  UNCHANGED <<buckets, last>>
    BY <2>7 DEF BeginResize, map
  <2>8. MoveEntry \/ NextChain \/ BeginIterate \/ IterateStep \/ UNCHANGED vars
          => UNCHANGED <<buckets, last>>
    BY DEF MoveEntry, NextChain, BeginIterate, IterateStep, Step, EndIterate, map, vars
  <2> QED BY <2>3, <2>4, <2>5, <2>6, <2>7, <2>8 DEF Next, ResizeStep
<1> QED BY <1>1, <1>2, Inductive, PTL DEF Spec, ImplementsTableMap, Promise!Spec

-----------------------------------------------------------------------------
(* What an iteration returns                                               *)

\* The p-th entry of bucket i is returned before the iterator leaves the
\* bucket: all but the last are, and the head of a later bucket at once.
Shown(i, p) == p < Len(buckets[i]) \/ (i > 0 /\ p = 1)

\* The iterator has returned e, and is behind the first j entries of its bucket.
Returned(e, j) ==
  \E i \in 0 .. capacity - 1 : \E p \in 1 .. Len(buckets[i]) :
    /\ buckets[i][p] = e
    /\ \/ i < index /\ Shown(i, p)
       \/ i = index /\ (p <= j \/ (i > 0 /\ p = 1))

\* An iteration stays on the last entry of a bucket until it leaves it.
IterateOK ==
  op = "iterate" =>
    \E j \in 0 .. Len(buckets[index]) :
      /\ RestFrom(j)
      /\ Len(buckets[index]) > 0 => j < Len(buckets[index])
      /\ ToSet(visited) = {e \in EntriesOf(buckets) : Returned(e, j)}

LEMMA NextBucketIs ==
  ASSUME IInv, Later # {}
  PROVE  /\ NextBucket \in 0 .. capacity - 1 /\ NextBucket > index
         /\ buckets[NextBucket] \in Seq(Entries) /\ Len(buckets[NextBucket]) > 0
         /\ \A i \in 0 .. capacity - 1 : i > index /\ i < NextBucket => Len(buckets[i]) = 0
<1>1. capacity \in Nat \ {0} /\ buckets \in ChainsOver(capacity) /\ index \in 0 .. capacity - 1
  BY DEF IInv, MapOK, TypeOK
<1>2. DOMAIN buckets = 0 .. capacity - 1 BY <1>1, CapacityIs DEF ChainsOver, Entries
<1>3. Later \in SUBSET Nat BY <1>2 DEF Later
<1>4. \E i \in Later : \A j \in Later : i <= j BY <1>3, LeastExists
<1>5. NextBucket \in Later /\ \A j \in Later : NextBucket <= j BY <1>4 DEF NextBucket
<1>6. NextBucket \in 0 .. capacity - 1 /\ NextBucket > index /\ buckets[NextBucket] # <<>>
  BY <1>2, <1>5 DEF Later
<1>7. buckets[NextBucket] \in Seq(Entries) BY <1>1, <1>6 DEF ChainsOver, MapsOver, Entries
<1>8. ASSUME NEW i \in 0 .. capacity - 1, i > index, i < NextBucket
      PROVE  Len(buckets[i]) = 0
  <2>1. i \notin Later BY <1>1, <1>5, <1>6, <1>8
  <2>2. buckets[i] = <<>> BY <1>2, <1>8, <2>1 DEF Later
  <2> QED BY <2>2
<1> QED BY <1>6, <1>7, <1>8

LEMMA BeginIterateReturns ==
  ASSUME IInv, BeginIterate
  PROVE  IterateOK'
<1>1. /\ capacity \in Nat \ {0} /\ buckets \in ChainsOver(capacity) /\ 0 \in 0 .. capacity - 1
      /\ buckets[0] \in Seq(Entries) /\ Len(buckets[0]) \in Nat
  BY DEF IInv, MapOK, ChainsOver, MapsOver, Entries
<1>2. /\ index' = 0 /\ rest' = buckets[0] /\ visited' = <<>>
      /\ capacity' = capacity /\ buckets' = buckets
  BY DEF BeginIterate, map
<1>3. RestFrom(0)' BY <1>1, <1>2 DEF RestFrom
<1>4. \A e : ~Returned(e, 0)' BY <1>1, <1>2 DEF Returned
<1>5. ToSet(visited') = {} BY <1>2 DEF ToSet
<1> QED BY <1>1, <1>2, <1>3, <1>4, <1>5 DEF IterateOK

LEMMA SetOfAppend ==
  ASSUME NEW s \in Seq(Entries), NEW e \in Entries
  PROVE  ToSet(Append(s, e)) = ToSet(s) \cup {e}
<1> DEFINE t == Append(s, e)
<1>1. /\ Len(s) \in Nat /\ Len(t) = Len(s) + 1 /\ t[Len(s) + 1] = e
      /\ \A p \in 1 .. Len(s) : t[p] = s[p]
  OBVIOUS
<1>2. t \in Seq(Entries) OBVIOUS
<1> HIDE DEF t
<1>3. ToSet(s) = {s[p] : p \in 1 .. Len(s)} /\ ToSet(t) = {t[p] : p \in 1 .. Len(t)}
  BY <1>2 DEF ToSet
<1>4. 1 .. Len(t) = 1 .. Len(s) \cup {Len(s) + 1} BY <1>1
<1>5. ToSet(t) = ToSet(s) \cup {e} BY ONLY <1>1, <1>3, <1>4
<1> QED BY <1>5 DEF t

\* A step within the chain returns the entry stepped off.
LEMMA StepAlongReturns ==
  ASSUME IInv, IterateOK, Step, Len(rest) > 1
  PROVE  IterateOK'
<1>1. /\ capacity \in Nat \ {0} /\ buckets \in ChainsOver(capacity)
      /\ index \in 0 .. capacity - 1 /\ rest \in Seq(Entries) /\ visited \in Seq(Entries)
  BY DEF IInv, MapOK, TypeOK
<1>2. /\ visited' = Append(visited, Head(rest)) /\ rest' = Tail(rest)
      /\ UNCHANGED <<capacity, buckets, index>> /\ op = "iterate"
  BY DEF Step, map
<1> DEFINE chain == buckets[index]
<1>3. PICK j \in 0 .. Len(chain) :
        RestFrom(j) /\ ToSet(visited) = {e \in EntriesOf(buckets) : Returned(e, j)}
  BY <1>2 DEF IterateOK
<1>4. chain \in Seq(Entries) /\ Len(chain) \in Nat BY <1>1 DEF ChainsOver, MapsOver, Entries
<1>5. j + 1 < Len(chain) /\ Head(rest) = chain[j + 1]
  <2>1. Len(rest) = Len(chain) - j /\ rest[1] = chain[j + 1] BY <1>1, <1>3 DEF RestFrom
  <2> QED BY <1>1, <1>4, <2>1
<1>6. RestFrom(j + 1)'
  <2>1. Len(rest') = Len(rest) - 1 /\ \A p \in 1 .. Len(rest') : rest'[p] = rest[p + 1]
    BY <1>1, <1>2
  <2>2. /\ Len(rest) = Len(chain) - j /\ \A p \in 1 .. Len(rest) : rest[p] = chain[j + p]
        /\ Len(rest) \in Nat
    BY <1>1, <1>3 DEF RestFrom
  <2>3. Len(rest') = Len(chain) - (j + 1) BY <1>4, <2>1, <2>2
  <2>4. ASSUME NEW p \in 1 .. Len(rest') PROVE rest'[p] = chain[(j + 1) + p]
    <3>1. p + 1 \in 1 .. Len(rest) /\ j + (p + 1) = (j + 1) + p BY <2>1, <2>2
    <3> QED BY <2>1, <2>2, <3>1
  <2> QED BY <1>2, <2>3, <2>4 DEF RestFrom
<1>7. ToSet(visited') = ToSet(visited) \cup {chain[j + 1]}
  <2>1. chain[j + 1] \in Entries BY <1>4, <1>5
  <2>2. visited' = Append(visited, chain[j + 1]) BY <1>2, <1>5
  <2> QED BY <1>1, <2>1, <2>2, SetOfAppend
<1>8. chain[j + 1] \in EntriesOf(buckets)
  <2>1. j + 1 \in 1 .. Len(chain) BY <1>4, <1>5
  <2> QED BY <1>1, <2>1, EntryAt DEF ChainsOver, Entries
<1>9. ASSUME NEW e PROVE Returned(e, j + 1)' <=> Returned(e, j) \/ e = chain[j + 1]
  <2>1. ASSUME Returned(e, j) PROVE Returned(e, j + 1)'
    <3>1. PICK i \in 0 .. capacity - 1 : \E p \in 1 .. Len(buckets[i]) :
            /\ buckets[i][p] = e
            /\ \/ i < index /\ Shown(i, p)
               \/ i = index /\ (p <= j \/ (i > 0 /\ p = 1))
      BY <2>1, Zenon DEF Returned
    <3>2. PICK p \in 1 .. Len(buckets[i]) :
            /\ buckets[i][p] = e
            /\ \/ i < index /\ Shown(i, p)
               \/ i = index /\ (p <= j \/ (i > 0 /\ p = 1))
      BY <3>1, Zenon
    <3>3. p <= j => p <= j + 1 BY <1>4
    <3> QED BY <1>2, <3>2, <3>3, Zenon DEF Returned, Shown
  <2>2. ASSUME e = chain[j + 1] PROVE Returned(e, j + 1)'
    <3>1. j + 1 \in 1 .. Len(buckets[index]) /\ j + 1 <= j + 1 BY <1>4, <1>5
    <3> QED BY <1>1, <1>2, <2>2, <3>1, Zenon DEF Returned
  <2>3. ASSUME Returned(e, j + 1)' PROVE Returned(e, j) \/ e = chain[j + 1]
    <3>1. PICK i \in 0 .. capacity - 1 : \E p \in 1 .. Len(buckets[i]) :
            /\ buckets[i][p] = e
            /\ \/ i < index /\ Shown(i, p)
               \/ i = index /\ (p <= j + 1 \/ (i > 0 /\ p = 1))
      BY <1>2, <2>3, Zenon DEF Returned, Shown
    <3>2. PICK p \in 1 .. Len(buckets[i]) :
            /\ buckets[i][p] = e
            /\ \/ i < index /\ Shown(i, p)
               \/ i = index /\ (p <= j + 1 \/ (i > 0 /\ p = 1))
      BY <3>1, Zenon
    <3>3. p <= j + 1 => p <= j \/ p = j + 1
      BY <1>1, <3>2, <1>4
    <3>4. CASE i = index /\ p = j + 1 BY <3>2, <3>4
    <3>5. CASE ~(i = index /\ p = j + 1) BY <3>2, <3>3, <3>5, Zenon DEF Returned
    <3> QED BY <3>4, <3>5
  <2> QED BY <2>1, <2>2, <2>3
<1>10. ToSet(visited') = {e \in EntriesOf(buckets') : Returned(e, j + 1)'}
  BY <1>2, <1>3, <1>7, <1>8, <1>9
<1>11. j + 1 \in 0 .. Len(buckets'[index']) /\ j + 1 < Len(buckets'[index'])
  BY <1>2, <1>4, <1>5
<1> QED BY <1>6, <1>10, <1>11 DEF IterateOK

\* A step to the next bucket returns its head and stays on it.
LEMMA StepOnReturns ==
  ASSUME IInv, IterateOK, Step, ~(Len(rest) > 1)
  PROVE  IterateOK'
<1>1. /\ capacity \in Nat \ {0} /\ buckets \in ChainsOver(capacity)
      /\ index \in 0 .. capacity - 1 /\ rest \in Seq(Entries) /\ visited \in Seq(Entries)
  BY DEF IInv, MapOK, TypeOK
<1> DEFINE nb == NextBucket
           chain == buckets[nb]
<1>2. /\ Later # {} /\ index' = nb /\ rest' = chain /\ visited' = Append(visited, Head(chain))
      /\ UNCHANGED <<capacity, buckets>> /\ op = "iterate"
  BY DEF Step, HasNext, map
<1>3. /\ nb \in 0 .. capacity - 1 /\ nb > index /\ chain \in Seq(Entries) /\ Len(chain) > 0
      /\ \A i \in 0 .. capacity - 1 : i > index /\ i < nb => Len(buckets[i]) = 0
  BY <1>2, NextBucketIs
<1> HIDE DEF nb
<1>4. PICK j \in 0 .. Len(buckets[index]) :
        /\ RestFrom(j)
        /\ Len(buckets[index]) > 0 => j < Len(buckets[index])
        /\ ToSet(visited) = {e \in EntriesOf(buckets) : Returned(e, j)}
  BY <1>2 DEF IterateOK
<1>5. \A i \in 0 .. capacity - 1 : Len(buckets[i]) \in Nat BY <1>1 DEF ChainsOver, MapsOver, Entries
<1>6. \A p \in 1 .. Len(buckets[index]) : p <= j <=> p < Len(buckets[index])
  <2>1. Len(buckets[index]) - j <= 1
    BY <1>1, <1>4, <1>5 DEF RestFrom
  <2> QED BY <1>1, <1>4, <1>5, <2>1
<1>7. ToSet(visited') = ToSet(visited) \cup {chain[1]}
  <2>1. Head(chain) = chain[1] /\ chain[1] \in Entries BY <1>3
  <2>2. visited' = Append(visited, chain[1]) BY <1>2, <2>1
  <2> QED BY <1>1, <2>1, <2>2, SetOfAppend
<1>8. 1 \in 1 .. Len(chain) /\ chain[1] \in EntriesOf(buckets)
  <2>1. 1 \in 1 .. Len(chain) BY <1>3
  <2> QED BY <1>1, <1>3, <2>1, EntryAt DEF ChainsOver, Entries
<1>9. ASSUME NEW e PROVE Returned(e, 0)' <=> Returned(e, j) \/ e = chain[1]
  <2>1. ASSUME Returned(e, j) PROVE Returned(e, 0)'
    <3>1. PICK i \in 0 .. capacity - 1 : \E p \in 1 .. Len(buckets[i]) :
            /\ buckets[i][p] = e
            /\ \/ i < index /\ Shown(i, p)
               \/ i = index /\ (p <= j \/ (i > 0 /\ p = 1))
      BY <2>1, Zenon DEF Returned
    <3>2. PICK p \in 1 .. Len(buckets[i]) :
            /\ buckets[i][p] = e
            /\ \/ i < index /\ Shown(i, p)
               \/ i = index /\ (p <= j \/ (i > 0 /\ p = 1))
      BY <3>1, Zenon
    <3>3. i < nb BY <1>1, <1>3, <3>2
    <3>4. Shown(i, p)
      BY <1>6, <3>2, Zenon DEF Shown
    <3> QED BY <1>2, <3>2, <3>3, <3>4, Zenon DEF Returned, Shown
  <2>2. ASSUME e = chain[1] PROVE Returned(e, 0)'
    <3>1. nb > 0 BY <1>1, <1>3
    <3> QED BY <1>2, <1>3, <1>8, <2>2, <3>1, Zenon DEF Returned
  <2>3. ASSUME Returned(e, 0)' PROVE Returned(e, j) \/ e = chain[1]
    <3>1. PICK i \in 0 .. capacity - 1 : \E p \in 1 .. Len(buckets[i]) :
            /\ buckets[i][p] = e
            /\ \/ i < nb /\ Shown(i, p)
               \/ i = nb /\ (p <= 0 \/ (i > 0 /\ p = 1))
      BY <1>2, <2>3, Zenon DEF Returned, Shown
    <3>2. PICK p \in 1 .. Len(buckets[i]) :
            /\ buckets[i][p] = e
            /\ \/ i < nb /\ Shown(i, p)
               \/ i = nb /\ (p <= 0 \/ (i > 0 /\ p = 1))
      BY <3>1, Zenon
    <3>3. CASE i = nb
      <4>1. p = 1 BY <1>5, <3>2, <3>3
      <4> QED BY <3>2, <3>3, <4>1
    <3>4. CASE i # nb
      <4>1. i < nb /\ Shown(i, p) BY <3>2, <3>4
      <4>2. i <= index
        <5>1. Len(buckets[i]) # 0 BY <3>2
        <5> QED BY <1>1, <1>3, <4>1, <5>1
      <4>3. CASE i < index BY <3>2, <4>1, <4>3, Zenon DEF Returned
      <4>4. CASE i = index BY <1>6, <3>2, <4>1, <4>4, Zenon DEF Returned, Shown
      <4> QED BY <1>1, <4>2, <4>3, <4>4
    <3> QED BY <3>3, <3>4
  <2> QED BY <2>1, <2>2, <2>3
<1>10. ToSet(visited') = {e \in EntriesOf(buckets') : Returned(e, 0)'}
  BY <1>2, <1>4, <1>7, <1>8, <1>9
<1>11. 0 \in 0 .. Len(buckets'[index']) /\ 0 < Len(buckets'[index'])
  BY <1>2, <1>3
<1>12. RestFrom(0)' BY <1>2, <1>3 DEF RestFrom
<1> QED BY <1>10, <1>11, <1>12 DEF IterateOK

LEMMA StepIterateOK == IInv /\ IterateOK /\ [Next]_vars => IterateOK'
<1> SUFFICES ASSUME IInv, IterateOK, [Next]_vars PROVE IterateOK' OBVIOUS
<1>1. ASSUME op' # "iterate" PROVE IterateOK' BY <1>1 DEF IterateOK
<1>2. CASE BeginIterate BY <1>2, BeginIterateReturns
<1>3. CASE Step BY <1>3, StepAlongReturns, StepOnReturns
<1>4. CASE UNCHANGED vars
  <2>1. /\ op' = op /\ buckets' = buckets /\ index' = index /\ rest' = rest
        /\ visited' = visited /\ capacity' = capacity
    BY <1>4 DEF vars
  <2>2. \A j : (RestFrom(j)' <=> RestFrom(j)) /\ \A e : Returned(e, j)' <=> Returned(e, j)
    BY <2>1 DEF RestFrom, Returned, Shown
  <2> QED BY <2>1, <2>2 DEF IterateOK
<1>5. ASSUME NEW k \in Keys, NEW v \in Values, Set(k, v) \/ BeginResize(k, v)
      PROVE  op' # "iterate"
  BY <1>5 DEF Set, BeginResize
<1>6. ResizeStep \/ EndIterate => op' # "iterate"
  BY DEF ResizeStep, MoveEntry, NextChain, EndResize, EndIterate
<1>7. ASSUME NEW k \in Keys, Delete(k) PROVE op' # "iterate" BY <1>7 DEF Delete
<1> QED BY <1>1, <1>2, <1>3, <1>4, <1>5, <1>6, <1>7 DEF Next, IterateStep

\* An entry that is not the last of its chain is no last entry of any.
LEMMA MissedIs ==
  ASSUME IInv, NEW i \in 0 .. capacity - 1, NEW p \in 1 .. Len(buckets[i])
  PROVE  buckets[i][p] \in MissedEntries <=> ~Shown(i, p)
<1>1. /\ capacity \in Nat \ {0} /\ buckets \in ChainsOver(capacity)
      /\ Placed(buckets, capacity)
  BY DEF IInv, MapOK
<1>2. \A h \in 0 .. capacity - 1 : buckets[h] \in Seq(Entries) /\ Len(buckets[h]) \in Nat
  BY <1>1 DEF ChainsOver, MapsOver, Entries
<1>3. DOMAIN buckets = 0 .. capacity - 1 BY <1>1, CapacityIs DEF ChainsOver, Entries
<1>4. ~Shown(i, p) <=> p = Len(buckets[i]) /\ Len(buckets[i]) > IF i = 0 THEN 0 ELSE 1
  BY <1>2 DEF Shown
<1>5. ASSUME ~Shown(i, p) PROVE buckets[i][p] \in MissedEntries
  BY <1>3, <1>4, <1>5 DEF MissedEntries, Last
<1>6. ASSUME buckets[i][p] \in MissedEntries PROVE ~Shown(i, p)
  <2>1. PICK h \in 0 .. capacity - 1 :
          /\ Len(buckets[h]) > IF h = 0 THEN 0 ELSE 1
          /\ buckets[i][p] = buckets[h][Len(buckets[h])]
    BY <1>3, <1>6 DEF MissedEntries, Last
  <2>2. Len(buckets[h]) \in 1 .. Len(buckets[h]) BY <1>2, <2>1
  <2>3. h = i BY <2>1, <2>2, <1>1 DEF Placed
  <2>4. p = Len(buckets[h]) BY <1>1, <2>1, <2>2, <2>3 DEF Placed
  <2> QED BY <1>4, <2>1, <2>3, <2>4
<1> QED BY <1>5, <1>6

\* A loop over the iterator returns tables of the map only, and every one that
\* is not the last of bucket 0 or of a chain of two or more, whatever the keys,
\* their hash values and the capacity.
THEOREM IteratorReturnsOthers == Spec => []IterationReturnsOthers
<1>1. Init => IterateOK BY DEF Init, IterateOK
<1>2. IInv /\ IterateOK => IterationReturnsOthers
  <2> SUFFICES ASSUME IInv, IterateOK, op = "iterate", ~HasNext
               PROVE  ToSet(visited) = EntriesOf(buckets) \ MissedEntries
    BY DEF IterationReturnsOthers
  <2>1. /\ capacity \in Nat \ {0} /\ buckets \in ChainsOver(capacity)
        /\ index \in 0 .. capacity - 1 /\ rest \in Seq(Entries)
    BY DEF IInv, MapOK, TypeOK
  <2>2. ~(Len(rest) > 1) /\ Later = {} BY DEF HasNext
  <2>3. PICK j \in 0 .. Len(buckets[index]) :
          /\ RestFrom(j)
          /\ Len(buckets[index]) > 0 => j < Len(buckets[index])
          /\ ToSet(visited) = {e \in EntriesOf(buckets) : Returned(e, j)}
    BY DEF IterateOK
  <2>4. \A i \in 0 .. capacity - 1 : buckets[i] \in Seq(Entries) /\ Len(buckets[i]) \in Nat
    BY <2>1 DEF ChainsOver, MapsOver, Entries
  <2>5. \A p \in 1 .. Len(buckets[index]) : p <= j <=> p < Len(buckets[index])
    <3>1. Len(buckets[index]) - j <= 1 BY <2>1, <2>2, <2>3, <2>4 DEF RestFrom
    <3> QED BY <2>1, <2>3, <2>4, <3>1
  <2>6. ASSUME NEW i \in 0 .. capacity - 1, NEW p \in 1 .. Len(buckets[i])
        PROVE  i <= index
    <3>1. buckets[i] # <<>> BY <2>4, <2>6
    <3>2. DOMAIN buckets = 0 .. capacity - 1 BY <2>1, CapacityIs DEF ChainsOver, Entries
    <3>3. ~(i > index) BY <2>2, <3>1, <3>2 DEF Later
    <3> QED BY <2>1, <3>3
  <2>7. ASSUME NEW e \in EntriesOf(buckets) PROVE Returned(e, j) <=> e \notin MissedEntries
    <3>1. ASSUME Returned(e, j) PROVE e \notin MissedEntries
      <4>1. PICK i \in 0 .. capacity - 1 : \E p \in 1 .. Len(buckets[i]) :
              /\ buckets[i][p] = e
              /\ \/ i < index /\ Shown(i, p)
                 \/ i = index /\ (p <= j \/ (i > 0 /\ p = 1))
        BY <3>1, Zenon DEF Returned
      <4>2. PICK p \in 1 .. Len(buckets[i]) :
              /\ buckets[i][p] = e
              /\ \/ i < index /\ Shown(i, p)
                 \/ i = index /\ (p <= j \/ (i > 0 /\ p = 1))
        BY <4>1, Zenon
      <4>3. Shown(i, p) BY <2>5, <4>2, Zenon DEF Shown
      <4> QED BY <4>2, <4>3, MissedIs
    <3>2. ASSUME e \notin MissedEntries PROVE Returned(e, j)
      <4>1. PICK i \in 0 .. capacity - 1 : \E p \in 1 .. Len(buckets[i]) : buckets[i][p] = e
        BY <2>1, EntryAt DEF ChainsOver, Entries
      <4>2. PICK p \in 1 .. Len(buckets[i]) : buckets[i][p] = e BY <4>1
      <4>3. Shown(i, p) BY <3>2, <4>2, MissedIs
      <4>4. i < index \/ i = index BY <2>1, <2>6
      <4>5. i = index => p <= j \/ (i > 0 /\ p = 1) BY <2>5, <4>3, Zenon DEF Shown
      <4> QED BY <4>2, <4>3, <4>4, <4>5, Zenon DEF Returned
    <3> QED BY <3>1, <3>2
  <2> QED BY <2>3, <2>7
<1>3. IInv /\ IterateOK /\ [Next]_vars => IterateOK' BY StepIterateOK
<1> QED BY <1>1, <1>2, <1>3, Inductive, PTL DEF Spec

-----------------------------------------------------------------------------
(* What the loops come to                                                  *)

\* The chain j of the new buckets, when a resize has passed q entries of the
\* bucket it is at; g has what each turn over the one old chain made of it.
NewChain(g, j, q) ==
  LET i == j % capacity
  IN IF i < index THEN g[Len(buckets[i])] ELSE IF i = index THEN g[q] ELSE <<>>

TurnsOf(g, j) == Turns(g, Entries, buckets[(j % capacity)], j, 2 * capacity)

MovedOK ==
  op = "resize" =>
    \A j \in 0 .. 2 * capacity - 1, q \in 0 .. Len(buckets[index]) : \A g :
      RestFrom(q) /\ TurnsOf(g, j) => moved[j] = NewChain(g, j, q)

\* A chain of the new buckets takes its entries from one old chain.
LEMMA OldChainOf ==
  ASSUME IInv, NEW j \in 0 .. 2 * capacity - 1
  PROVE  /\ (j % capacity) \in 0 .. capacity - 1
         /\ buckets[(j % capacity)] \in Seq(Entries) /\ Len(buckets[(j % capacity)]) \in Nat
<1>1. capacity \in Nat \ {0} /\ buckets \in ChainsOver(capacity) BY DEF IInv, MapOK
<1>2. j \in Nat BY <1>1
<1>3. (j % capacity) \in 0 .. capacity - 1 BY <1>1, <1>2
<1> QED BY <1>1, <1>3 DEF ChainsOver, MapsOver, Entries

LEMMA BeginResizeMoved ==
  ASSUME IInv, NEW k \in Keys, NEW v \in Values, BeginResize(k, v)
  PROVE  MovedOK'
<1>1. /\ capacity \in Nat \ {0} /\ buckets \in ChainsOver(capacity) /\ 0 \in 0 .. capacity - 1
      /\ buckets[0] \in Seq(Entries) /\ Len(buckets[0]) \in Nat
  BY DEF IInv, MapOK, ChainsOver, MapsOver, Entries
<1>2. /\ moved' = NoEntries(2 * capacity) /\ index' = 0 /\ rest' = buckets[0]
      /\ capacity' = capacity /\ buckets' = buckets
  BY DEF BeginResize, map
<1> SUFFICES ASSUME NEW j \in 0 .. 2 * capacity - 1, NEW q \in 0 .. Len(buckets[0]), NEW g,
                    RestFrom(q)', TurnsOf(g, j)'
             PROVE  moved'[j] = NewChain(g, j, q)'
  BY <1>2 DEF MovedOK
<1>3. moved'[j] = <<>> BY <1>1, <1>2 DEF NoEntries
<1>4. q = 0 BY <1>1, <1>2 DEF RestFrom
<1>5. g[0] = <<>> BY DEF TurnsOf, Turns
<1>6. (j % capacity) \in 0 .. capacity - 1 BY OldChainOf
<1>7. NewChain(g, j, q)' = IF (j % capacity) = 0 THEN g[q] ELSE <<>>
  BY <1>1, <1>2, <1>6 DEF NewChain
<1> QED BY <1>3, <1>4, <1>5, <1>7

LEMMA MoveEntryMoved ==
  ASSUME IInv, MovedOK, MoveEntry
  PROVE  MovedOK'
<1>1. /\ capacity \in Nat \ {0} /\ buckets \in ChainsOver(capacity)
      /\ Placed(buckets, capacity) /\ moved \in ChainsOver(2 * capacity)
      /\ index \in 0 .. capacity - 1 /\ rest \in Seq(Entries)
  BY DEF IInv, MapOK, TypeOK, MoveEntry
<1> DEFINE chain == buckets[index]
           e == Head(rest)
<1>2. /\ op = "resize" /\ rest # <<>> /\ rest' = Tail(rest)
      /\ moved' = [moved EXCEPT ![Index(e.key, 2 * capacity)] = <<e>> \o @]
      /\ capacity' = capacity /\ buckets' = buckets /\ index' = index
  BY DEF MoveEntry, map
<1>3. PICK p \in 0 .. Len(chain) : RestFrom(p) BY <1>2 DEF IInv, ResizeOK
<1>4. chain \in Seq(Entries) /\ Len(chain) \in Nat BY <1>1 DEF ChainsOver, MapsOver, Entries
<1>5. /\ Len(rest) = Len(chain) - p /\ p + 1 \in 1 .. Len(chain)
      /\ e = chain[p + 1] /\ e \in Entries
  BY <1>1, <1>2, <1>3, <1>4 DEF RestFrom
<1> SUFFICES ASSUME NEW j \in 0 .. 2 * capacity - 1, NEW q \in 0 .. Len(chain), NEW g,
                    RestFrom(q)', TurnsOf(g, j)'
             PROVE  moved'[j] = NewChain(g, j, q)'
  BY <1>2 DEF MovedOK
<1>6. q = p + 1
  <2>1. Len(rest') = Len(rest) - 1 BY <1>1, <1>2
  <2>2. Len(rest') = Len(chain) - q BY <1>2 DEF RestFrom
  <2> QED BY <1>3, <1>4, <1>5, <2>1, <2>2
<1>7. TurnsOf(g, j) BY <1>2 DEF TurnsOf
<1>8. moved[j] = NewChain(g, j, p) BY <1>2, <1>3, <1>7 DEF MovedOK
<1> DEFINE i == j % capacity
           to == Index(e.key, 2 * capacity)
<1>9. moved'[j] = IF j = to THEN <<e>> \o moved[j] ELSE moved[j]
  <2>1. DOMAIN moved = 0 .. 2 * capacity - 1 BY <1>1 DEF ChainsOver, MapsOver
  <2> HIDE DEF to
  <2> QED BY <1>2, <2>1 DEF to
<1>10. to % capacity = index
  <2>1. e.key \in Keys BY <1>5 DEF Entries, EntriesIn
  <2>2. HashOf[e.key] \in Nat BY <2>1, HashTyped
  <2>3. Index(e.key, capacity) = index BY <1>1, <1>5 DEF Placed
  <2>4. (HashOf[e.key] % (2 * capacity)) % capacity = HashOf[e.key] % capacity
    BY <1>1, <2>2, ModTwice
  <2> QED BY <2>3, <2>4 DEF Index
<1>11. i \in 0 .. capacity - 1 BY OldChainOf
<1>12. NewChain(g, j, q)' =
         IF i < index THEN g[Len(buckets[i])] ELSE IF i = index THEN g[q] ELSE <<>>
  BY <1>2 DEF NewChain
<1>13. NewChain(g, j, p) =
         IF i < index THEN g[Len(buckets[i])] ELSE IF i = index THEN g[p] ELSE <<>>
  BY DEF NewChain
<1>14. CASE i = index
  <2>1. g[p + 1] = IF to = j THEN <<e>> \o g[p] ELSE g[p]
    <3>1. Turns(g, Entries, chain, j, 2 * capacity) BY <1>7, <1>14 DEF TurnsOf
    <3>2. (p + 1) - 1 = p BY <1>3, <1>4
    <3> QED BY <1>5, <3>1, <3>2 DEF Turns
  <2>2. moved[j] = g[p] BY <1>1, <1>8, <1>13, <1>14
  <2>3. NewChain(g, j, q)' = g[p + 1] BY <1>1, <1>6, <1>12, <1>14
  <2> HIDE DEF to, e
  <2> QED BY <1>9, <2>1, <2>2, <2>3
<1>15. CASE i # index
  <2>1. j # to BY <1>10, <1>15
  <2>2. NewChain(g, j, q)' = NewChain(g, j, p) BY <1>12, <1>13, <1>15
  <2> HIDE DEF to, e
  <2> QED BY <1>8, <1>9, <2>1, <2>2
<1> QED BY <1>14, <1>15

LEMMA NextChainMoved ==
  ASSUME IInv, MovedOK, NextChain
  PROVE  MovedOK'
<1>1. /\ capacity \in Nat \ {0} /\ buckets \in ChainsOver(capacity)
      /\ index \in 0 .. capacity - 1 /\ index + 1 \in 0 .. capacity - 1
  BY DEF IInv, MapOK, TypeOK, NextChain
<1>2. /\ op = "resize" /\ rest = <<>> /\ index' = index + 1 /\ rest' = buckets[index + 1]
      /\ capacity' = capacity /\ buckets' = buckets /\ moved' = moved
  BY DEF NextChain, map
<1>3. PICK p \in 0 .. Len(buckets[index]) : RestFrom(p) BY <1>2 DEF IInv, ResizeOK
<1>4. \A i \in 0 .. capacity - 1 : buckets[i] \in Seq(Entries) /\ Len(buckets[i]) \in Nat
  BY <1>1 DEF ChainsOver, MapsOver, Entries
<1>5. p = Len(buckets[index])
  <2>1. Len(rest) = 0 BY <1>2
  <2> QED BY <1>1, <1>3, <1>4, <2>1 DEF RestFrom
<1> SUFFICES ASSUME NEW j \in 0 .. 2 * capacity - 1, NEW q \in 0 .. Len(buckets[index + 1]),
                    NEW g, RestFrom(q)', TurnsOf(g, j)'
             PROVE  moved'[j] = NewChain(g, j, q)'
  BY <1>2 DEF MovedOK
<1>6. q = 0
  <2>1. Len(buckets[index + 1]) = Len(buckets[index + 1]) - q BY <1>2 DEF RestFrom
  <2> QED BY <1>1, <1>4, <2>1
<1>7. TurnsOf(g, j) BY <1>2 DEF TurnsOf
<1>8. moved[j] = NewChain(g, j, p) BY <1>2, <1>3, <1>7 DEF MovedOK
<1>9. g[0] = <<>> BY <1>7 DEF TurnsOf, Turns
<1> DEFINE i == j % capacity
<1>10. i \in 0 .. capacity - 1 BY OldChainOf
<1>11. NewChain(g, j, q)' =
         IF i < index + 1 THEN g[Len(buckets[i])] ELSE IF i = index + 1 THEN g[q] ELSE <<>>
  BY <1>2 DEF NewChain
<1>12. NewChain(g, j, p) =
         IF i < index THEN g[Len(buckets[i])] ELSE IF i = index THEN g[p] ELSE <<>>
  BY DEF NewChain
<1> HIDE DEF i
<1>13. CASE i < index
  <2>1. i < index + 1 BY <1>1, <1>10, <1>13
  <2> QED BY <1>2, <1>8, <1>11, <1>12, <1>13, <2>1
<1>14. CASE i = index
  <2>1. i < index + 1 /\ ~(i < index) BY <1>1, <1>10, <1>14
  <2> QED BY <1>2, <1>5, <1>8, <1>11, <1>12, <1>14, <2>1
<1>15. CASE i > index
  <2>1. ~(i < index + 1) /\ ~(i < index) /\ i # index BY <1>1, <1>10, <1>15
  <2> QED BY <1>2, <1>6, <1>8, <1>9, <1>11, <1>12, <2>1
<1> QED BY <1>1, <1>10, <1>13, <1>14, <1>15

LEMMA StepMovedOK == IInv /\ MovedOK /\ [Next]_vars => MovedOK'
<1> SUFFICES ASSUME IInv, MovedOK, [Next]_vars PROVE MovedOK' OBVIOUS
<1>1. ASSUME op' # "resize" PROVE MovedOK' BY <1>1 DEF MovedOK
<1>2. ASSUME NEW k \in Keys, NEW v \in Values, BeginResize(k, v) PROVE MovedOK'
  BY <1>2, BeginResizeMoved
<1>3. CASE MoveEntry BY <1>3, MoveEntryMoved
<1>4. CASE NextChain BY <1>4, NextChainMoved
<1>5. CASE UNCHANGED vars
  <2>1. /\ op' = op /\ buckets' = buckets /\ index' = index /\ rest' = rest
        /\ moved' = moved /\ capacity' = capacity
    BY <1>5 DEF vars
  <2>2. /\ \A q : RestFrom(q)' <=> RestFrom(q)
        /\ \A g, j : TurnsOf(g, j)' <=> TurnsOf(g, j)
        /\ \A g, j, q : NewChain(g, j, q)' = NewChain(g, j, q)
    BY <2>1 DEF RestFrom, TurnsOf, NewChain
  <2> QED BY <2>1, <2>2 DEF MovedOK
<1>6. ASSUME NEW k \in Keys, NEW v \in Values, Set(k, v) PROVE op' # "resize"
  BY <1>6 DEF Set
<1>7. EndResize \/ BeginIterate \/ IterateStep => op' # "resize"
  BY DEF EndResize, BeginIterate, IterateStep, Step, EndIterate
<1>8. ASSUME NEW k \in Keys, Delete(k) PROVE op' # "resize" BY <1>8 DEF Delete
<1> QED BY <1>1, <1>2, <1>3, <1>4, <1>5, <1>6, <1>7, <1>8 DEF Next, ResizeStep

\* When the last bucket is done, the new buckets are the closed form.
LEMMA MovedIsResized == IInv /\ MovedOK => ResizeClosedForm
<1> SUFFICES ASSUME IInv, MovedOK, op = "resize", rest = <<>>, index + 1 = capacity
             PROVE  moved = Resized(buckets)
  BY DEF ResizeClosedForm
<1>1. /\ capacity \in Nat \ {0} /\ buckets \in ChainsOver(capacity)
      /\ moved \in ChainsOver(2 * capacity) /\ index \in 0 .. capacity - 1
  BY DEF IInv, MapOK, TypeOK
<1>2. PICK p \in 0 .. Len(buckets[index]) : RestFrom(p) BY DEF IInv, ResizeOK
<1>3. p = Len(buckets[index])
  <2>1. Len(rest) = 0 /\ Len(buckets[index]) \in Nat BY <1>1 DEF ChainsOver, MapsOver, Entries
  <2> QED BY <1>2, <2>1 DEF RestFrom
<1>4. CapacityOf(buckets) = capacity BY <1>1, CapacityIs DEF ChainsOver, Entries
<1>5. ASSUME NEW j \in 0 .. 2 * capacity - 1
      PROVE  moved[j] = Moved(buckets[(j % capacity)], j, 2 * capacity)
  <2> DEFINE i == j % capacity
  <2>1. i \in 0 .. capacity - 1 /\ buckets[i] \in Seq(Entries) BY OldChainOf
  <2>2. PICK g : Turns(g, Entries, buckets[i], j, 2 * capacity)
    <3> HIDE DEF i
    <3> QED BY <2>1, MovedTurns
  <2>3. moved[j] = NewChain(g, j, p) BY <1>2, <2>2 DEF MovedOK, TurnsOf
  <2>4. NewChain(g, j, p) =
          IF i < index THEN g[Len(buckets[i])] ELSE IF i = index THEN g[p] ELSE <<>>
    BY DEF NewChain
  <2>5. Moved(buckets[i], j, 2 * capacity) = g[Len(buckets[i])] BY <2>2 DEF Turns
  <2> HIDE DEF i
  <2>6. i < index \/ i = index BY <1>1, <2>1
  <2>7. NewChain(g, j, p) = g[Len(buckets[i])] BY <1>3, <2>4, <2>6
  <2> QED BY <2>3, <2>5, <2>7 DEF i
<1>6. moved = [j \in 0 .. 2 * capacity - 1 |-> moved[j]] BY <1>1 DEF ChainsOver, MapsOver
<1>7. moved = [j \in 0 .. 2 * capacity - 1 |-> Moved(buckets[(j % capacity)], j, 2 * capacity)]
  BY <1>5, <1>6
<1> QED BY <1>4, <1>7 DEF Resized

\* What an iteration has returned of the chain of bucket i, behind its first q
\* entries.
Seen(i, chain, q) ==
  IF chain = <<>> THEN <<>>
  ELSE (IF i = 0 THEN <<>> ELSE <<Head(chain)>>) \o SubSeq(chain, 1, q)

VisitsOK ==
  op = "iterate" =>
    \A q \in 0 .. Len(buckets[index]) : \A g :
      /\ RestFrom(q) /\ VisitTurns(g, buckets, capacity)
      /\ Len(buckets[index]) > 0 => q < Len(buckets[index])
      => visited = g[index] \o Seen(index, buckets[index], q)

LEMMA NothingAdded == ASSUME NEW E, NEW s \in Seq(E) PROVE s \o <<>> = s
OBVIOUS

\* The turns of the closed form are sequences of entries.
LEMMA TurnsTyped ==
  ASSUME IInv, NEW g, VisitTurns(g, buckets, capacity)
  PROVE  \A i \in 0 .. capacity : g[i] \in Seq(Entries)
<1>1. capacity \in Nat \ {0} /\ buckets \in ChainsOver(capacity) BY DEF IInv, MapOK
<1>2. \A i \in 0 .. capacity - 1 : buckets[i] \in Seq(Entries)
  BY <1>1 DEF ChainsOver, MapsOver, Entries
<1> DEFINE S == {i \in 0 .. capacity : g[i] \in Seq(Entries)}
<1>3. 0 \in S
  <2>1. g[0] = <<>> /\ 0 \in 0 .. capacity BY <1>1 DEF VisitTurns
  <2>2. g[0] \in Seq(Entries) BY <2>1
  <2> QED BY <2>1, <2>2
<1>4. ASSUME NEW i \in 0 .. capacity - 1, i \in S PROVE i + 1 \in S
  <2>1. i + 1 \in 1 .. capacity /\ (i + 1) - 1 = i /\ i \in Nat BY <1>1
  <2>2. g[i + 1] = g[i] \o VisitsOf(i, buckets[i]) BY <2>1 DEF VisitTurns
  <2>3. VisitsOf(i, buckets[i]) \in Seq(Entries) BY <1>2, <2>1, VisitsOfIs
  <2>4. g[i] \in Seq(Entries) BY <1>4
  <2>5. g[i + 1] \in Seq(Entries) BY <2>2, <2>3, <2>4
  <2> QED BY <2>1, <2>5
<1> HIDE DEF S
<1>5. \A i \in 0 .. capacity : i \in S BY <1>1, <1>3, <1>4, UpTo
<1> QED BY <1>5 DEF S

\* Empty buckets add nothing.
LEMMA EmptyBucketsShowNothing ==
  ASSUME IInv, NEW g, VisitTurns(g, buckets, capacity),
         NEW lo \in 0 .. capacity, NEW hi \in lo .. capacity,
         \A i \in 0 .. capacity - 1 : lo <= i /\ i < hi => Len(buckets[i]) = 0
  PROVE  g[hi] = g[lo]
<1>1. capacity \in Nat \ {0} /\ buckets \in ChainsOver(capacity) BY DEF IInv, MapOK
<1>2. \A i \in 0 .. capacity - 1 : buckets[i] \in Seq(Entries)
  BY <1>1 DEF ChainsOver, MapsOver, Entries
<1> DEFINE N == hi - lo
           S == {d \in 0 .. N : g[lo + d] = g[lo]}
<1>3. N \in Nat BY <1>1
<1>4. 0 \in S BY <1>1, <1>3
<1>5. ASSUME NEW d \in 0 .. N - 1, d \in S PROVE d + 1 \in S
  <2> DEFINE i == lo + d
  <2>1. /\ i \in 0 .. capacity - 1 /\ i + 1 \in 1 .. capacity /\ (i + 1) - 1 = i
        /\ lo <= i /\ i < hi /\ i \in 0 .. capacity
    BY <1>1, <1>3
  <2>2. g[i + 1] = g[i] \o VisitsOf(i, buckets[i]) BY <2>1 DEF VisitTurns
  <2>3. buckets[i] = <<>> BY <1>2, <2>1
  <2>4. VisitsOf(i, buckets[i]) = <<>> BY <2>3 DEF VisitsOf
  <2>5. g[i] \in Seq(Entries) BY <2>1, TurnsTyped
  <2>6. g[i + 1] = g[i]
    <3> DEFINE s == g[i]
    <3>1. s \in Seq(Entries) /\ g[i + 1] = s \o <<>> BY <2>2, <2>4, <2>5
    <3> HIDE DEF s
    <3>2. s \o <<>> = s BY <3>1, NothingAdded
    <3> QED BY <3>1, <3>2 DEF s
  <2>7. g[i] = g[lo] BY <1>5
  <2>8. i + 1 = lo + (d + 1) /\ d + 1 \in 0 .. N BY <1>1, <1>3
  <2> QED BY <2>6, <2>7, <2>8
<1> HIDE DEF S
<1>6. \A d \in 0 .. N : d \in S BY <1>3, <1>4, <1>5, UpTo
<1>7. N \in 0 .. N /\ lo + N = hi BY <1>1, <1>3
<1>8. N \in S BY <1>6, <1>7
<1>9. g[lo + N] = g[lo] BY <1>8 DEF S
<1> QED BY <1>7, <1>9

LEMMA BeginIterateVisits ==
  ASSUME IInv, BeginIterate
  PROVE  VisitsOK'
<1>1. /\ capacity \in Nat \ {0} /\ buckets \in ChainsOver(capacity) /\ 0 \in 0 .. capacity - 1
      /\ buckets[0] \in Seq(Entries) /\ Len(buckets[0]) \in Nat
  BY DEF IInv, MapOK, ChainsOver, MapsOver, Entries
<1>2. /\ index' = 0 /\ rest' = buckets[0] /\ visited' = <<>>
      /\ capacity' = capacity /\ buckets' = buckets
  BY DEF BeginIterate, map
<1> SUFFICES ASSUME NEW q \in 0 .. Len(buckets[0]), NEW g,
                    RestFrom(q)', VisitTurns(g, buckets, capacity)
             PROVE  visited' = g[0] \o Seen(0, buckets[0], q)
  BY <1>2 DEF VisitsOK
<1>3. q = 0 BY <1>1, <1>2 DEF RestFrom
<1>4. g[0] = <<>> BY DEF VisitTurns
<1>5. SubSeq(buckets[0], 1, 0) = <<>> BY <1>1
<1>6. Seen(0, buckets[0], q) = <<>> BY <1>3, <1>5 DEF Seen
<1> QED BY <1>2, <1>4, <1>6

\* One entry more of a chain is one more returned.
LEMMA SeenMore ==
  ASSUME NEW chain \in Seq(Entries), NEW q \in 0 .. Len(chain) - 1, NEW i
  PROVE  /\ Seen(i, chain, q) \in Seq(Entries)
         /\ Seen(i, chain, q + 1) = Append(Seen(i, chain, q), chain[q + 1])
<1>1. /\ Len(chain) \in Nat /\ q \in Nat /\ q + 1 \in 1 .. Len(chain)
      /\ chain # <<>> /\ Head(chain) \in Entries /\ chain[q + 1] \in Entries
  OBVIOUS
<1> DEFINE s == SubSeq(chain, 1, q)
           t == SubSeq(chain, 1, q + 1)
<1>2. s \in Seq(Entries) /\ t \in Seq(Entries) BY <1>1
<1>3. t = Append(s, chain[q + 1]) BY <1>1
<1> HIDE DEF s, t
<1>4. CASE i = 0
  <2>1. Seen(i, chain, q) = s /\ Seen(i, chain, q + 1) = t
    BY <1>1, <1>2, <1>4 DEF Seen, s, t
  <2> QED BY <1>2, <1>3, <2>1
<1>5. CASE i # 0
  <2>1. Seen(i, chain, q) = <<Head(chain)>> \o s /\ Seen(i, chain, q + 1) = <<Head(chain)>> \o t
    BY <1>1, <1>5 DEF Seen, s, t
  <2> DEFINE h == <<Head(chain)>>
             x == chain[q + 1]
  <2>2. h \in Seq(Entries) /\ s \in Seq(Entries) /\ x \in Entries BY <1>1, <1>2
  <2>3. Seen(i, chain, q) = h \o s /\ Seen(i, chain, q + 1) = h \o t BY <2>1
  <2>4. t = Append(s, x) BY <1>3
  <2> HIDE DEF h, x
  <2>5. Append(h \o s, x) = h \o Append(s, x) BY ONLY <2>2
  <2>6. h \o s \in Seq(Entries) BY <1>2, <2>2
  <2> QED BY <2>3, <2>4, <2>5, <2>6 DEF x
<1> QED BY <1>4, <1>5

LEMMA StepAlongVisits ==
  ASSUME IInv, IterateOK, VisitsOK, Step, Len(rest) > 1
  PROVE  VisitsOK'
<1>1. /\ capacity \in Nat \ {0} /\ buckets \in ChainsOver(capacity)
      /\ index \in 0 .. capacity - 1 /\ rest \in Seq(Entries)
  BY DEF IInv, MapOK, TypeOK
<1>2. /\ visited' = Append(visited, Head(rest)) /\ rest' = Tail(rest)
      /\ capacity' = capacity /\ buckets' = buckets /\ index' = index /\ op = "iterate"
  BY DEF Step, map
<1> DEFINE chain == buckets[index]
<1>3. PICK p \in 0 .. Len(chain) : RestFrom(p) BY <1>2 DEF IterateOK
<1>4. chain \in Seq(Entries) /\ Len(chain) \in Nat BY <1>1 DEF ChainsOver, MapsOver, Entries
<1>5. Len(rest) = Len(chain) - p /\ p + 1 < Len(chain) /\ Head(rest) = chain[p + 1]
  <2>1. Len(rest) = Len(chain) - p /\ rest[1] = chain[p + 1] BY <1>1, <1>3 DEF RestFrom
  <2> QED BY <1>1, <1>4, <2>1
<1> SUFFICES ASSUME NEW q \in 0 .. Len(chain), NEW g,
                    RestFrom(q)', VisitTurns(g, buckets, capacity)
             PROVE  visited' = g[index] \o Seen(index, chain, q)
  BY <1>2 DEF VisitsOK
<1>6. q = p + 1
  <2>1. Len(rest') = Len(rest) - 1 BY <1>1, <1>2
  <2>2. Len(rest') = Len(chain) - q BY <1>2 DEF RestFrom
  <2> QED BY <1>4, <1>5, <2>1, <2>2
<1>7. visited = g[index] \o Seen(index, chain, p)
  <2>1. p < Len(chain) BY <1>4, <1>5
  <2> QED BY <1>2, <1>3, <2>1 DEF VisitsOK
<1>8. p \in 0 .. Len(chain) - 1 /\ p + 1 \in 1 .. Len(chain) BY <1>4, <1>5
<1>9. /\ Seen(index, chain, p) \in Seq(Entries)
      /\ Seen(index, chain, p + 1) = Append(Seen(index, chain, p), chain[p + 1])
  BY <1>4, <1>8, SeenMore
<1>10. g[index] \in Seq(Entries) /\ chain[p + 1] \in Entries
  <2>1. index \in 0 .. capacity BY <1>1
  <2> QED BY <1>4, <1>8, <2>1, TurnsTyped
<1> DEFINE s == Seen(index, chain, p)
<1>11. Append(g[index] \o s, chain[p + 1]) = g[index] \o Append(s, chain[p + 1])
  <2> DEFINE h == g[index]
             x == chain[p + 1]
  <2>1. h \in Seq(Entries) /\ s \in Seq(Entries) /\ x \in Entries BY <1>9, <1>10
  <2> HIDE DEF h, s, x
  <2>2. Append(h \o s, x) = h \o Append(s, x) BY ONLY <2>1
  <2> QED BY <2>2 DEF h, x
<1> QED BY <1>2, <1>5, <1>6, <1>7, <1>9, <1>11

\* Behind the last entry it returns of a chain, the iterator has returned what
\* the closed form has before the next bucket.
LEMMA ChainVisited ==
  ASSUME IInv, IterateOK, VisitsOK, op = "iterate", ~(Len(rest) > 1),
         NEW g, VisitTurns(g, buckets, capacity)
  PROVE  visited = g[index + 1]
<1>1. /\ capacity \in Nat \ {0} /\ buckets \in ChainsOver(capacity)
      /\ index \in 0 .. capacity - 1 /\ rest \in Seq(Entries)
  BY DEF IInv, MapOK, TypeOK
<1> DEFINE chain == buckets[index]
<1>2. PICK p \in 0 .. Len(chain) : RestFrom(p) /\ (Len(chain) > 0 => p < Len(chain))
  BY DEF IterateOK
<1>3. chain \in Seq(Entries) /\ Len(chain) \in Nat BY <1>1 DEF ChainsOver, MapsOver, Entries
<1>4. visited = g[index] \o Seen(index, chain, p) BY <1>2 DEF VisitsOK
<1>5. Seen(index, chain, p) = VisitsOf(index, chain)
  <2>1. CASE chain = <<>> BY <2>1 DEF Seen, VisitsOf
  <2>2. CASE chain # <<>>
    <3>1. Len(rest) = Len(chain) - p BY <1>2 DEF RestFrom
    <3>2. p = Len(chain) - 1 BY <1>1, <1>2, <1>3, <2>2, <3>1
    <3> QED BY <2>2, <3>2 DEF Seen, VisitsOf, Front
  <2> QED BY <2>1, <2>2
<1>6. g[index + 1] = g[index] \o VisitsOf(index, chain)
  <2>1. index + 1 \in 1 .. capacity /\ (index + 1) - 1 = index BY <1>1
  <2> QED BY <2>1 DEF VisitTurns
<1> QED BY <1>4, <1>5, <1>6

LEMMA StepOnVisits ==
  ASSUME IInv, IterateOK, VisitsOK, Step, ~(Len(rest) > 1)
  PROVE  VisitsOK'
<1>1. /\ capacity \in Nat \ {0} /\ buckets \in ChainsOver(capacity)
      /\ index \in 0 .. capacity - 1
  BY DEF IInv, MapOK, TypeOK
<1> DEFINE nb == NextBucket
           chain == buckets[nb]
<1>2. /\ Later # {} /\ index' = nb /\ rest' = chain /\ visited' = Append(visited, Head(chain))
      /\ capacity' = capacity /\ buckets' = buckets /\ op = "iterate"
  BY DEF Step, HasNext, map
<1>3. /\ nb \in 0 .. capacity - 1 /\ nb > index /\ chain \in Seq(Entries) /\ Len(chain) > 0
      /\ \A i \in 0 .. capacity - 1 : i > index /\ i < nb => Len(buckets[i]) = 0
  BY <1>2, NextBucketIs
<1> HIDE DEF nb
<1> SUFFICES ASSUME NEW q \in 0 .. Len(chain), NEW g,
                    RestFrom(q)', VisitTurns(g, buckets, capacity)
             PROVE  visited' = g[nb] \o Seen(nb, chain, q)
  BY <1>2 DEF VisitsOK
<1>4. q = 0
  <2>1. Len(chain) = Len(chain) - q BY <1>2 DEF RestFrom
  <2>2. Len(chain) \in Nat BY <1>3
  <2> QED BY <2>1, <2>2
<1>5. visited = g[index + 1] BY <1>2, ChainVisited
<1>6. g[nb] = g[index + 1]
  <2>1. /\ index + 1 \in 0 .. capacity /\ nb \in index + 1 .. capacity
        /\ \A i \in 0 .. capacity - 1 : index + 1 <= i /\ i < nb => Len(buckets[i]) = 0
    BY <1>1, <1>3
  <2> DEFINE lo == index + 1
  <2> HIDE DEF lo
  <2>2. lo = index + 1 BY DEF lo
  <2>3. g[nb] = g[lo] BY <2>1, <2>2, EmptyBucketsShowNothing
  <2> QED BY <2>2, <2>3
<1>7. Seen(nb, chain, q) = <<Head(chain)>>
  <2>1. nb # 0 /\ chain # <<>> /\ Head(chain) \in Entries BY <1>1, <1>3
  <2>2. SubSeq(chain, 1, 0) = <<>> BY <1>3
  <2>3. <<Head(chain)>> \o <<>> = <<Head(chain)>> BY <2>1
  <2> QED BY <1>4, <2>1, <2>2, <2>3 DEF Seen
<1>8. g[nb] \in Seq(Entries) /\ Head(chain) \in Entries
  <2>1. nb \in 0 .. capacity BY <1>1, <1>3
  <2> QED BY <1>3, <2>1, TurnsTyped
<1>9. Append(g[nb], Head(chain)) = g[nb] \o <<Head(chain)>>
  <2> HIDE DEF chain
  <2> QED BY <1>8
<1> QED BY <1>2, <1>5, <1>6, <1>7, <1>9

LEMMA StepVisitsOK == IInv /\ IterateOK /\ VisitsOK /\ [Next]_vars => VisitsOK'
<1> SUFFICES ASSUME IInv, IterateOK, VisitsOK, [Next]_vars PROVE VisitsOK' OBVIOUS
<1>1. ASSUME op' # "iterate" PROVE VisitsOK' BY <1>1 DEF VisitsOK
<1>2. CASE BeginIterate BY <1>2, BeginIterateVisits
<1>3. CASE Step BY <1>3, StepAlongVisits, StepOnVisits
<1>4. CASE UNCHANGED vars
  <2>1. /\ op' = op /\ buckets' = buckets /\ index' = index /\ rest' = rest
        /\ visited' = visited /\ capacity' = capacity
    BY <1>4 DEF vars
  <2>2. \A q : RestFrom(q)' <=> RestFrom(q) BY <2>1 DEF RestFrom
  <2> QED BY <2>1, <2>2 DEF VisitsOK
<1>5. ASSUME NEW k \in Keys, NEW v \in Values, Set(k, v) \/ BeginResize(k, v)
      PROVE  op' # "iterate"
  BY <1>5 DEF Set, BeginResize
<1>6. ResizeStep \/ EndIterate => op' # "iterate"
  BY DEF ResizeStep, MoveEntry, NextChain, EndResize, EndIterate
<1>7. ASSUME NEW k \in Keys, Delete(k) PROVE op' # "iterate" BY <1>7 DEF Delete
<1> QED BY <1>1, <1>2, <1>3, <1>4, <1>5, <1>6, <1>7 DEF Next, IterateStep

LEMMA VisitedIsVisits == IInv /\ IterateOK /\ VisitsOK => VisitsClosedForm
<1> SUFFICES ASSUME IInv, IterateOK, VisitsOK, op = "iterate", ~HasNext
             PROVE  visited = Visits(buckets)
  BY DEF VisitsClosedForm
<1>1. /\ capacity \in Nat \ {0} /\ buckets \in ChainsOver(capacity)
      /\ index \in 0 .. capacity - 1
  BY DEF IInv, MapOK, TypeOK
<1>2. ~(Len(rest) > 1) /\ Later = {} BY DEF HasNext
<1>3. PICK g : VisitTurns(g, buckets, capacity)
  BY <1>1, VisitTurnsExist DEF ChainsOver
<1>4. visited = g[index + 1] BY <1>2, <1>3, ChainVisited
<1>5. ASSUME NEW i \in 0 .. capacity - 1, i > index PROVE Len(buckets[i]) = 0
  <2>1. DOMAIN buckets = 0 .. capacity - 1 BY <1>1, CapacityIs DEF ChainsOver, Entries
  <2>2. buckets[i] = <<>> BY <1>2, <1>5, <2>1 DEF Later
  <2> QED BY <2>2
<1>6. g[capacity] = g[index + 1]
  <2> DEFINE lo == index + 1
  <2>1. /\ lo \in 0 .. capacity /\ capacity \in lo .. capacity
        /\ \A i \in 0 .. capacity - 1 : lo <= i /\ i < capacity => Len(buckets[i]) = 0
    BY <1>1, <1>5
  <2> HIDE DEF lo
  <2>2. g[capacity] = g[lo] BY <1>3, <2>1, EmptyBucketsShowNothing
  <2> QED BY <2>2 DEF lo
<1> QED BY <1>3, <1>4, <1>6 DEF VisitTurns

\* A resize that has moved all entries has built the closed form of it, and a
\* loop over the iterator has returned the closed form of that, in this order:
\* what module Database takes for them is what the loops of hashmap_resize and
\* of hashmap_iterator_next do, for every map.
THEOREM LoopsAreClosedForms == Spec => []LoopsMeetClosedForms
<1>1. Init => IterateOK /\ VisitsOK /\ MovedOK BY DEF Init, IterateOK, VisitsOK, MovedOK
<1>2. IInv /\ IterateOK /\ VisitsOK /\ MovedOK => LoopsMeetClosedForms
  BY MovedIsResized, VisitedIsVisits DEF LoopsMeetClosedForms
<1>3. IInv /\ IterateOK /\ VisitsOK /\ MovedOK /\ [Next]_vars
        => IterateOK' /\ VisitsOK' /\ MovedOK'
  BY StepIterateOK, StepVisitsOK, StepMovedOK
<1> QED BY <1>1, <1>2, <1>3, Inductive, PTL DEF Spec
=============================================================================
