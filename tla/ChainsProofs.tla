---------------------------- MODULE ChainsProofs ----------------------------
(***************************************************************************)
(* What is proved of Chains for all keys, hash values, values and          *)
(* capacities: what a lookup, an insertion and a removal do to a map, what *)
(* a resize comes to and what a loop over the iterator sees.  HashMapProofs*)
(* and DatabaseProofs rest on these lemmas.                                *)
(***************************************************************************)
EXTENDS Chains, TLAPS, FiniteSetTheorems, WellFoundedInduction

-----------------------------------------------------------------------------
(* Chains                                                                  *)

\* A set of numbers that is not empty has a least element.
LEMMA LeastExists ==
  ASSUME NEW S \in SUBSET Nat, S # {}
  PROVE  \E x \in S : \A y \in S : x <= y
<1>1. PICK x \in S : \A y \in S : <<y, x>> \notin OpToRel(<, Nat)
  BY WFMin, NatLessThanWellFounded, Zenon
<1>2. ASSUME NEW y \in S PROVE x <= y
  <2>1. x \in Nat /\ y \in Nat OBVIOUS
  <2>2. ~(y < x)
    <3>1. SUFFICES ASSUME y < x PROVE <<y, x>> \in OpToRel(<, Nat)
      BY <1>1
    <3>2. <<y, x>> \in Nat \X Nat BY <2>1
    <3>3. <<y, x>>[1] < <<y, x>>[2] BY <3>1
    <3> QED BY <3>2, <3>3, Zenon DEF OpToRel
  <2> QED BY <2>1, <2>2
<1> QED BY <1>2

\* Induction up to a bound, for a set of numbers.
LEMMA UpTo ==
  ASSUME NEW N \in Nat, NEW S, 0 \in S, \A k \in 0 .. N - 1 : k \in S => k + 1 \in S
  PROVE  \A k \in 0 .. N : k \in S
<1> DEFINE Bad == {k \in 0 .. N : k \notin S}
<1> SUFFICES ASSUME Bad # {} PROVE FALSE OBVIOUS
<1>1. PICK k \in Bad : \A l \in Bad : k <= l
  <2>1. Bad \in SUBSET Nat OBVIOUS
  <2> HIDE DEF Bad
  <2> QED BY <2>1, LeastExists
<1>2. k \in 0 .. N /\ k \notin S /\ k # 0 BY <1>1
<1>3. k - 1 \in 0 .. N - 1 /\ k - 1 \in 0 .. N /\ ~(k <= k - 1) /\ (k - 1) + 1 = k BY <1>2
<1>4. k - 1 \in S BY <1>1, <1>3
<1>5. (k - 1) + 1 \in S BY <1>3, <1>4
<1> QED BY <1>2, <1>3, <1>5

\* bucket_find finds an entry with the key if there is one.
LEMMA FindInFinds ==
  ASSUME NEW E, NEW chain \in Seq(E), NEW k
  PROVE  IF \E i \in 1..Len(chain) : chain[i].key = k
           THEN /\ FindIn(chain, k) \in 1..Len(chain)
                /\ chain[FindIn(chain, k)].key = k
           ELSE FindIn(chain, k) = 0
<1> DEFINE I == {i \in 1..Len(chain) : chain[i].key = k}
<1>1. FindIn(chain, k) = IF I # {} THEN CHOOSE x \in I : \A y \in I : x <= y ELSE 0
  BY DEF FindIn, SelectInSeq, Min
<1>2. I \in SUBSET Nat OBVIOUS
<1>3. I # {} => \E x \in I : \A y \in I : x <= y
  <2> HIDE DEF I
  <2> QED BY <1>2, LeastExists
<1> QED BY <1>1, <1>3

LEMMA CapacityIs ==
  ASSUME NEW K, NEW V, NEW n \in Nat \ {0}, NEW b \in MapsOver(n, K, V)
  PROVE  DOMAIN b = 0 .. n - 1 /\ CapacityOf(b) = n
<1>1. DOMAIN b = 0 .. n - 1 BY DEF MapsOver
<1>2. Cardinality(0 .. n - 1) = n BY FS_Interval
<1> QED BY <1>1, <1>2 DEF CapacityOf

LEMMA IndexIn ==
  ASSUME NEW K, HashOf \in [K -> Nat], NEW n \in Nat \ {0}, NEW k \in K
  PROVE  Index(k, n) \in 0 .. n - 1
<1>1. HashOf[k] \in Nat OBVIOUS
<1> QED BY <1>1 DEF Index

\* WellPlaced, for buckets whose number is known.
Placed(b, n) ==
  \A i \in 0 .. n - 1 : \A p, q \in 1 .. Len(b[i]) :
    /\ Index(b[i][p].key, n) = i
    /\ b[i][p].key = b[i][q].key => p = q

LEMMA PlacedIs ==
  ASSUME NEW K, NEW V, NEW n \in Nat \ {0}, NEW b \in MapsOver(n, K, V)
  PROVE  WellPlaced(b) <=> Placed(b, n)
<1>1. \A i \in 0 .. n - 1 : b[i] \in Seq(EntriesIn(K, V)) /\ DOMAIN b[i] = 1 .. Len(b[i])
  BY DEF MapsOver
<1>2. DOMAIN b = 0 .. n - 1 /\ CapacityOf(b) = n BY CapacityIs
<1>3. ASSUME WellPlaced(b) PROVE Placed(b, n)
  <2>1. SUFFICES ASSUME NEW i \in 0 .. n - 1, NEW p \in 1 .. Len(b[i]), NEW q \in 1 .. Len(b[i])
                 PROVE  /\ Index(b[i][p].key, n) = i
                        /\ b[i][p].key = b[i][q].key => p = q
    BY Zenon DEF Placed
  <2>2. i \in DOMAIN b /\ p \in DOMAIN b[i] /\ q \in DOMAIN b[i] BY <1>1, <1>2, Zenon
  <2> QED BY <1>2, <1>3, <2>2, Zenon DEF WellPlaced
<1>4. ASSUME Placed(b, n) PROVE WellPlaced(b)
  <2>1. SUFFICES ASSUME NEW i \in DOMAIN b, NEW p \in DOMAIN b[i], NEW q \in DOMAIN b[i]
                 PROVE  /\ Index(b[i][p].key, CapacityOf(b)) = i
                        /\ b[i][p].key = b[i][q].key => p = q
    BY Zenon DEF WellPlaced
  <2>2. i \in 0 .. n - 1 /\ p \in 1 .. Len(b[i]) /\ q \in 1 .. Len(b[i]) BY <1>1, <1>2, Zenon
  <2> QED BY <1>2, <1>4, <2>2, Zenon DEF Placed
<1> QED BY <1>3, <1>4

\* The entries, by bucket and place.
LEMMA EntryAt ==
  ASSUME NEW K, NEW V, NEW n \in Nat \ {0}, NEW b \in MapsOver(n, K, V), NEW e
  PROVE  /\ e \in EntriesOf(b) <=> \E i \in 0 .. n - 1 : \E p \in 1 .. Len(b[i]) : b[i][p] = e
         /\ e \in EntriesOf(b) => e \in EntriesIn(K, V)
<1>1. \A i \in 0 .. n - 1 : b[i] \in Seq(EntriesIn(K, V)) /\ DOMAIN b[i] = 1 .. Len(b[i])
  BY DEF MapsOver
<1>2. e \in EntriesOf(b) <=> \E i \in 0 .. n - 1 : e \in ToSet(b[i])
  BY CapacityIs DEF EntriesOf
<1>3. \A i \in 0 .. n - 1 : e \in ToSet(b[i]) <=> \E p \in 1 .. Len(b[i]) : b[i][p] = e
  BY <1>1 DEF ToSet
<1>4. \A i \in 0 .. n - 1 : \A p \in 1 .. Len(b[i]) : b[i][p] \in EntriesIn(K, V)
  BY <1>1
<1> QED BY <1>2, <1>3, <1>4

\* A lookup finds every entry of the map, and only one has the key.
LEMMA HasMeans ==
  ASSUME NEW K, NEW V, HashOf \in [K -> Nat],
         NEW n \in Nat \ {0}, NEW b \in MapsOver(n, K, V), Placed(b, n), NEW k \in K
  PROVE  /\ Has(b, k) <=> \E e \in EntriesOf(b) : e.key = k
         /\ \A e \in EntriesOf(b) : e.key = k => ValueAt(b, k) = e.value
<1> DEFINE i == Index(k, n)
           m == FindIn(b[i], k)
<1>1. i \in 0 .. n - 1 BY IndexIn
<1>2. (Has(b, k) <=> m # 0) /\ ValueAt(b, k) = b[i][m].value
  BY CapacityIs DEF ChainOf, Has, ValueAt
<1>3. b[i] \in Seq(EntriesIn(K, V)) BY <1>1 DEF MapsOver
<1>4. IF \E p \in 1 .. Len(b[i]) : b[i][p].key = k
        THEN m \in 1 .. Len(b[i]) /\ b[i][m].key = k
        ELSE m = 0
  BY <1>3, FindInFinds
<1>5. ASSUME NEW e \in EntriesOf(b), e.key = k
      PROVE  m \in 1 .. Len(b[i]) /\ b[i][m] = e
  <2>1a. PICK j \in 0 .. n - 1 : \E p \in 1 .. Len(b[j]) : b[j][p] = e BY EntryAt
  <2>1. PICK p \in 1 .. Len(b[j]) : b[j][p] = e BY <2>1a
  <2>2. j = i BY <1>5, <2>1 DEF Placed
  <2>3. m \in 1 .. Len(b[i]) /\ b[i][m].key = k BY <1>4, <1>5, <2>1, <2>2
  <2>4. m = p BY <1>1, <1>5, <2>1, <2>2, <2>3 DEF Placed
  <2> QED BY <2>1, <2>2, <2>3, <2>4
<1>6. ASSUME m # 0 PROVE \E e \in EntriesOf(b) : e.key = k
  <2>1. m \in 1 .. Len(b[i]) /\ b[i][m].key = k BY <1>4, <1>6
  <2>2. b[i][m] \in EntriesOf(b) BY <1>1, <2>1, EntryAt
  <2> QED BY <2>1, <2>2
<1>7. Has(b, k) <=> \E e \in EntriesOf(b) : e.key = k
  <2> HIDE DEF m, i
  <2> QED BY <1>2, <1>3, <1>5, <1>6
<1> QED BY <1>2, <1>5, <1>7

LEMMA KeyOnce ==
  ASSUME NEW K, NEW V, NEW n \in Nat \ {0}, NEW b \in MapsOver(n, K, V), Placed(b, n),
         NEW e \in EntriesOf(b), NEW f \in EntriesOf(b), e.key = f.key
  PROVE  e = f
<1>1a. PICK i \in 0 .. n - 1 : \E p \in 1 .. Len(b[i]) : b[i][p] = e BY EntryAt
<1>1. PICK p \in 1 .. Len(b[i]) : b[i][p] = e BY <1>1a
<1>2a. PICK j \in 0 .. n - 1 : \E q \in 1 .. Len(b[j]) : b[j][q] = f BY EntryAt
<1>2. PICK q \in 1 .. Len(b[j]) : b[j][q] = f BY <1>2a
<1>3. i = j BY <1>1, <1>2 DEF Placed
<1> QED BY <1>1, <1>2, <1>3 DEF Placed

\* No entry has the key.
Lacks(b, k) == \A f \in EntriesOf(b) : f.key # k
\* How c differs from b when e was pushed on chain i, or has taken place m of
\* chain i, or when the entry there was taken out.
PushedAt(b, c, n, i, e) ==
  c[i] = <<e>> \o b[i] /\ \A j \in 0 .. n - 1 : j # i => c[j] = b[j]
ReplacedAt(b, c, n, i, m, e) ==
  /\ Len(c[i]) = Len(b[i]) /\ c[i][m] = e
  /\ \A p \in 1 .. Len(b[i]) : p # m => c[i][p] = b[i][p]
  /\ \A j \in 0 .. n - 1 : j # i => c[j] = b[j]
RemovedAt(b, c, n, i, m) ==
  /\ Len(c[i]) = Len(b[i]) - 1
  /\ \A p \in 1 .. m - 1 : c[i][p] = b[i][p]
  /\ \A p \in m .. Len(b[i]) - 1 : c[i][p] = b[i][p + 1]
  /\ \A j \in 0 .. n - 1 : j # i => c[j] = b[j]

\* A new entry goes to the head of the chain its key hashes to.
LEMMA PushedKeeps ==
  ASSUME NEW K, NEW V, NEW n \in Nat \ {0}, NEW b \in MapsOver(n, K, V), Placed(b, n),
         NEW e \in EntriesIn(K, V), Lacks(b, e.key),
         NEW i \in 0 .. n - 1, i = Index(e.key, n),
         NEW c \in MapsOver(n, K, V), PushedAt(b, c, n, i, e)
  PROVE  Placed(c, n) /\ EntriesOf(c) = EntriesOf(b) \cup {e}
<1> USE DEF Lacks, PushedAt
<1>1. b[i] \in Seq(EntriesIn(K, V)) /\ Len(b[i]) \in Nat BY DEF MapsOver
<1>2. /\ Len(c[i]) = Len(b[i]) + 1
      /\ c[i][1] = e
      /\ \A p \in 1 .. Len(b[i]) : c[i][p + 1] = b[i][p]
      /\ \A p \in 2 .. Len(c[i]) : c[i][p] = b[i][p - 1] /\ p - 1 \in 1 .. Len(b[i])
  BY <1>1
<1>3. \A p \in 1 .. Len(b[i]) : b[i][p] \in EntriesOf(b)
  BY EntryAt
<1>4. /\ \A r \in 1 .. Len(b[i]) : Index(b[i][r].key, n) = i
      /\ \A r, t \in 1 .. Len(b[i]) : b[i][r].key = b[i][t].key => r = t
  BY DEF Placed
<1>5. ASSUME NEW j \in 0 .. n - 1, NEW p \in 1 .. Len(c[j]), NEW q \in 1 .. Len(c[j])
      PROVE  /\ Index(c[j][p].key, n) = j
             /\ c[j][p].key = c[j][q].key => p = q
  <2>1. CASE j # i BY <2>1 DEF Placed
  <2>2. CASE j = i
    <3>1. \A r \in 1 .. Len(c[i]) : r = 1 \/ r \in 2 .. Len(c[i]) OBVIOUS
    <3>2. \A r \in 2 .. Len(c[i]) : c[i][r].key # e.key BY <1>2, <1>3
    <3>3. ASSUME NEW r \in 2 .. Len(c[i]) PROVE Index(c[i][r].key, n) = i
      <4>1. c[i][r] = b[i][r - 1] /\ r - 1 \in 1 .. Len(b[i]) BY <1>2
      <4> QED BY <1>4, <4>1
    <3>4. ASSUME NEW r \in 2 .. Len(c[i]), NEW t \in 2 .. Len(c[i]),
                 c[i][r].key = c[i][t].key
          PROVE  r = t
      <4>1. /\ r - 1 \in 1 .. Len(b[i]) /\ c[i][r] = b[i][r - 1]
            /\ t - 1 \in 1 .. Len(b[i]) /\ c[i][t] = b[i][t - 1]
        BY <1>2
      <4>2. r - 1 = t - 1 BY <1>4, <3>4, <4>1
      <4> QED BY <4>2
    <3>5. Index(c[i][p].key, n) = i BY <1>2, <2>2, <3>1, <3>3
    <3>6. c[i][p].key = c[i][q].key => p = q BY <1>2, <2>2, <3>1, <3>2, <3>4
    <3> QED BY <2>2, <3>5, <3>6
  <2> QED BY <2>1, <2>2
<1>6. Placed(c, n) BY <1>5 DEF Placed
<1>7. ASSUME NEW f PROVE f \in EntriesOf(c) <=> f \in EntriesOf(b) \cup {e}
  <2>1. ASSUME f \in EntriesOf(b) PROVE f \in EntriesOf(c)
    <3>1. PICK j \in 0 .. n - 1 : \E p \in 1 .. Len(b[j]) : b[j][p] = f BY <2>1, EntryAt
    <3>2. PICK p \in 1 .. Len(b[j]) : b[j][p] = f BY <3>1
    <3>3. CASE j = i
      <4>1. p + 1 \in 1 .. Len(c[i]) /\ c[i][p + 1] = f BY <1>1, <1>2, <3>2, <3>3
      <4> QED BY <4>1, EntryAt
    <3>4. CASE j # i BY <3>2, <3>4, EntryAt
    <3> QED BY <3>3, <3>4
  <2>2. e \in EntriesOf(c)
    <3>1. 1 \in 1 .. Len(c[i]) BY <1>1, <1>2
    <3> QED BY <1>2, <3>1, EntryAt
  <2>3. ASSUME f \in EntriesOf(c) PROVE f \in EntriesOf(b) \cup {e}
    <3>1. PICK j \in 0 .. n - 1 : \E p \in 1 .. Len(c[j]) : c[j][p] = f BY <2>3, EntryAt
    <3>2. PICK p \in 1 .. Len(c[j]) : c[j][p] = f BY <3>1
    <3>3. CASE j = i
      <4>1. p = 1 \/ p \in 2 .. Len(c[i]) BY <3>2, <3>3
      <4> QED BY <1>2, <1>3, <3>2, <3>3, <4>1
    <3>4. CASE j # i BY <3>2, <3>4, EntryAt
    <3> QED BY <3>3, <3>4
  <2> QED BY <2>1, <2>2, <2>3
<1> QED BY <1>6, <1>7

\* An entry at the head of its chain.
Pushed(b, e, n) == [b EXCEPT ![Index(e.key, n)] = <<e>> \o @]

LEMMA PushKeeps ==
  ASSUME NEW K, NEW V, HashOf \in [K -> Nat],
         NEW n \in Nat \ {0}, NEW b \in MapsOver(n, K, V), Placed(b, n),
         NEW e \in EntriesIn(K, V), Lacks(b, e.key)
  PROVE  /\ Pushed(b, e, n) \in MapsOver(n, K, V) /\ Placed(Pushed(b, e, n), n)
         /\ EntriesOf(Pushed(b, e, n)) = EntriesOf(b) \cup {e}
<1> DEFINE i == Index(e.key, n)
           c == Pushed(b, e, n)
<1>1. i \in 0 .. n - 1
  <2>1. e.key \in K BY DEF EntriesIn
  <2> QED BY <2>1, IndexIn
<1>2. c \in MapsOver(n, K, V)
  <2>1. <<e>> \o b[i] \in Seq(EntriesIn(K, V)) BY <1>1 DEF MapsOver
  <2> QED BY <1>1, <2>1 DEF MapsOver, Pushed
<1>3. PushedAt(b, c, n, i, e)
  BY <1>1 DEF MapsOver, Pushed, PushedAt
<1>4. i = Index(e.key, n) OBVIOUS
<1> HIDE DEF c, i
<1>5. Placed(c, n) /\ EntriesOf(c) = EntriesOf(b) \cup {e}
  BY <1>1, <1>2, <1>3, <1>4, PushedKeeps
<1> QED BY <1>2, <1>5 DEF c

\* The entries with another key.
Others(b, k) == {f \in EntriesOf(b) : f.key # k}
\* Those and the entry of the key.
Updated(b, k, v) == Others(b, k) \cup {Entry(k, v)}

\* A table set under a known name replaces the value of its entry.
LEMMA ReplacedKeeps ==
  ASSUME NEW K, NEW V, NEW n \in Nat \ {0}, NEW b \in MapsOver(n, K, V), Placed(b, n),
         NEW i \in 0 .. n - 1, NEW m \in 1 .. Len(b[i]), NEW e \in EntriesIn(K, V),
         b[i][m].key = e.key,
         NEW c \in MapsOver(n, K, V), ReplacedAt(b, c, n, i, m, e)
  PROVE  /\ Placed(c, n)
         /\ EntriesOf(c) = Others(b, e.key) \cup {e}
<1> USE DEF ReplacedAt, Others
<1>1. \A j \in 0 .. n - 1 : /\ Len(c[j]) = Len(b[j])
                            /\ \A p \in 1 .. Len(b[j]) : c[j][p].key = b[j][p].key
  OBVIOUS
<1>2. Placed(c, n) BY <1>1 DEF Placed
<1>3. ASSUME NEW f, f \in EntriesOf(c)
      PROVE  f = e \/ (f \in EntriesOf(b) /\ f.key # e.key)
  <2>1. PICK j \in 0 .. n - 1 : \E p \in 1 .. Len(c[j]) : c[j][p] = f BY <1>3, EntryAt
  <2>2. PICK p \in 1 .. Len(c[j]) : c[j][p] = f BY <2>1
  <2>3. CASE j = i /\ p = m BY <2>2, <2>3
  <2>4. CASE j # i \/ p # m
    <3>1. p \in 1 .. Len(b[j]) /\ b[j][p] = f BY <1>1, <2>2, <2>4
    <3>2. f \in EntriesOf(b) BY <3>1, EntryAt
    <3>3. f.key # e.key
      <4>1. SUFFICES ASSUME f.key = e.key PROVE FALSE OBVIOUS
      <4>2. j = i BY <3>1, <4>1 DEF Placed
      <4>3. p = m BY <3>1, <4>1, <4>2 DEF Placed
      <4> QED BY <2>4, <4>2, <4>3
    <3> QED BY <3>2, <3>3
  <2> QED BY <2>3, <2>4
<1>4. ASSUME NEW f, f \in EntriesOf(b), f.key # e.key
      PROVE  f \in EntriesOf(c)
  <2>1. PICK j \in 0 .. n - 1 : \E p \in 1 .. Len(b[j]) : b[j][p] = f BY <1>4, EntryAt
  <2>2. PICK p \in 1 .. Len(b[j]) : b[j][p] = f BY <2>1
  <2>3. j # i \/ p # m BY <1>4, <2>2
  <2>4. p \in 1 .. Len(c[j]) /\ c[j][p] = f BY <1>1, <2>2, <2>3
  <2> QED BY <2>4, EntryAt
<1>5. e \in EntriesOf(c)
  <2>1. m \in 1 .. Len(c[i]) OBVIOUS
  <2> QED BY <2>1, EntryAt
<1> QED BY <1>2, <1>3, <1>4, <1>5

\* hashmap_set puts its entry where a lookup finds it, in place of the one
\* with its key.
LEMMA PutKeeps ==
  ASSUME NEW K, NEW V, HashOf \in [K -> Nat],
         NEW n \in Nat \ {0}, NEW b \in MapsOver(n, K, V), Placed(b, n),
         NEW k \in K, NEW v \in V
  PROVE  /\ Put(b, k, v) \in MapsOver(n, K, V) /\ Placed(Put(b, k, v), n)
         /\ EntriesOf(Put(b, k, v)) = Updated(b, k, v)
<1> DEFINE i == Index(k, n)
           m == FindIn(b[i], k)
           c == [b EXCEPT ![i][m].value = v]
<1>1. i \in 0 .. n - 1 BY IndexIn
<1>2. Entry(k, v) \in EntriesIn(K, V) /\ Entry(k, v).key = k BY DEF Entry, EntriesIn
<1>3. Put(b, k, v) = IF m = 0 THEN [b EXCEPT ![i] = <<Entry(k, v)>> \o @] ELSE c
  <2>1. CapacityOf(b) = n BY CapacityIs
  <2> QED BY <2>1 DEF Put
<1>4. b[i] \in Seq(EntriesIn(K, V)) BY <1>1 DEF MapsOver
<1>5. IF \E p \in 1 .. Len(b[i]) : b[i][p].key = k
        THEN m \in 1 .. Len(b[i]) /\ b[i][m].key = k
        ELSE m = 0
  BY <1>4, FindInFinds
<1>6. CASE m = 0
  <2>1. ASSUME NEW f \in EntriesOf(b) PROVE f.key # k
    <3>1. PICK j \in 0 .. n - 1 : \E p \in 1 .. Len(b[j]) : b[j][p] = f BY EntryAt
    <3>2. PICK p \in 1 .. Len(b[j]) : b[j][p] = f BY <3>1
    <3>3. f.key = k => j = i BY <3>2 DEF Placed
    <3> HIDE DEF i, m
    <3> QED BY <1>4, <1>5, <1>6, <3>2, <3>3
  <2> DEFINE e == Entry(k, v)
             d == Pushed(b, e, n)
  <2>2. Put(b, k, v) = d BY <1>2, <1>3, <1>6 DEF Pushed
  <2>3. e \in EntriesIn(K, V) /\ Lacks(b, e.key) BY <1>2, <2>1 DEF Lacks
  <2>4. d \in MapsOver(n, K, V) /\ Placed(d, n) /\ EntriesOf(d) = EntriesOf(b) \cup {e}
    <3> HIDE DEF e
    <3> QED BY <2>3, PushKeeps
  <2>5. Others(b, k) = EntriesOf(b) BY <2>1 DEF Others
  <2> QED BY <2>2, <2>4, <2>5 DEF Updated
<1>7. CASE m # 0
  <2>1. m \in 1 .. Len(b[i]) /\ b[i][m].key = k BY <1>5, <1>7
  <2>2. [b[i][m] EXCEPT !.value = v] = Entry(k, v)
    <3>1. b[i][m] \in EntriesIn(K, V) BY <1>4, <2>1
    <3> QED BY <2>1, <3>1 DEF EntriesIn, Entry
  <2>3. c[i] = [b[i] EXCEPT ![m] = Entry(k, v)] /\ \A j \in 0 .. n - 1 : j # i => c[j] = b[j]
    BY <1>1, <2>2 DEF MapsOver
  <2>4. c[i] \in Seq(EntriesIn(K, V)) BY <1>2, <1>4, <2>1, <2>3
  <2>5. c \in MapsOver(n, K, V) BY <1>1, <2>3, <2>4 DEF MapsOver
  <2>6. ReplacedAt(b, c, n, i, m, Entry(k, v)) BY <1>4, <2>1, <2>3 DEF ReplacedAt
  <2>7. Put(b, k, v) = c BY <1>3, <1>7
  <2> HIDE DEF i, m, c
  <2>8. /\ Placed(c, n)
        /\ EntriesOf(c) = Others(b, Entry(k, v).key) \cup {Entry(k, v)}
    BY <1>1, <1>2, <2>1, <2>5, <2>6, ReplacedKeeps
  <2> QED BY <1>2, <2>5, <2>7, <2>8 DEF Updated
<1> QED BY <1>6, <1>7

\* hashmap_delete takes out the one entry with its key.
LEMMA RemovedKeeps ==
  ASSUME NEW K, NEW V, NEW n \in Nat \ {0}, NEW b \in MapsOver(n, K, V), Placed(b, n),
         NEW i \in 0 .. n - 1, NEW m \in 1 .. Len(b[i]),
         NEW c \in MapsOver(n, K, V), RemovedAt(b, c, n, i, m)
  PROVE  /\ Placed(c, n)
         /\ EntriesOf(c) = Others(b, b[i][m].key)
<1> USE DEF RemovedAt, Others
<1> DEFINE from(j, p) == IF j = i /\ p >= m THEN p + 1 ELSE p
<1>1. \A j \in 0 .. n - 1 : Len(b[j]) \in Nat /\ Len(c[j]) \in Nat BY DEF MapsOver
<1>2. ASSUME NEW j \in 0 .. n - 1, NEW p \in 1 .. Len(c[j])
      PROVE  /\ from(j, p) \in 1 .. Len(b[j]) /\ c[j][p] = b[j][from(j, p)]
             /\ j = i => from(j, p) # m
  <2>1. CASE j # i BY <2>1
  <2>2. CASE j = i
    <3>1. p \in Nat /\ m \in Nat /\ m <= Len(b[i]) /\ p <= Len(b[i]) - 1 BY <1>1, <2>2
    <3>2. CASE p < m
      <4>1. from(j, p) = p /\ p \in 1 .. m - 1 BY <3>1, <3>2
      <4> QED BY <1>1, <2>2, <3>1, <3>2, <4>1
    <3>3. CASE ~(p < m)
      <4>1. from(j, p) = p + 1 BY <2>2, <3>1, <3>3
      <4>2. p \in m .. Len(b[i]) - 1 BY <1>1, <3>1, <3>3
      <4>3. c[i][p] = b[i][p + 1] BY <4>2
      <4> QED BY <1>1, <2>2, <3>1, <3>3, <4>1, <4>3
    <3> QED BY <3>2, <3>3
  <2> QED BY <2>1, <2>2
<1>3. ASSUME NEW j \in 0 .. n - 1, NEW p \in 1 .. Len(c[j]), NEW q \in 1 .. Len(c[j]),
             from(j, p) = from(j, q)
      PROVE  p = q
  BY <1>1, <1>3
<1>4. ASSUME NEW j \in 0 .. n - 1, NEW p \in 1 .. Len(b[j]), j = i => p # m
      PROVE  \E q \in 1 .. Len(c[j]) : from(j, q) = p
  <2>1. CASE j = i /\ p > m
    <3>1. p - 1 \in 1 .. Len(c[j]) /\ from(j, p - 1) = p BY <1>1, <2>1
    <3> QED BY <3>1
  <2>2. CASE j # i \/ p < m
    <3>1. p \in 1 .. Len(c[j]) /\ from(j, p) = p BY <1>1, <2>2
    <3> QED BY <3>1
  <2> QED BY <1>1, <1>4, <2>1, <2>2
<1> HIDE DEF from
<1>5. Placed(c, n)
  <2>1. ASSUME NEW j \in 0 .. n - 1, NEW p \in 1 .. Len(c[j]), NEW q \in 1 .. Len(c[j])
        PROVE  /\ Index(c[j][p].key, n) = j
               /\ c[j][p].key = c[j][q].key => p = q
    <3>1. /\ from(j, p) \in 1 .. Len(b[j]) /\ c[j][p] = b[j][from(j, p)]
          /\ from(j, q) \in 1 .. Len(b[j]) /\ c[j][q] = b[j][from(j, q)]
      BY <1>2
    <3>2. Index(c[j][p].key, n) = j BY <3>1 DEF Placed
    <3>3. c[j][p].key = c[j][q].key => from(j, p) = from(j, q) BY <3>1 DEF Placed
    <3> QED BY <1>3, <3>2, <3>3
  <2> QED BY <2>1 DEF Placed
<1>6. ASSUME NEW f, f \in EntriesOf(c)
      PROVE  f \in EntriesOf(b) /\ f.key # b[i][m].key
  <2>1. PICK j \in 0 .. n - 1 : \E p \in 1 .. Len(c[j]) : c[j][p] = f BY <1>6, EntryAt
  <2>2. PICK p \in 1 .. Len(c[j]) : c[j][p] = f BY <2>1
  <2>3. PICK q \in 1 .. Len(b[j]) : b[j][q] = f /\ (j = i => q # m) BY <1>2, <2>2
  <2>4. f \in EntriesOf(b) BY <2>3, EntryAt
  <2>5. f.key # b[i][m].key
    <3>1. SUFFICES ASSUME f.key = b[i][m].key PROVE FALSE OBVIOUS
    <3>2. j = i BY <2>3, <3>1 DEF Placed
    <3>3. q = m BY <2>3, <3>1, <3>2 DEF Placed
    <3> QED BY <2>3, <3>2, <3>3
  <2> QED BY <2>4, <2>5
<1>7. ASSUME NEW f, f \in EntriesOf(b), f.key # b[i][m].key
      PROVE  f \in EntriesOf(c)
  <2>1. PICK j \in 0 .. n - 1 : \E p \in 1 .. Len(b[j]) : b[j][p] = f BY <1>7, EntryAt
  <2>2. PICK p \in 1 .. Len(b[j]) : b[j][p] = f BY <2>1
  <2>3. j = i => p # m BY <1>7, <2>2
  <2>4. PICK q \in 1 .. Len(c[j]) : from(j, q) = p BY <1>4, <2>3
  <2>5. c[j][q] = f BY <1>2, <2>2, <2>4
  <2> QED BY <2>5, EntryAt
<1> QED BY <1>5, <1>6, <1>7

LEMMA UnlinkKeeps ==
  ASSUME NEW K, NEW V, HashOf \in [K -> Nat],
         NEW n \in Nat \ {0}, NEW b \in MapsOver(n, K, V), Placed(b, n),
         NEW k \in K, Has(b, k)
  PROVE  /\ Unlink(b, k) \in MapsOver(n, K, V) /\ Placed(Unlink(b, k), n)
         /\ EntriesOf(Unlink(b, k)) = Others(b, k)
<1> DEFINE i == Index(k, n)
           m == FindIn(b[i], k)
           c == [b EXCEPT ![i] = SubSeq(@, 1, m - 1) \o SubSeq(@, m + 1, Len(@))]
<1>1. i \in 0 .. n - 1 BY IndexIn
<1>2. Unlink(b, k) = c BY CapacityIs DEF Unlink, RemoveAt
<1>3. b[i] \in Seq(EntriesIn(K, V)) BY <1>1 DEF MapsOver
<1>4. m # 0 BY CapacityIs DEF Has, ChainOf
<1>5. m \in 1 .. Len(b[i]) /\ b[i][m].key = k
  <2>1. IF \E p \in 1 .. Len(b[i]) : b[i][p].key = k
          THEN m \in 1 .. Len(b[i]) /\ b[i][m].key = k
          ELSE m = 0
    BY <1>3, FindInFinds
  <2> QED BY <1>4, <2>1
<1> HIDE DEF m
<1>6. /\ c[i] = SubSeq(b[i], 1, m - 1) \o SubSeq(b[i], m + 1, Len(b[i]))
      /\ \A j \in 0 .. n - 1 : j # i => c[j] = b[j]
  BY <1>1 DEF MapsOver
<1>7. c[i] \in Seq(EntriesIn(K, V))
  <2> DEFINE old == b[i]
             E == EntriesIn(K, V)
  <2>1. old \in Seq(E) /\ m \in 1 .. Len(old) BY <1>3, <1>5
  <2>2. c[i] = SubSeq(old, 1, m - 1) \o SubSeq(old, m + 1, Len(old)) BY <1>6
  <2> HIDE DEF old, E, c, i
  <2>3. SubSeq(old, 1, m - 1) \in Seq(E) BY <2>1
  <2>4. SubSeq(old, m + 1, Len(old)) \in Seq(E) BY <2>1
  <2>5. c[i] \in Seq(E) BY <2>2, <2>3, <2>4
  <2> QED BY <2>5 DEF E
<1>8. c \in MapsOver(n, K, V) BY <1>1, <1>6, <1>7 DEF MapsOver
<1>9. /\ Len(c[i]) = Len(b[i]) - 1
      /\ \A p \in 1 .. m - 1 : c[i][p] = b[i][p]
      /\ \A p \in m .. Len(b[i]) - 1 : c[i][p] = b[i][p + 1]
  <2> DEFINE s == SubSeq(b[i], 1, m - 1)
             t == SubSeq(b[i], m + 1, Len(b[i]))
  <2>1. /\ s \in Seq(EntriesIn(K, V)) /\ Len(s) = m - 1 /\ \A p \in 1 .. m - 1 : s[p] = b[i][p]
        /\ t \in Seq(EntriesIn(K, V)) /\ Len(t) = Len(b[i]) - m
        /\ \A p \in 1 .. Len(b[i]) - m : t[p] = b[i][m + p]
    <3>1. /\ s \in Seq(EntriesIn(K, V)) /\ Len(s) = m - 1
          /\ \A p \in 1 .. m - 1 : s[p] = b[i][p]
      BY <1>3, <1>5
    <3>2. /\ t \in Seq(EntriesIn(K, V)) /\ Len(t) = Len(b[i]) - m
          /\ \A p \in 1 .. Len(b[i]) - m : t[p] = b[i][m + p]
      BY <1>3, <1>5
    <3> QED BY <3>1, <3>2
  <2>2. c[i] = s \o t BY <1>6
  <2> HIDE DEF s, t, c, i
  <2>3. Len(c[i]) = Len(s) + Len(t)
    <3>1. s \in Seq(EntriesIn(K, V)) /\ t \in Seq(EntriesIn(K, V)) BY <2>1
    <3>2. Len(s \o t) = Len(s) + Len(t) BY <3>1
    <3> QED BY <2>2, <3>2, Zenon
  <2>4. \A p \in 1 .. Len(s) : c[i][p] = s[p] BY <2>1, <2>2
  <2>5. \A p \in 1 .. Len(t) : c[i][Len(s) + p] = t[p]
    <3>1. s \in Seq(EntriesIn(K, V)) /\ t \in Seq(EntriesIn(K, V)) BY <2>1
    <3>2. \A p \in 1 .. Len(t) : (s \o t)[Len(s) + p] = t[p] BY <3>1
    <3> QED BY <2>2, <3>2
  <2>6. Len(b[i]) \in Nat BY <1>3
  <2>7. ASSUME NEW p \in m .. Len(b[i]) - 1 PROVE c[i][p] = b[i][p + 1]
    <3>1. p - (m - 1) \in 1 .. Len(t) BY <1>5, <2>1, <2>6
    <3>2. c[i][(m - 1) + (p - (m - 1))] = t[p - (m - 1)] BY <2>1, <2>5, <3>1
    <3>3. (m - 1) + (p - (m - 1)) = p /\ m + (p - (m - 1)) = p + 1 BY <1>5, <2>6
    <3> QED BY <2>1, <3>1, <3>2, <3>3
  <2>8. Len(c[i]) = Len(b[i]) - 1 BY <1>5, <2>1, <2>3, <2>6
  <2>9. \A p \in 1 .. m - 1 : c[i][p] = b[i][p] BY <2>1, <2>4, Zenon
  <2> QED BY <2>7, <2>8, <2>9, Zenon
<1> HIDE DEF i, c
<1>10. RemovedAt(b, c, n, i, m) BY <1>6, <1>9 DEF RemovedAt
<1>11. Placed(c, n) /\ EntriesOf(c) = Others(b, b[i][m].key)
  BY <1>1, <1>5, <1>8, <1>10, RemovedKeeps
<1> QED BY <1>2, <1>5, <1>8, <1>11

-----------------------------------------------------------------------------
(* The number of entries                                                   *)

\* hashmap_set adds one entry, unless the name is known.
LEMMA PutCounts ==
  ASSUME NEW K, NEW V, HashOf \in [K -> Nat],
         NEW n \in Nat \ {0}, NEW b \in MapsOver(n, K, V), Placed(b, n),
         IsFiniteSet(EntriesOf(b)), NEW k \in K, NEW v \in V
  PROVE  /\ IsFiniteSet(EntriesOf(Put(b, k, v)))
         /\ Cardinality(EntriesOf(Put(b, k, v))) =
              IF Has(b, k) THEN Cardinality(EntriesOf(b)) ELSE Cardinality(EntriesOf(b)) + 1
<1> DEFINE E == EntriesOf(b)
           others == {f \in E : f.key # k}
           e == Entry(k, v)
<1>1. EntriesOf(Put(b, k, v)) = others \cup {e} BY PutKeeps DEF Updated, Others
<1>2. e \notin others BY DEF Entry
<1>3. Has(b, k) <=> \E f \in E : f.key = k BY HasMeans
<1>4. Cardinality(E) \in Nat BY FS_CardinalityType
<1>5. CASE Has(b, k)
  <2>1. PICK f \in E : f.key = k BY <1>3, <1>5
  <2>2. others = E \ {f}
    <3>1. ASSUME NEW g \in E, g.key = k PROVE g = f BY <2>1, <3>1, KeyOnce
    <3> QED BY <2>1, <3>1
  <2> HIDE DEF E, e, others
  <2>3. IsFiniteSet(others) /\ Cardinality(others) = Cardinality(E) - 1
    BY <2>1, <2>2, FS_RemoveElement DEF E
  <2>4. IsFiniteSet(others \cup {e}) /\ Cardinality(others \cup {e}) = Cardinality(others) + 1
    BY <1>2, <2>3, FS_AddElement
  <2> QED BY <1>1, <1>4, <1>5, <2>3, <2>4 DEF E
<1>6. CASE ~Has(b, k)
  <2>1. others = E BY <1>3, <1>6
  <2> HIDE DEF E, e, others
  <2>2. IsFiniteSet(others \cup {e}) /\ Cardinality(others \cup {e}) = Cardinality(others) + 1
    BY <1>2, <2>1, FS_AddElement DEF E
  <2> QED BY <1>1, <1>6, <2>1, <2>2 DEF E
<1> QED BY <1>5, <1>6

LEMMA UnlinkCounts ==
  ASSUME NEW K, NEW V, HashOf \in [K -> Nat],
         NEW n \in Nat \ {0}, NEW b \in MapsOver(n, K, V), Placed(b, n),
         IsFiniteSet(EntriesOf(b)), NEW k \in K, Has(b, k)
  PROVE  /\ IsFiniteSet(EntriesOf(Unlink(b, k)))
         /\ Cardinality(EntriesOf(b)) \in Nat \ {0}
         /\ Cardinality(EntriesOf(Unlink(b, k))) = Cardinality(EntriesOf(b)) - 1
<1> DEFINE E == EntriesOf(b)
<1>1. EntriesOf(Unlink(b, k)) = {f \in E : f.key # k} BY UnlinkKeeps DEF Others
<1>2. PICK f \in E : f.key = k BY HasMeans
<1>3. {g \in E : g.key # k} = E \ {f}
  <2>1. ASSUME NEW g \in E, g.key = k PROVE g = f BY <1>2, <2>1, KeyOnce
  <2> QED BY <1>2, <2>1
<1>4. IsFiniteSet(E \ {f}) /\ Cardinality(E \ {f}) = Cardinality(E) - 1
  BY <1>2, FS_RemoveElement
<1>5. Cardinality(E \ {f}) \in Nat /\ Cardinality(E) \in Nat BY <1>4, FS_CardinalityType
<1>6. EntriesOf(Unlink(b, k)) = E \ {f} BY <1>1, <1>3
<1> HIDE DEF E
<1>7. Cardinality(E) = Cardinality(E \ {f}) + 1 BY <1>4, <1>5
<1>8. Cardinality(E) \in Nat \ {0} BY <1>5, <1>7
<1> QED BY <1>4, <1>6, <1>8 DEF E

LEMMA EmptyKeeps ==
  ASSUME NEW K, NEW V, NEW n \in Nat \ {0}
  PROVE  /\ NoEntries(n) \in MapsOver(n, K, V) /\ Placed(NoEntries(n), n)
         /\ EntriesOf(NoEntries(n)) = {}
<1>1. \A i \in 0 .. n - 1 : NoEntries(n)[i] = <<>> BY DEF NoEntries
<1>2. NoEntries(n) \in MapsOver(n, K, V) BY DEF NoEntries, MapsOver
<1>3. ASSUME NEW e \in EntriesOf(NoEntries(n)) PROVE FALSE
  <2>1. PICK i \in 0 .. n - 1 : \E p \in 1 .. Len(NoEntries(n)[i]) : NoEntries(n)[i][p] = e
    BY <1>2, EntryAt
  <2> QED BY <1>1, <2>1
<1> QED BY <1>1, <1>2, <1>3 DEF Placed

-----------------------------------------------------------------------------
(* Folds                                                                   *)

\* A set of numbers with a bound has a greatest element.
LEMMA GreatestBelow ==
  ASSUME NEW k \in Nat, NEW s \in SUBSET (0 .. k), s # {}
  PROVE  Max(s) \in s /\ \A y \in s : y <= Max(s)
<1> DEFINE U == {u \in Nat : \A y \in s : y <= u}
<1>1. k \in U OBVIOUS
<1>2. PICK u \in U : \A w \in U : u <= w
  <2> HIDE DEF U
  <2>1. U \in SUBSET Nat BY DEF U
  <2> QED BY <1>1, <2>1, LeastExists
<1>3. u \in s
  <2>1. SUFFICES ASSUME u \notin s PROVE FALSE OBVIOUS
  <2>2. PICK y \in s : TRUE OBVIOUS
  <2>3. u \in Nat /\ u # 0
    <3>1. u \in Nat /\ y \in Nat /\ y # u /\ y <= u BY <2>1, <2>2
    <3> QED BY <3>1
  <2>4. \A z \in s : z \in Nat /\ z <= u /\ z # u BY <2>1
  <2>5. u - 1 \in Nat /\ \A z \in s : z <= u - 1 BY <2>3, <2>4
  <2>6. u - 1 \in U BY <2>5
  <2> HIDE DEF U
  <2>7. u <= u - 1 BY <1>2, <2>6
  <2> QED BY <2>3, <2>7
<1>4. \E x \in s : \A y \in s : x >= y BY <1>3
<1>5. \A y \in s : Max(s) >= y /\ Max(s) \in s BY <1>4 DEF Max
<1> QED BY <1>3, <1>5

LEMMA GreatestIs ==
  ASSUME NEW k \in Nat, NEW s \in SUBSET (1 .. k), s # {}
  PROVE  Max(s) \in s /\ \A y \in s : y <= Max(s)
<1>1. s \in SUBSET (0 .. k) OBVIOUS
<1> QED BY <1>1, GreatestBelow

LEMMA GreatestOf ==
  ASSUME NEW k \in Nat, NEW s \in SUBSET (1 .. k + 1), k + 1 \in s
  PROVE  Max(s) = k + 1
<1>1. k + 1 \in Nat /\ s # {} OBVIOUS
<1>2. Max(s) \in s /\ \A y \in s : y <= Max(s) BY <1>1, GreatestIs
<1>3. Max(s) \in 1 .. k + 1 BY <1>2
<1>4. k + 1 <= Max(s) BY <1>2
<1> QED BY <1>3, <1>4

\* f tells what a fold over places 1 .. N comes to for each set of them.
IsFold(f, X, base, step, N) ==
  /\ f \in [SUBSET (1 .. N) -> X]
  /\ \A s \in SUBSET (1 .. N) :
       f[s] = IF s = {} THEN base ELSE step[<<f[s \ {Max(s)}], Max(s)>>]

LEMMA FoldExists ==
  ASSUME NEW X, NEW base \in X, NEW N \in Nat, NEW step \in [X \X (1 .. N) -> X]
  PROVE  \E f : IsFold(f, X, base, step, N)
<1> DEFINE Next1(f, s) == IF s = {} THEN base ELSE step[<<f[s \ {Max(s)}], Max(s)>>]
           Good(k) == \E f \in [SUBSET (1 .. k) -> X] :
                        \A s \in SUBSET (1 .. k) : f[s] = Next1(f, s)
<1>1. Good(0)
  <2>1. SUBSET (1 .. 0) = {{}} OBVIOUS
  <2> DEFINE f == [s \in SUBSET (1 .. 0) |-> base]
  <2>2. f \in [SUBSET (1 .. 0) -> X] OBVIOUS
  <2>3. \A s \in SUBSET (1 .. 0) : f[s] = Next1(f, s) BY <2>1
  <2> HIDE DEF f, Next1
  <2> QED BY <2>2, <2>3
<1>2. ASSUME NEW k \in Nat, k + 1 <= N, Good(k)
      PROVE  Good(k + 1)
  <2>1. PICK f \in [SUBSET (1 .. k) -> X] : \A s \in SUBSET (1 .. k) : f[s] = Next1(f, s)
    BY <1>2
  <2> DEFINE g == [s \in SUBSET (1 .. k + 1) |->
                     IF k + 1 \in s THEN step[<<f[s \ {k + 1}], k + 1>>] ELSE f[s]]
  <2>2. \A s \in SUBSET (1 .. k + 1) :
          IF k + 1 \in s THEN s \ {k + 1} \in SUBSET (1 .. k) ELSE s \in SUBSET (1 .. k)
    OBVIOUS
  <2>3. g \in [SUBSET (1 .. k + 1) -> X]
    <3>1. k + 1 \in 1 .. N BY <1>2
    <3>2. ASSUME NEW s \in SUBSET (1 .. k + 1), k + 1 \in s
          PROVE  step[<<f[s \ {k + 1}], k + 1>>] \in X
      <4>1. f[s \ {k + 1}] \in X BY <2>2, <3>2
      <4> QED BY <3>1, <4>1
    <3>3. ASSUME NEW s \in SUBSET (1 .. k + 1), k + 1 \notin s
          PROVE  f[s] \in X
      BY <2>2, <3>3
    <3> QED BY <3>2, <3>3
  <2>4. \A s \in SUBSET (1 .. k) : s \in SUBSET (1 .. k + 1) /\ g[s] = f[s] OBVIOUS
  <2>5. ASSUME NEW s \in SUBSET (1 .. k + 1) PROVE g[s] = Next1(g, s)
    <3>1. CASE k + 1 \in s
      <4>1. Max(s) = k + 1
        <5> HIDE DEF g
        <5> QED BY <3>1, GreatestOf
      <4>2. s \ {k + 1} \in SUBSET (1 .. k) BY <2>2, <3>1
      <4>3. g[s \ {k + 1}] = f[s \ {k + 1}] BY <2>4, <4>2
      <4>4. g[s] = step[<<f[s \ {k + 1}], k + 1>>] BY <3>1
      <4> HIDE DEF g
      <4> QED BY <3>1, <4>1, <4>3, <4>4
    <3>2. CASE k + 1 \notin s
      <4>1. s \in SUBSET (1 .. k) BY <2>2, <3>2
      <4>2. g[s] = Next1(f, s) BY <2>1, <2>4, <4>1
      <4>3. s \ {Max(s)} \in SUBSET (1 .. k) BY <4>1
      <4>4. g[s \ {Max(s)}] = f[s \ {Max(s)}] BY <2>4, <4>3
      <4> HIDE DEF g
      <4> QED BY <4>2, <4>4
    <3> QED BY <3>1, <3>2
  <2> HIDE DEF g, Next1
  <2> QED BY <2>3, <2>5
<1> DEFINE S == {k \in Nat : Good(k)}
<1> HIDE DEF Good
<1>3. 0 \in S /\ \A k \in 0 .. N - 1 : k \in S => k + 1 \in S BY <1>1, <1>2
<1>4. N \in S
  <2> HIDE DEF S
  <2>1. N \in 0 .. N OBVIOUS
  <2> QED BY <1>3, <2>1, UpTo
<1>5. Good(N) BY <1>4
<1> QED BY <1>5 DEF Good, IsFold

-----------------------------------------------------------------------------
(* Resizing in closed form                                                 *)

\* The new chain after each turn of the loop over the old one.
Turns(g, E, chain, j, c) ==
  /\ g \in [0 .. Len(chain) -> Seq(E)] /\ g[0] = <<>>
  /\ \A i \in 1 .. Len(chain) :
       g[i] = IF Index(chain[i].key, c) = j THEN <<chain[i]>> \o g[i - 1] ELSE g[i - 1]
  /\ Moved(chain, j, c) = g[Len(chain)]

LEMMA MovedTurns ==
  ASSUME NEW E, NEW chain \in Seq(E), NEW j, NEW c
  PROVE  \E g : Turns(g, E, chain, j, c)
<1> DEFINE N == Len(chain)
           Turn(new, i) == IF Index(chain[i].key, c) = j THEN <<chain[i]>> \o new ELSE new
           Fold(f) == [s \in SUBSET (1 .. N) |->
                         IF s = {} THEN <<>> ELSE Turn(f[s \ {Max(s)}], Max(s))]
           iter == CHOOSE f : f = Fold(f)
           g == [i \in 0 .. N |-> iter[1 .. i]]
           step == [x \in Seq(E) \X (1 .. N) |-> Turn(x[1], x[2])]
<1>1. N \in Nat /\ DOMAIN chain = 1 .. N /\ \A i \in 1 .. N : chain[i] \in E OBVIOUS
<1>2. ASSUME NEW x \in Seq(E), NEW i \in 1 .. N PROVE Turn(x, i) \in Seq(E)
  BY <1>1
<1> HIDE DEF Turn, N
<1>3. \E f : f = Fold(f)
  <2>1. step \in [Seq(E) \X (1 .. N) -> Seq(E)] BY <1>2
  <2>2. <<>> \in Seq(E) OBVIOUS
  <2>3a. PICK f : IsFold(f, Seq(E), <<>>, step, N)
    <3> HIDE DEF step
    <3> QED BY <1>1, <2>1, <2>2, FoldExists
  <2>3. /\ f \in [SUBSET (1 .. N) -> Seq(E)]
        /\ \A s \in SUBSET (1 .. N) :
             f[s] = IF s = {} THEN <<>> ELSE step[<<f[s \ {Max(s)}], Max(s)>>]
    BY <2>3a DEF IsFold
  <2>4. ASSUME NEW s \in SUBSET (1 .. N), s # {}
        PROVE  step[<<f[s \ {Max(s)}], Max(s)>>] = Turn(f[s \ {Max(s)}], Max(s))
    <3>1. Max(s) \in 1 .. N BY <1>1, <2>4, GreatestIs
    <3>2. f[s \ {Max(s)}] \in Seq(E) BY <2>3
    <3> QED BY <3>1, <3>2
  <2>5. f = Fold(f) BY <2>3, <2>4
  <2> QED BY <2>5
<1>4. iter = Fold(iter) BY <1>3
<1>5. Moved(chain, j, c) = iter[1 .. N]
  BY <1>1 DEF Moved, FoldLeft, MapThenFoldSet, Turn
<1> HIDE DEF iter
<1>6. g[0] = <<>>
  <2>1. 1 .. 0 = {} OBVIOUS
  <2> QED BY <1>1, <1>4, <2>1
<1>7. ASSUME NEW i \in 1 .. N PROVE g[i] = Turn(g[i - 1], i)
  <2>1. 1 .. i \in SUBSET (1 .. N) /\ 1 .. i # {}
    <3>1. i \in Nat /\ i <= N /\ i \in 1 .. i BY <1>1
    <3>2. \A x \in 1 .. i : x \in 1 .. N BY <1>1, <3>1
    <3> QED BY <3>1, <3>2
  <2>2. Max(1 .. i) = i
    <3>1. i - 1 \in Nat /\ (i - 1) + 1 = i /\ i \in 1 .. i BY <1>1
    <3> QED BY <3>1, GreatestOf
  <2>3. (1 .. i) \ {i} = 1 .. i - 1 BY <1>1
  <2>4. iter[1 .. i] = Turn(iter[1 .. i - 1], i) BY <1>4, <2>1, <2>2, <2>3
  <2> QED BY <1>1, <2>4
<1>8. Moved(chain, j, c) = g[N] BY <1>1, <1>5
<1> HIDE DEF g
<1>9. \A i \in 0 .. N : g[i] \in Seq(E)
  <2> DEFINE S == {i \in 0 .. N : g[i] \in Seq(E)}
  <2>0. 0 \in 0 .. N /\ <<>> \in Seq(E) BY <1>1
  <2>1. 0 \in S BY <1>6, <2>0
  <2>2. ASSUME NEW i \in 0 .. N - 1, i \in S PROVE i + 1 \in S
    <3>1. i + 1 \in 1 .. N /\ (i + 1) - 1 = i BY <1>1
    <3>2. g[i + 1] = Turn(g[i], i + 1) BY <1>7, <3>1
    <3> QED BY <1>2, <2>2, <3>1, <3>2
  <2> HIDE DEF S
  <2>3. \A i \in 0 .. N : i \in S BY <1>1, <2>1, <2>2, UpTo
  <2> QED BY <2>3 DEF S
<1>10. g \in [0 .. N -> Seq(E)] BY <1>9 DEF g
<1>11. Turns(g, E, chain, j, c) BY <1>6, <1>7, <1>8, <1>10 DEF Turns, N, Turn
<1> QED BY <1>11

LEMMA AtLeastOnce ==
  ASSUME NEW n \in Nat \ {0}, NEW a \in Nat \ {0}
  PROVE  n * a >= n
<1>1. n \in Nat /\ a - 1 \in Nat OBVIOUS
<1>2. n * (a - 1) >= 0 BY <1>1
<1>3. n * (a - 1) = n * a - n OBVIOUS
<1> QED BY <1>2, <1>3

LEMMA DivisionIs ==
  ASSUME NEW n \in Nat \ {0}, NEW h \in Nat
  PROVE  h \div n \in Nat /\ h % n \in 0 .. n - 1 /\ h = n * (h \div n) + (h % n)
<1>1. h % n \in 0 .. n - 1 OBVIOUS
<1>2. h \div n \in Nat OBVIOUS
<1>3. h = n * (h \div n) + (h % n) OBVIOUS
<1> QED BY <1>1, <1>2, <1>3

\* A remainder is what its quotient leaves.
LEMMA RemainderIs ==
  ASSUME NEW n \in Nat \ {0}, NEW q \in Nat, NEW r \in 0 .. n - 1
  PROVE  (n * q + r) % n = r
<1> DEFINE h == n * q + r
           p == h \div n
           t == h % n
<1>1. h \in Nat OBVIOUS
<1>2. p \in Nat /\ t \in 0 .. n - 1 /\ h = n * p + t
  <2> HIDE DEF h
  <2> QED BY <1>1, DivisionIs
<1>3. n * q + r = n * p + t BY <1>2
<1> HIDE DEF h, p, t
<1>4. ~(q > p)
  <2>1. SUFFICES ASSUME q > p PROVE FALSE OBVIOUS
  <2>2. q - p \in Nat \ {0} BY <1>2, <2>1
  <2>3. n * (q - p) >= n BY <2>2, AtLeastOnce
  <2>4. n * (q - p) = n * q - n * p BY <1>2
  <2> QED BY <1>2, <1>3, <2>3, <2>4
<1>5. ~(p > q)
  <2>1. SUFFICES ASSUME p > q PROVE FALSE OBVIOUS
  <2>2. p - q \in Nat \ {0} BY <1>2, <2>1
  <2>3. n * (p - q) >= n BY <2>2, AtLeastOnce
  <2>4. n * (p - q) = n * p - n * q BY <1>2
  <2> QED BY <1>2, <1>3, <2>3, <2>4
<1>6. p = q BY <1>2, <1>4, <1>5
<1>7. t = r BY <1>2, <1>3, <1>6
<1> QED BY <1>7 DEF h, t

\* A key that goes to bucket j of twice as many was in bucket j % n.
LEMMA ModTwice ==
  ASSUME NEW n \in Nat \ {0}, NEW h \in Nat
  PROVE  (h % (2 * n)) % n = h % n
<1> DEFINE q == h \div (2 * n)
           r == h % (2 * n)
           s == r \div n
           t == r % n
<1>1. 2 * n \in Nat \ {0} OBVIOUS
<1>2. q \in Nat /\ r \in 0 .. 2 * n - 1 /\ h = (2 * n) * q + r
  BY <1>1, DivisionIs
<1> HIDE DEF q, r
<1>3. s \in Nat /\ t \in 0 .. n - 1 /\ r = n * s + t
  <2>1. r \in Nat BY <1>2
  <2> QED BY <2>1, DivisionIs
<1> HIDE DEF s, t
<1>4. h = n * (2 * q + s) + t
  <2>1. n * (2 * q + s) = (2 * n) * q + n * s BY <1>2, <1>3
  <2> QED BY <1>2, <1>3, <2>1
<1>5. 2 * q + s \in Nat BY <1>2, <1>3
<1>6. h % n = t BY <1>3, <1>4, <1>5, RemainderIs
<1> QED BY <1>6 DEF r, t

\* No two entries of a chain have one key.
Once(m) == \A p, q \in 1 .. Len(m) : m[p].key = m[q].key => p = q

\* m has those of the first n entries of the chain that hash to j.
Those(m, chain, n, j, c) ==
  \A e : (\E p \in 1 .. Len(m) : m[p] = e) <=>
            (\E p \in 1 .. n : chain[p] = e /\ Index(e.key, c) = j)

\* A new chain has the entries of the old one that hash to it.
LEMMA MovedKeeps ==
  ASSUME NEW E, NEW chain \in Seq(E), NEW j, NEW c, Once(chain)
  PROVE  /\ Moved(chain, j, c) \in Seq(E)
         /\ Once(Moved(chain, j, c))
         /\ Those(Moved(chain, j, c), chain, Len(chain), j, c)
<1> DEFINE N == Len(chain)
<1>1. N \in Nat /\ \A i \in 1 .. N : chain[i] \in E OBVIOUS
<1>2a. PICK g : Turns(g, E, chain, j, c) BY MovedTurns
<1>2. /\ g \in [0 .. N -> Seq(E)] /\ g[0] = <<>>
      /\ \A i \in 1 .. N :
           g[i] = IF Index(chain[i].key, c) = j THEN <<chain[i]>> \o g[i - 1] ELSE g[i - 1]
      /\ Moved(chain, j, c) = g[N]
  BY <1>2a DEF Turns
<1> DEFINE S == {i \in 0 .. N : Once(g[i]) /\ Those(g[i], chain, i, j, c)}
<1>3. 0 \in S
  <2>1. Once(g[0]) /\ Those(g[0], chain, 0, j, c) BY <1>2 DEF Once, Those
  <2> QED BY <1>1, <2>1
<1>4. ASSUME NEW i \in 0 .. N - 1, i \in S PROVE i + 1 \in S
  <2>1. i + 1 \in 1 .. N /\ (i + 1) - 1 = i /\ i \in 0 .. N /\ i + 1 \in 0 .. N BY <1>1
  <2>2. Once(g[i]) /\ Those(g[i], chain, i, j, c) BY <1>4
  <2> DEFINE x == chain[i + 1]
             old == g[i]
             new == g[i + 1]
  <2>3. x \in E /\ old \in Seq(E) /\ new \in Seq(E) BY <1>1, <1>2, <2>1
  <2>4. new = IF Index(x.key, c) = j THEN <<x>> \o old ELSE old BY <1>2, <2>1
  <2>5. \A p \in 1 .. i : chain[p].key # x.key
    BY <1>1, <2>1 DEF Once
  <2>6. CASE Index(x.key, c) = j
    <3>1. /\ Len(new) = Len(old) + 1 /\ new[1] = x /\ Len(old) \in Nat
          /\ \A p \in 1 .. Len(old) : new[p + 1] = old[p]
          /\ \A p \in 2 .. Len(new) : new[p] = old[p - 1] /\ p - 1 \in 1 .. Len(old)
      BY <2>3, <2>4, <2>6
    <3>2. ASSUME NEW p \in 1 .. Len(old) PROVE old[p].key # x.key
      <4>1. PICK q \in 1 .. i : chain[q] = old[p] BY <2>2 DEF Those
      <4> QED BY <2>5, <4>1
    <3> HIDE DEF x, old, new
    <3>3. Once(new)
      <4> SUFFICES ASSUME NEW p \in 1 .. Len(new), NEW q \in 1 .. Len(new), new[p].key = new[q].key
                   PROVE  p = q
        BY DEF Once
      <4>1. (p = 1 \/ p \in 2 .. Len(new)) /\ (q = 1 \/ q \in 2 .. Len(new)) BY <3>1
      <4>2. CASE p = 1 /\ q = 1 BY <4>2
      <4>3. CASE p = 1 /\ q \in 2 .. Len(new) BY <3>1, <3>2, <4>3
      <4>4. CASE q = 1 /\ p \in 2 .. Len(new) BY <3>1, <3>2, <4>4
      <4>5. CASE p \in 2 .. Len(new) /\ q \in 2 .. Len(new)
        <5>1. /\ new[p] = old[p - 1] /\ p - 1 \in 1 .. Len(old)
              /\ new[q] = old[q - 1] /\ q - 1 \in 1 .. Len(old)
          BY <3>1, <4>5
        <5>2. old[p - 1].key = old[q - 1].key => p - 1 = q - 1 BY <2>2, <5>1 DEF old, Once
        <5> QED BY <5>1, <5>2
      <4> QED BY <4>1, <4>2, <4>3, <4>4, <4>5
    <3>4. Those(new, chain, i + 1, j, c)
      <4> SUFFICES ASSUME NEW e
                   PROVE  (\E p \in 1 .. Len(new) : new[p] = e) <=>
                          (\E p \in 1 .. i + 1 : chain[p] = e /\ Index(e.key, c) = j)
        BY DEF Those
      <4>1. (\E p \in 1 .. Len(new) : new[p] = e) <=>
              (e = x \/ \E p \in 1 .. Len(old) : old[p] = e)
        <5>1. ASSUME NEW p \in 1 .. Len(new), new[p] = e
              PROVE  e = x \/ \E q \in 1 .. Len(old) : old[q] = e
          <6>1. p = 1 \/ p \in 2 .. Len(new) BY <3>1
          <6> QED BY <3>1, <5>1, <6>1
        <5>2. ASSUME NEW p \in 1 .. Len(old), old[p] = e
              PROVE  \E q \in 1 .. Len(new) : new[q] = e
          <6>1. p + 1 \in 1 .. Len(new) BY <3>1
          <6> QED BY <3>1, <5>2, <6>1
        <5>3. 1 \in 1 .. Len(new) BY <3>1
        <5> QED BY <3>1, <5>1, <5>2, <5>3
      <4>2. (\E p \in 1 .. i + 1 : chain[p] = e /\ Index(e.key, c) = j) <=>
              (e = x \/ \E p \in 1 .. i : chain[p] = e /\ Index(e.key, c) = j)
        <5>1. \A p : p \in 1 .. i + 1 <=> p \in 1 .. i \/ p = i + 1 BY <2>1
        <5> QED BY <2>6, <5>1 DEF x
      <4> QED BY <2>2, <4>1, <4>2 DEF old, Those
    <3> QED BY <2>1, <3>3, <3>4 DEF new
  <2>7. CASE Index(x.key, c) # j
    <3>1. \A p : p \in 1 .. i + 1 <=> p \in 1 .. i \/ p = i + 1 BY <2>1
    <3>2. new = old BY <2>4, <2>7
    <3>3. Once(new) BY <2>2, <3>2
    <3>4. Those(new, chain, i + 1, j, c)
      <4> SUFFICES ASSUME NEW e
                   PROVE  (\E p \in 1 .. Len(new) : new[p] = e) <=>
                          (\E p \in 1 .. i + 1 : chain[p] = e /\ Index(e.key, c) = j)
        BY DEF Those
      <4>1. (\E p \in 1 .. i + 1 : chain[p] = e /\ Index(e.key, c) = j) <=>
              (\E p \in 1 .. i : chain[p] = e /\ Index(e.key, c) = j)
        BY <2>7, <3>1
      <4> QED BY <2>2, <3>2, <4>1 DEF Those
    <3> QED BY <2>1, <3>3, <3>4
  <2> QED BY <2>6, <2>7
<1> HIDE DEF S
<1>5. N \in S
  <2>1. N \in 0 .. N BY <1>1
  <2> QED BY <1>1, <1>3, <1>4, <2>1, UpTo
<1>6. Once(g[N]) /\ Those(g[N], chain, N, j, c) /\ g[N] \in Seq(E)
  <2>1. N \in 0 .. N BY <1>1
  <2> QED BY <1>2, <1>5, <2>1 DEF S
<1> QED BY <1>2, <1>6

\* hashmap_resize keeps every entry, and every one where lookups search.
LEMMA ResizedKeeps ==
  ASSUME NEW K, NEW V, HashOf \in [K -> Nat],
         NEW n \in Nat \ {0}, NEW b \in MapsOver(n, K, V), Placed(b, n)
  PROVE  /\ Resized(b) \in MapsOver(2 * n, K, V) /\ Placed(Resized(b), 2 * n)
         /\ EntriesOf(Resized(b)) = EntriesOf(b)
<1> DEFINE E == EntriesIn(K, V)
           c == Resized(b)
<1>1. 2 * n \in Nat \ {0} /\ n \in Nat \ {0} OBVIOUS
<1>2. c = [j \in 0 .. 2 * n - 1 |-> Moved(b[j % n], j, 2 * n)]
  <2>1. CapacityOf(b) = n BY CapacityIs
  <2> QED BY <2>1 DEF Resized
<1>3. ASSUME NEW j \in 0 .. 2 * n - 1
      PROVE  /\ j % n \in 0 .. n - 1 /\ c[j] \in Seq(E) /\ Once(c[j])
             /\ Those(c[j], b[j % n], Len(b[j % n]), j, 2 * n)
  <2>1. j % n \in 0 .. n - 1 BY DivisionIs
  <2>2. b[j % n] \in Seq(E) BY <2>1 DEF MapsOver
  <2>3. Once(b[j % n]) BY <2>1 DEF Placed, Once
  <2>4. c[j] = Moved(b[j % n], j, 2 * n) BY <1>2
  <2> HIDE DEF E, c
  <2> QED BY <2>1, <2>2, <2>3, <2>4, MovedKeeps
<1>4. c \in MapsOver(2 * n, K, V)
  <2>1. \A j \in 0 .. 2 * n - 1 : c[j] \in Seq(E) BY <1>3
  <2> QED BY <1>2, <2>1 DEF MapsOver
<1> HIDE DEF c
<1>5. Placed(c, 2 * n)
  <2> SUFFICES ASSUME NEW j \in 0 .. 2 * n - 1, NEW p \in 1 .. Len(c[j]), NEW q \in 1 .. Len(c[j])
               PROVE  /\ Index(c[j][p].key, 2 * n) = j
                      /\ c[j][p].key = c[j][q].key => p = q
    BY DEF Placed
  <2>1. Index(c[j][p].key, 2 * n) = j BY <1>3 DEF Those
  <2>2. c[j][p].key = c[j][q].key => p = q BY <1>3 DEF Once
  <2> QED BY <2>1, <2>2
<1>6. ASSUME NEW e PROVE e \in EntriesOf(c) <=> e \in EntriesOf(b)
  <2>1. e \in EntriesOf(c) <=> \E j \in 0 .. 2 * n - 1 : \E p \in 1 .. Len(c[j]) : c[j][p] = e
    BY <1>1, <1>4, EntryAt
  <2>2. e \in EntriesOf(b) <=> \E i \in 0 .. n - 1 : \E p \in 1 .. Len(b[i]) : b[i][p] = e
    BY EntryAt
  <2>3. ASSUME e \in EntriesOf(c) PROVE e \in EntriesOf(b)
    <3>1. PICK j \in 0 .. 2 * n - 1 : \E p \in 1 .. Len(c[j]) : c[j][p] = e BY <2>1, <2>3
    <3>2. Those(c[j], b[j % n], Len(b[j % n]), j, 2 * n) /\ j % n \in 0 .. n - 1 BY <1>3
    <3>3. PICK p \in 1 .. Len(b[j % n]) : b[j % n][p] = e BY <3>1, <3>2 DEF Those
    <3> QED BY <2>2, <3>2, <3>3
  <2>4. ASSUME e \in EntriesOf(b) PROVE e \in EntriesOf(c)
    <3>1. PICK i \in 0 .. n - 1 : \E p \in 1 .. Len(b[i]) : b[i][p] = e BY <2>2, <2>4
    <3> DEFINE j == Index(e.key, 2 * n)
    <3>2. e.key \in K
      <4>1. e \in E BY <2>4, EntryAt
      <4> QED BY <4>1 DEF EntriesIn
    <3>3. j \in 0 .. 2 * n - 1 BY <1>1, <3>2, IndexIn
    <3>4. j % n = i
      <4>1. Index(e.key, n) = i BY <3>1 DEF Placed
      <4>2. HashOf[e.key] \in Nat BY <3>2
      <4> QED BY <4>1, <4>2, ModTwice DEF Index
    <3>5. \E p \in 1 .. Len(c[j]) : c[j][p] = e
      <4>1. Index(e.key, 2 * n) = j OBVIOUS
      <4> HIDE DEF j
      <4>2. Those(c[j], b[j % n], Len(b[j % n]), j, 2 * n) BY <1>3, <3>3
      <4>3. Those(c[j], b[i], Len(b[i]), j, 2 * n) BY <3>4, <4>2
      <4> QED BY <3>1, <4>1, <4>3 DEF Those
    <3> QED BY <2>1, <3>3, <3>5
  <2> QED BY <2>3, <2>4
<1> QED BY <1>4, <1>5, <1>6 DEF c

-----------------------------------------------------------------------------
(* Iterating in closed form                                                *)

\* What the iterator returns of one chain.
LEMMA VisitsOfIs ==
  ASSUME NEW E, NEW chain \in Seq(E), NEW i \in Nat
  PROVE  /\ VisitsOf(i, chain) \in Seq(E)
         /\ Len(VisitsOf(i, chain)) <= Len(chain)
         /\ \A p \in 1 .. Len(VisitsOf(i, chain)) :
              \E q \in 1 .. Len(chain) : VisitsOf(i, chain)[p] = chain[q]
         /\ (Len(chain) <= 1 /\ (i = 0 => chain = <<>>)) => VisitsOf(i, chain) = chain
<1>1. CASE chain = <<>> BY <1>1 DEF VisitsOf
<1>2. CASE chain # <<>>
  <2> DEFINE front == Front(chain)
             first == IF i = 0 THEN <<>> ELSE <<Head(chain)>>
             v == VisitsOf(i, chain)
  <2>1. Len(chain) \in Nat \ {0} /\ Head(chain) = chain[1] /\ chain[1] \in E BY <1>2
  <2>2. /\ front \in Seq(E) /\ Len(front) = Len(chain) - 1
        /\ \A p \in 1 .. Len(front) : front[p] = chain[p]
    <3>1. ASSUME NEW m \in 1 .. Len(chain)
          PROVE  /\ SubSeq(chain, 1, m - 1) \in Seq(E) /\ Len(SubSeq(chain, 1, m - 1)) = m - 1
                 /\ \A p \in 1 .. m - 1 : SubSeq(chain, 1, m - 1)[p] = chain[p]
      OBVIOUS
    <3>2. Len(chain) \in 1 .. Len(chain) BY <2>1
    <3> QED BY <3>1, <3>2 DEF Front
  <2>3. v = first \o front BY <1>2 DEF VisitsOf
  <2>4. CASE i = 0
    <3>1. v = front BY <2>2, <2>3, <2>4
    <3> HIDE DEF v, front
    <3> QED BY <1>2, <2>1, <2>2, <2>4, <3>1 DEF v
  <2>5. CASE i # 0
    <3>1. v = <<chain[1]>> \o front BY <2>1, <2>3, <2>5
    <3> HIDE DEF v, front
    <3>2. /\ v \in Seq(E) /\ Len(v) = Len(chain) /\ v[1] = chain[1]
      BY <2>1, <2>2, <3>1
    <3>3. ASSUME NEW p \in 1 .. Len(v) PROVE \E q \in 1 .. Len(chain) : v[p] = chain[q]
      <4>1. CASE p = 1 BY <2>1, <3>2, <4>1
      <4>2. CASE p # 1
        <5>1. p - 1 \in 1 .. Len(front) /\ p - 1 \in 1 .. Len(chain) BY <2>1, <2>2, <3>2, <4>2
        <5>2. v[p] = front[p - 1] BY <2>1, <2>2, <3>1, <4>2, <5>1
        <5> QED BY <2>2, <5>1, <5>2
      <4> QED BY <4>1, <4>2
    <3>4. ASSUME Len(chain) <= 1 PROVE v = chain
      <4>1. \A m \in Nat \ {0} : m <= 1 => m = 1 OBVIOUS
      <4>2. Len(chain) = 1 BY <2>1, <3>4, <4>1
      <4> QED BY <3>2, <4>2
    <3> QED BY <2>1, <2>5, <3>2, <3>3, <3>4 DEF v
  <2> QED BY <2>4, <2>5
<1> QED BY <1>1, <1>2

\* What the iterator has returned before each bucket.
VisitTurns(g, b, n) ==
  /\ g[0] = <<>>
  /\ \A i \in 1 .. n : g[i] = g[i - 1] \o VisitsOf(i - 1, b[i - 1])
  /\ Visits(b) = g[n]

LEMMA VisitTurnsExist ==
  ASSUME NEW K, NEW V, NEW n \in Nat \ {0}, NEW b \in MapsOver(n, K, V)
  PROVE  \E g : VisitTurns(g, b, n)
<1> DEFINE E == EntriesIn(K, V)
           seqs == [i \in 1 .. n |-> VisitsOf(i - 1, b[i - 1])]
           Flatten(f) == [i \in 1 .. n |-> IF i = 1 THEN seqs[i] ELSE f[i - 1] \o seqs[i]]
           all == CHOOSE f : f = Flatten(f)
           g == [i \in 0 .. n |-> IF i = 0 THEN <<>> ELSE all[i]]
           step == [x \in Seq(E) \X (1 .. n) |-> x[1] \o seqs[x[2]]]
<1>1. \A i \in 1 .. n : seqs[i] \in Seq(E)
  <2> SUFFICES ASSUME NEW i \in 1 .. n PROVE seqs[i] \in Seq(E) OBVIOUS
  <2>1. b[i - 1] \in Seq(E) /\ i - 1 \in Nat BY DEF MapsOver
  <2>2. VisitsOf(i - 1, b[i - 1]) \in Seq(E)
    <3> HIDE DEF E
    <3> QED BY <2>1, VisitsOfIs
  <2> QED BY <2>2
<1>2. seqs = [i \in 1 .. n |-> VisitsOf(i - 1, b[i - 1])] /\ Len(seqs) = n OBVIOUS
<1> HIDE DEF seqs, E
<1>3. \E f : f = Flatten(f)
  <2>1. step \in [Seq(E) \X (1 .. n) -> Seq(E)]
    <3>1. ASSUME NEW x \in Seq(E), NEW i \in 1 .. n PROVE x \o seqs[i] \in Seq(E)
      BY <1>1
    <3> QED BY <3>1
  <2>2. <<>> \in Seq(E) OBVIOUS
  <2>3. PICK f : IsFold(f, Seq(E), <<>>, step, n)
    <3> HIDE DEF step
    <3> QED BY <2>1, <2>2, FoldExists
  <2> DEFINE h == [i \in 1 .. n |-> f[1 .. i]]
  <2>4. ASSUME NEW i \in 1 .. n PROVE h[i] = f[1 .. i - 1] \o seqs[i]
    <3>1. 1 .. i \in SUBSET (1 .. n) /\ 1 .. i # {} /\ 1 .. i - 1 \in SUBSET (1 .. n) OBVIOUS
    <3>2. Max(1 .. i) = i
      <4>1. i - 1 \in Nat /\ (i - 1) + 1 = i /\ i \in 1 .. i OBVIOUS
      <4> QED BY <4>1, GreatestOf
    <3>3. (1 .. i) \ {i} = 1 .. i - 1 OBVIOUS
    <3>4. f[1 .. i - 1] \in Seq(E) BY <2>3, <3>1 DEF IsFold
    <3>5. f[1 .. i] = step[<<f[1 .. i - 1], i>>] BY <2>3, <3>1, <3>2, <3>3 DEF IsFold
    <3> QED BY <3>4, <3>5
  <2>5. ASSUME NEW i \in 1 .. n PROVE h[i] = IF i = 1 THEN seqs[i] ELSE h[i - 1] \o seqs[i]
    <3>1. CASE i = 1
      <4>1. 1 .. i - 1 = {} BY <3>1
      <4>2. {} \in SUBSET (1 .. n) OBVIOUS
      <4>3. f[1 .. i - 1] = <<>> BY <2>3, <4>1, <4>2 DEF IsFold
      <4>4. <<>> \o seqs[i] = seqs[i] BY <1>1
      <4> QED BY <2>4, <3>1, <4>3, <4>4
    <3>2. CASE i # 1
      <4>1. i - 1 \in 1 .. n BY <3>2
      <4> QED BY <2>4, <3>2, <4>1
    <3> QED BY <3>1, <3>2
  <2>6. h = Flatten(h)
    <3>1. h = [i \in 1 .. n |-> h[i]] OBVIOUS
    <3> HIDE DEF h
    <3> QED BY <2>5, <3>1
  <2> QED BY <2>6
<1>4. all = Flatten(all) BY <1>3
<1>5. Visits(b) = all[n]
  <2>1. CapacityOf(b) = n BY CapacityIs
  <2>2. Visits(b) = FlattenSeq(seqs) BY <1>2, <2>1 DEF Visits
  <2>3. FlattenSeq(seqs) = all[n] BY <1>2 DEF FlattenSeq
  <2> QED BY <2>2, <2>3
<1> HIDE DEF all
<1>6. g[0] = <<>> /\ \A i \in 1 .. n : g[i] = all[i] OBVIOUS
<1> HIDE DEF g
<1>7. ASSUME NEW i \in 1 .. n PROVE g[i] = g[i - 1] \o VisitsOf(i - 1, b[i - 1])
  <2>1. all[i] = IF i = 1 THEN seqs[i] ELSE all[i - 1] \o seqs[i] BY <1>4
  <2>2. g[i] = g[i - 1] \o seqs[i]
    <3>1. CASE i = 1
      <4>1. <<>> \o seqs[i] = seqs[i] BY <1>1
      <4>2. g[i] = seqs[i] BY <1>6, <2>1, <3>1
      <4>3. g[i - 1] = <<>> BY <1>6, <3>1
      <4> QED BY <4>1, <4>2, <4>3
    <3>2. CASE i # 1
      <4>1. i - 1 \in 1 .. n BY <3>2
      <4> QED BY <1>6, <2>1, <3>2, <4>1
    <3> QED BY <3>1, <3>2
  <2> QED BY <1>2, <2>2
<1>8. Visits(b) = g[n] BY <1>5, <1>6
<1>9. VisitTurns(g, b, n) BY <1>6, <1>7, <1>8 DEF VisitTurns
<1> QED BY <1>9

\* A chain in which no two entries have one key has as many as places.
LEMMA ChainCounts ==
  ASSUME NEW E, NEW chain \in Seq(E), Once(chain)
  PROVE  IsFiniteSet(ToSet(chain)) /\ Cardinality(ToSet(chain)) = Len(chain)
<1> DEFINE N == Len(chain)
           S == ToSet(chain)
<1>1. N \in Nat /\ DOMAIN chain = 1 .. N OBVIOUS
<1>2. S = {chain[p] : p \in 1 .. N} BY <1>1 DEF ToSet
<1>3. \A p, q \in 1 .. N : chain[p] = chain[q] => p = q BY DEF Once
<1>4. IsFiniteSet(1 .. N) /\ Cardinality(1 .. N) = N BY <1>1, FS_Interval
<1> DEFINE f == [p \in 1 .. N |-> chain[p]]
<1>5. f \in Bijection(1 .. N, S)
  BY <1>2, <1>3 DEF Bijection, Injection, Surjection, IsInjective
<1>6. ExistsBijection(1 .. N, S) BY <1>5 DEF ExistsBijection
<1> HIDE DEF S, N
<1>7. IsFiniteSet(S) /\ Cardinality(S) = N BY <1>4, <1>6, FS_Bijection
<1> QED BY <1>7 DEF S, N

\* The entries of the first i buckets.
Before(b, i) == UNION {ToSet(b[j]) : j \in 0 .. i - 1}

\* v returns only these, not more of them than there are, and for a flat map
\* each of them once.
Returns(v, S, flat) ==
  /\ IsFiniteSet(S) /\ Len(v) <= Cardinality(S)
  /\ \A p \in 1 .. Len(v) : v[p] \in S
  /\ flat => /\ Len(v) = Cardinality(S) /\ Once(v)
             /\ \A e \in S : \E p \in 1 .. Len(v) : v[p] = e

\* The chain has none of the keys in S.
Apart(S, chain) == \A e \in S : \A p \in 1 .. Len(chain) : e.key # chain[p].key
\* A chain of a flat map.
FlatAt(chain, i) == Len(chain) <= 1 /\ (i = 0 => chain = <<>>)

\* The visits of one more bucket.
LEMMA ReturnsMore ==
  ASSUME NEW E, NEW v \in Seq(E), NEW S \in SUBSET E, NEW chain \in Seq(E), NEW i \in Nat,
         NEW flat, Returns(v, S, flat), Once(chain), Apart(S, chain), flat => FlatAt(chain, i)
  PROVE  Returns(v \o VisitsOf(i, chain), S \cup ToSet(chain), flat)
<1> DEFINE w == VisitsOf(i, chain)
           T == ToSet(chain)
           x == v \o w
<1>1. /\ w \in Seq(E) /\ Len(w) <= Len(chain)
      /\ \A p \in 1 .. Len(w) : \E q \in 1 .. Len(chain) : w[p] = chain[q]
      /\ flat => w = chain
  BY VisitsOfIs DEF FlatAt
<1>2. DOMAIN chain = 1 .. Len(chain) OBVIOUS
<1>3. \A e : e \in T <=> \E q \in 1 .. Len(chain) : chain[q] = e BY <1>2 DEF ToSet
<1>4. IsFiniteSet(T) /\ Cardinality(T) = Len(chain) BY ChainCounts
<1> HIDE DEF w, T
<1>5. S \cap T = {} BY <1>3 DEF Apart
<1>6. IsFiniteSet(S \cup T) /\ Cardinality(S \cup T) = Cardinality(S) + Cardinality(T)
  <2>1. IsFiniteSet(S) BY DEF Returns
  <2>2. /\ IsFiniteSet(S \cup T)
        /\ Cardinality(S \cup T) = Cardinality(S) + Cardinality(T) - Cardinality(S \cap T)
    BY <1>4, <2>1, FS_Union
  <2>3. Cardinality(S \cap T) = 0 BY <1>5, FS_EmptySet
  <2>4. Cardinality(S) \in Nat /\ Cardinality(T) \in Nat BY <1>4, <2>1, FS_CardinalityType
  <2> QED BY <2>2, <2>3, <2>4
<1>7. Cardinality(S) \in Nat /\ Cardinality(T) \in Nat
  <2>1. IsFiniteSet(S) BY DEF Returns
  <2> QED BY <1>4, <2>1, FS_CardinalityType
<1>8. /\ Len(v) \in Nat /\ Len(w) \in Nat /\ Len(x) = Len(v) + Len(w)
      /\ \A p \in 1 .. Len(v) : x[p] = v[p]
      /\ \A p \in 1 .. Len(w) : x[Len(v) + p] = w[p]
  BY <1>1
<1> HIDE DEF x
<1>9. ASSUME NEW p \in 1 .. Len(x)
      PROVE  p \in 1 .. Len(v) \/ \E q \in 1 .. Len(w) : p = Len(v) + q
  <2>1. CASE p <= Len(v) BY <1>8, <2>1
  <2>2. CASE ~(p <= Len(v))
    <3>1. p - Len(v) \in 1 .. Len(w) /\ p = Len(v) + (p - Len(v)) BY <1>8, <2>2
    <3> QED BY <3>1
  <2> QED BY <2>1, <2>2
<1>10. Len(x) <= Cardinality(S \cup T)
  <2>1. Len(v) <= Cardinality(S) BY DEF Returns
  <2> QED BY <1>1, <1>4, <1>6, <1>7, <1>8, <2>1
<1>11. \A p \in 1 .. Len(w) : w[p] \in T BY <1>1, <1>3
<1>12. \A p \in 1 .. Len(v) : v[p] \in S BY DEF Returns
<1>13. \A p \in 1 .. Len(x) : x[p] \in S \cup T BY <1>8, <1>9, <1>11, <1>12
<1>14. ASSUME flat
       PROVE  /\ Len(x) = Cardinality(S \cup T) /\ Once(x)
              /\ \A e \in S \cup T : \E p \in 1 .. Len(x) : x[p] = e
  <2>1. /\ Len(v) = Cardinality(S) /\ Once(v)
        /\ \A e \in S : \E p \in 1 .. Len(v) : v[p] = e
    BY <1>14 DEF Returns
  <2>2. w = chain BY <1>1, <1>14
  <2>3. Len(x) = Cardinality(S \cup T) BY <1>4, <1>6, <1>7, <1>8, <2>1, <2>2
  <2>4. Once(w) BY <2>2
  <2>5. \A p \in 1 .. Len(v), q \in 1 .. Len(w) : v[p].key # w[q].key BY <1>12, <2>2 DEF Apart
  <2>6. ASSUME NEW p \in 1 .. Len(x), NEW q \in 1 .. Len(x), x[p].key = x[q].key
        PROVE  p = q
    <3>1. CASE p \in 1 .. Len(v) /\ q \in 1 .. Len(v) BY <1>8, <2>1, <2>6, <3>1 DEF Once
    <3>2. ASSUME p \in 1 .. Len(v), NEW r \in 1 .. Len(w), q = Len(v) + r PROVE FALSE
      BY <1>8, <2>5, <2>6, <3>2
    <3>3. ASSUME q \in 1 .. Len(v), NEW r \in 1 .. Len(w), p = Len(v) + r PROVE FALSE
      BY <1>8, <2>5, <2>6, <3>3
    <3>4. ASSUME NEW r \in 1 .. Len(w), p = Len(v) + r, NEW t \in 1 .. Len(w), q = Len(v) + t
          PROVE  p = q
      <4>1. w[r].key = w[t].key BY <1>8, <2>6, <3>4
      <4> QED BY <2>4, <3>4, <4>1 DEF Once
    <3> QED BY <1>9, <3>1, <3>2, <3>3, <3>4
  <2>7. ASSUME NEW e \in S \cup T PROVE \E p \in 1 .. Len(x) : x[p] = e
    <3>1. CASE e \in S
      <4>1. PICK p \in 1 .. Len(v) : v[p] = e BY <2>1, <3>1
      <4>2. p \in 1 .. Len(x) BY <1>8
      <4> QED BY <1>8, <4>1, <4>2
    <3>2. CASE e \in T
      <4>1. PICK p \in 1 .. Len(w) : w[p] = e BY <1>3, <2>2, <3>2
      <4>2. Len(v) + p \in 1 .. Len(x) BY <1>8
      <4> QED BY <1>8, <4>1, <4>2
    <3> QED BY <3>1, <3>2
  <2> QED BY <2>3, <2>6, <2>7 DEF Once
<1>15. Returns(x, S \cup T, flat) BY <1>6, <1>10, <1>13, <1>14 DEF Returns
<1> QED BY <1>15 DEF x, w, T

\* A loop over the map returns none but its entries, no more often than there
\* are entries, and each exactly once when the map is flat.
LEMMA VisitsReturn ==
  ASSUME NEW K, NEW V, NEW n \in Nat \ {0}, NEW b \in MapsOver(n, K, V), Placed(b, n)
  PROVE  Visits(b) \in Seq(EntriesIn(K, V)) /\ Returns(Visits(b), EntriesOf(b), Flat(b))
<1> DEFINE E == EntriesIn(K, V)
<1>1. PICK g : VisitTurns(g, b, n) BY VisitTurnsExist
<1> DEFINE S == {i \in 0 .. n : g[i] \in Seq(E) /\ Returns(g[i], Before(b, i), Flat(b))}
<1>2. DOMAIN b = 0 .. n - 1 /\ \A i \in 0 .. n - 1 : b[i] \in Seq(E) BY DEF MapsOver
<1>3. 0 \in S
  <2>1. g[0] = <<>> BY <1>1 DEF VisitTurns
  <2>2. Before(b, 0) = {}
    <3>1. 0 .. 0 - 1 = {} OBVIOUS
    <3> QED BY <3>1 DEF Before
  <2>3. IsFiniteSet({}) /\ Cardinality({}) = 0 BY FS_EmptySet
  <2>4. Returns(<<>>, {}, Flat(b)) BY <2>3 DEF Returns, Once
  <2>5. <<>> \in Seq(E) /\ 0 \in 0 .. n OBVIOUS
  <2> QED BY <2>1, <2>2, <2>4, <2>5
<1>4. ASSUME NEW i \in 0 .. n - 1, i \in S PROVE i + 1 \in S
  <2>1. g[i + 1] = g[i] \o VisitsOf(i, b[i])
    <3>1. i + 1 \in 1 .. n /\ (i + 1) - 1 = i OBVIOUS
    <3> QED BY <1>1, <3>1 DEF VisitTurns
  <2>2. Before(b, i + 1) = Before(b, i) \cup ToSet(b[i])
    <3>1. 0 .. (i + 1) - 1 = (0 .. i - 1) \cup {i} OBVIOUS
    <3> QED BY <3>1 DEF Before
  <2>3. \A e : e \in Before(b, i) => \E j \in 0 .. i - 1 : \E p \in 1 .. Len(b[j]) : b[j][p] = e
    <3> SUFFICES ASSUME NEW e, e \in Before(b, i)
                 PROVE  \E j \in 0 .. i - 1 : \E p \in 1 .. Len(b[j]) : b[j][p] = e
      OBVIOUS
    <3>1. PICK j \in 0 .. i - 1 : e \in ToSet(b[j]) BY DEF Before
    <3>2. DOMAIN b[j] = 1 .. Len(b[j])
      <4>1. b[j] \in Seq(E) BY <1>2
      <4> QED BY <4>1
    <3> QED BY <3>1, <3>2 DEF ToSet
  <2>4. Before(b, i) \in SUBSET E
    <3> SUFFICES ASSUME NEW e \in Before(b, i) PROVE e \in E OBVIOUS
    <3>1. PICK j \in 0 .. i - 1 : \E p \in 1 .. Len(b[j]) : b[j][p] = e BY <2>3
    <3>2. b[j] \in Seq(E) BY <1>2
    <3> HIDE DEF E
    <3> QED BY <3>1, <3>2
  <2>5. ASSUME NEW e \in Before(b, i), NEW p \in 1 .. Len(b[i]) PROVE e.key # b[i][p].key
    <3>1. PICK j \in 0 .. i - 1 : \E q \in 1 .. Len(b[j]) : b[j][q] = e BY <2>3
    <3>2. PICK q \in 1 .. Len(b[j]) : b[j][q] = e BY <3>1
    <3>3. j \in 0 .. n - 1 /\ j # i OBVIOUS
    <3>4. Index(e.key, n) = j BY <3>2, <3>3 DEF Placed
    <3>5. Index(b[i][p].key, n) = i BY DEF Placed
    <3> QED BY <3>3, <3>4, <3>5
  <2>5a. Apart(Before(b, i), b[i]) BY <2>5 DEF Apart
  <2>6. Flat(b) => FlatAt(b[i], i) BY <1>2 DEF Flat, FlatAt
  <2>7. b[i] \in Seq(E) /\ Once(b[i]) /\ i \in Nat BY <1>2 DEF Placed, Once
  <2>8. g[i] \in Seq(E) /\ Returns(g[i], Before(b, i), Flat(b)) BY <1>4
  <2> HIDE DEF E, S
  <2>9. Returns(g[i + 1], Before(b, i + 1), Flat(b))
    <3> DEFINE v == g[i]
               B == Before(b, i)
               chain == b[i]
               flat == Flat(b)
    <3>1. /\ v \in Seq(E) /\ B \in SUBSET E /\ chain \in Seq(E) /\ i \in Nat
          /\ Returns(v, B, flat) /\ Once(chain) /\ Apart(B, chain)
          /\ flat => FlatAt(chain, i)
      BY <2>4, <2>5a, <2>6, <2>7, <2>8
    <3> HIDE DEF v, B, chain, flat
    <3>2. Returns(v \o VisitsOf(i, chain), B \cup ToSet(chain), flat) BY <3>1, ReturnsMore
    <3> QED BY <2>1, <2>2, <3>2 DEF v, B, chain, flat
  <2>10. g[i + 1] \in Seq(E)
    <3>1. VisitsOf(i, b[i]) \in Seq(E) BY <2>7, VisitsOfIs
    <3> QED BY <2>1, <2>8, <3>1
  <2> QED BY <2>9, <2>10 DEF S
<1> HIDE DEF S
<1>5. n \in S
  <2>1. n \in 0 .. n /\ n \in Nat OBVIOUS
  <2> QED BY <1>3, <1>4, <2>1, UpTo
<1>6. g[n] \in Seq(E) /\ Returns(g[n], Before(b, n), Flat(b)) BY <1>5 DEF S
<1>7. Before(b, n) = EntriesOf(b) BY <1>2 DEF Before, EntriesOf
<1> QED BY <1>1, <1>6, <1>7 DEF VisitTurns
=============================================================================
