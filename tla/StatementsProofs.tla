-------------------------- MODULE StatementsProofs --------------------------
(***************************************************************************)
(* What is proved of Statements for all tables, columns, values and sizes: *)
(* rows that fit their slot are read back as they were inserted, SELECT    *)
(* prints and DELETE removes what their condition says, behaviour is       *)
(* undefined only where FaultsExplained says, and names mean their column. *)
(***************************************************************************)
EXTENDS Statements, FiniteSetTheorems, TLAPS

(* The lemmas on numbers and folds do not depend on the hash function.     *)
LOCAL Turns == INSTANCE ChainsProofs WITH HashOf <- <<>>

-----------------------------------------------------------------------------
(* Numbers                                                                 *)

LEMMA ProductGrows ==
  ASSUME NEW a \in Nat, NEW b \in Nat, NEW s \in Nat, a <= b
  PROVE  a * s \in Nat /\ b * s \in Nat /\ a * s <= b * s
<1>1. b - a \in Nat OBVIOUS
<1>2. (b - a) * s >= 0 BY <1>1
<1>3. (b - a) * s = b * s - a * s OBVIOUS
<1>4. a * s \in Nat /\ b * s \in Nat OBVIOUS
<1> QED BY <1>2, <1>3, <1>4

(* A quotient is the number of whole parts.                                *)
LEMMA QuotientIs ==
  ASSUME NEW n \in Nat \ {0}, NEW h \in Nat
  PROVE  /\ h \div n \in Nat /\ h % n \in 0 .. n - 1
         /\ h = (h \div n) * n + (h % n)
<1>1. h \div n \in Nat /\ h % n \in 0 .. n - 1 /\ h = n * (h \div n) + (h % n)
  BY Turns!DivisionIs
<1>2. n * (h \div n) = (h \div n) * n BY <1>1
<1> QED BY <1>1, <1>2

LEMMA QuotientBelow ==
  ASSUME NEW n \in Nat \ {0}, NEW h \in Nat, NEW c \in Nat
  PROVE  h \div n < c <=> h < c * n
<1> DEFINE q == h \div n
           r == h % n
<1>1. q \in Nat /\ r \in 0 .. n - 1 /\ h = q * n + r BY QuotientIs
<1> HIDE DEF q, r
<1>2. q * n \in Nat /\ c * n \in Nat BY <1>1
<1>3. CASE q < c
  <2>1. q + 1 \in Nat /\ q + 1 <= c BY <1>1, <1>3
  <2>2. (q + 1) * n <= c * n BY <2>1, ProductGrows
  <2>3. (q + 1) * n = q * n + n BY <1>1
  <2>4. h < c * n BY <1>1, <1>2, <2>2, <2>3
  <2> QED BY <1>3, <2>4 DEF q
<1>4. CASE ~(q < c)
  <2>1. c <= q BY <1>1, <1>4
  <2>2. c * n <= q * n BY <1>1, <2>1, ProductGrows
  <2>3. ~(h < c * n) BY <1>1, <1>2, <2>2
  <2> QED BY <1>4, <2>3 DEF q
<1> QED BY <1>3, <1>4

LEMMA GreatestIs ==
  ASSUME NEW k \in Nat, NEW s \in SUBSET (1 .. k), s # {}
  PROVE  Max(s) \in s /\ \A y \in s : y <= Max(s)
BY Turns!GreatestIs DEF Turns!Max, Max

(* The places up to i and the last of them.                                *)
LEMMA UpToPlace ==
  ASSUME NEW n \in Nat, NEW i \in 1 .. n
  PROVE  /\ 1 .. i \in SUBSET (1 .. n) /\ 1 .. i # {} /\ 1 .. i - 1 \in SUBSET (1 .. n)
         /\ Max(1 .. i) = i /\ (1 .. i) \ {i} = 1 .. i - 1
<1>1. i \in Nat /\ i <= n /\ i \in 1 .. i OBVIOUS
<1>2. \A x \in 1 .. i : x \in 1 .. n BY <1>1
<1>3. Max(1 .. i) \in 1 .. i /\ \A y \in 1 .. i : y <= Max(1 .. i) BY <1>1, GreatestIs
<1>4. Max(1 .. i) = i BY <1>1, <1>3
<1> QED BY <1>1, <1>2, <1>4

LEMMA Joined ==
  ASSUME NEW E, NEW s \in Seq(E), NEW t \in Seq(E)
  PROVE  /\ s \o t \in Seq(E) /\ Len(s \o t) = Len(s) + Len(t)
         /\ \A k \in 1 .. Len(s) : (s \o t)[k] = s[k]
         /\ \A k \in 1 .. Len(t) : (s \o t)[Len(s) + k] = t[k]
<1>1. Len(s) \in Nat /\ Len(t) \in Nat OBVIOUS
<1>2. s \o t \in Seq(E) /\ Len(s \o t) = Len(s) + Len(t) OBVIOUS
<1>3. ASSUME NEW k \in 1 .. Len(s) PROVE (s \o t)[k] = s[k] BY <1>1
<1>4. ASSUME NEW k \in 1 .. Len(t) PROVE (s \o t)[Len(s) + k] = t[k]
  <2>1. Len(s) + k \in 1 .. Len(s) + Len(t) /\ Len(s) + k > Len(s) /\ (Len(s) + k) - Len(s) = k
    BY <1>1
  <2> QED BY <1>1, <2>1
<1> QED BY <1>2, <1>3, <1>4

-----------------------------------------------------------------------------
(* The size of a row                                                       *)

\* The size after each column.
SizeTurns(g, columns) ==
  /\ g \in [0 .. Len(columns) -> Nat] /\ g[0] = 2
  /\ \A i \in 1 .. Len(columns) : g[i] = g[i - 1] + CellsOf(columns[i].type)
  /\ RowSize(columns) = g[Len(columns)]

LEMMA SizeTurnsExist ==
  ASSUME NEW columns \in Seq(Columns)
  PROVE  \E g : SizeTurns(g, columns)
<1> DEFINE N == Len(columns)
           Turn(x, i) == x + CellsOf(columns[i].type)
           Fold(f) == [s \in SUBSET (1 .. N) |->
                         IF s = {} THEN 2 ELSE Turn(f[s \ {Max(s)}], Max(s))]
           iter == CHOOSE f : f = Fold(f)
           g == [i \in 0 .. N |-> iter[1 .. i]]
           step == [x \in Nat \X (1 .. N) |-> Turn(x[1], x[2])]
<1>1. N \in Nat /\ DOMAIN columns = 1 .. N OBVIOUS
<1>2. ASSUME NEW x \in Nat, NEW i \in 1 .. N PROVE Turn(x, i) \in Nat
  <2>1. TextRoom \in Nat BY StatementsAssumption
  <2>2. CellsOf(columns[i].type) \in Nat BY <2>1 DEF CellsOf, Types
  <2> QED BY <2>2
<1>5. RowSize(columns) = iter[1 .. N]
  BY <1>1 DEF RowSize, FoldLeft, MapThenFoldSet
<1> HIDE DEF Turn, N
<1>3. \E f : f = Fold(f)
  <2>1. step \in [Nat \X (1 .. N) -> Nat] BY <1>2
  <2>2. 2 \in Nat OBVIOUS
  <2>3. PICK f : Turns!IsFold(f, Nat, 2, step, N)
    <3> HIDE DEF step
    <3> QED BY <1>1, <2>1, <2>2, Turns!FoldExists
  <2>4. /\ f \in [SUBSET (1 .. N) -> Nat]
        /\ \A s \in SUBSET (1 .. N) :
             f[s] = IF s = {} THEN 2 ELSE step[<<f[s \ {Max(s)}], Max(s)>>]
    BY <2>3 DEF Turns!IsFold, Turns!Max, Max
  <2>5. ASSUME NEW s \in SUBSET (1 .. N), s # {}
        PROVE  step[<<f[s \ {Max(s)}], Max(s)>>] = Turn(f[s \ {Max(s)}], Max(s))
    <3>1. Max(s) \in 1 .. N BY <1>1, <2>5, GreatestIs
    <3>2. f[s \ {Max(s)}] \in Nat BY <2>4
    <3> QED BY <3>1, <3>2
  <2>6. f = Fold(f) BY <2>4, <2>5
  <2> QED BY <2>6
<1>4. iter = Fold(iter) BY <1>3
<1> HIDE DEF iter
<1>6. g[0] = 2
  <2>1. 1 .. 0 = {} OBVIOUS
  <2> QED BY <1>1, <1>4, <2>1
<1>7. ASSUME NEW i \in 1 .. N PROVE g[i] = Turn(g[i - 1], i)
  <2>1. iter[1 .. i] = Turn(iter[1 .. i - 1], i)
    <3>1. 1 .. i \in SUBSET (1 .. N) /\ 1 .. i # {} /\ Max(1 .. i) = i /\ (1 .. i) \ {i} = 1 .. i - 1
      BY <1>1, UpToPlace
    <3> QED BY <1>4, <3>1
  <2> QED BY <1>1, <2>1
<1>8. RowSize(columns) = g[N] BY <1>1, <1>5
<1>9. DOMAIN g = 0 .. N /\ g = [i \in 0 .. N |-> g[i]] OBVIOUS
<1> HIDE DEF g
<1>10. \A i \in 0 .. N : g[i] \in Nat
  <2> DEFINE S == {i \in 0 .. N : g[i] \in Nat}
  <2>1. 0 \in S BY <1>1, <1>6
  <2>2. ASSUME NEW i \in 0 .. N - 1, i \in S PROVE i + 1 \in S
    <3>1. i + 1 \in 1 .. N /\ (i + 1) - 1 = i BY <1>1
    <3>2. g[i + 1] = Turn(g[i], i + 1) BY <1>7, <3>1
    <3> QED BY <1>2, <2>2, <3>1, <3>2
  <2> HIDE DEF S
  <2>3. \A i \in 0 .. N : i \in S BY <1>1, <2>1, <2>2, Turns!UpTo
  <2> QED BY <2>3 DEF S
<1>11. g \in [0 .. N -> Nat] BY <1>9, <1>10
<1>12. SizeTurns(g, columns) BY <1>6, <1>7, <1>8, <1>11 DEF SizeTurns, N, Turn
<1> QED BY <1>12

\* A row takes two cells at least, and the size depends on the types alone.
LEMMA RowSizeIs ==
  ASSUME NEW columns \in Seq(Columns)
  PROVE  RowSize(columns) \in Nat /\ RowSize(columns) >= 2
<1> DEFINE N == Len(columns)
<1>1. PICK g : SizeTurns(g, columns) BY SizeTurnsExist
<1>2. N \in Nat /\ \A i \in 1 .. N : CellsOf(columns[i].type) \in Nat
  <2>1. TextRoom \in Nat BY StatementsAssumption
  <2> QED BY <2>1 DEF CellsOf, Types
<1> DEFINE S == {i \in 0 .. N : g[i] \in Nat /\ g[i] >= 2}
<1>3. 0 \in S BY <1>1, <1>2 DEF SizeTurns
<1>4. ASSUME NEW i \in 0 .. N - 1, i \in S PROVE i + 1 \in S
  <2>1. i + 1 \in 1 .. N /\ (i + 1) - 1 = i BY <1>2
  <2>2. g[i + 1] = g[i] + CellsOf(columns[i + 1].type) BY <1>1, <2>1 DEF SizeTurns
  <2> QED BY <1>2, <1>4, <2>1, <2>2
<1> HIDE DEF S
<1>5. \A i \in 0 .. N : i \in S BY <1>2, <1>3, <1>4, Turns!UpTo
<1>6. N \in S BY <1>2, <1>5
<1> QED BY <1>1, <1>6 DEF S, SizeTurns

LEMMA SameSize ==
  ASSUME NEW columns \in Seq(Columns), NEW others \in Seq(Columns), Len(others) = Len(columns),
         \A i \in 1 .. Len(columns) : others[i].type = columns[i].type
  PROVE  RowSize(others) = RowSize(columns)
<1> DEFINE N == Len(columns)
<1>1. PICK g : SizeTurns(g, columns) BY SizeTurnsExist
<1>2. PICK h : SizeTurns(h, others) BY SizeTurnsExist
<1>3. N \in Nat OBVIOUS
<1> DEFINE S == {i \in 0 .. N : h[i] = g[i]}
<1>4. 0 \in S BY <1>1, <1>2, <1>3 DEF SizeTurns
<1>5. ASSUME NEW i \in 0 .. N - 1, i \in S PROVE i + 1 \in S
  <2>1. i + 1 \in 1 .. N /\ (i + 1) - 1 = i BY <1>3
  <2>2. g[i + 1] = g[i] + CellsOf(columns[i + 1].type) BY <1>1, <2>1 DEF SizeTurns
  <2>3. h[i + 1] = h[i] + CellsOf(others[i + 1].type) BY <1>2, <2>1 DEF SizeTurns
  <2> QED BY <1>5, <2>1, <2>2, <2>3
<1> HIDE DEF S
<1>6. \A i \in 0 .. N : i \in S BY <1>3, <1>4, <1>5, Turns!UpTo
<1>7. N \in S BY <1>3, <1>6
<1> QED BY <1>1, <1>2, <1>7 DEF S, SizeTurns

-----------------------------------------------------------------------------
(* Slots                                                                   *)

\* The columns of a table: a page has room for a row.
Tabular(columns) == columns \in Seq(Columns) /\ RowSize(columns) <= PageSize

LEMMA PageHoldsRows ==
  ASSUME NEW columns, Tabular(columns)
  PROVE  /\ RowSize(columns) \in Nat \ {0} /\ PageSize \in Nat
         /\ RowsPerPage(columns) \in Nat \ {0}
         /\ RowsPerPage(columns) * RowSize(columns) <= PageSize
<1> DEFINE S == RowSize(columns)
           P == RowsPerPage(columns)
<1>1. S \in Nat /\ S >= 2 /\ S <= PageSize /\ PageSize \in Nat
  BY RowSizeIs, StatementsAssumption DEF Tabular
<1>2. P = PageSize \div S BY DEF RowsPerPage
<1> HIDE DEF S, P
<1>3. S \in Nat \ {0} BY <1>1
<1>4. PageSize \div S \in Nat /\ PageSize % S \in 0 .. S - 1
      /\ PageSize = (PageSize \div S) * S + (PageSize % S)
  BY <1>1, <1>3, QuotientIs
<1>5. P \in Nat /\ P * S <= PageSize BY <1>1, <1>2, <1>4
<1>6. P # 0
  <2>1. SUFFICES ASSUME P = 0 PROVE FALSE OBVIOUS
  <2>2. P * S = 0 BY <1>3, <2>1
  <2> QED BY <1>1, <1>2, <1>4, <2>2
<1> QED BY <1>1, <1>3, <1>5, <1>6 DEF S, P

\* A slot lies inside its page.
LEMMA SlotInPage ==
  ASSUME NEW columns, Tabular(columns), NEW i \in Nat
  PROVE  /\ Address(columns, i) \in Nat
         /\ Address(columns, i) + RowSize(columns) <= PageEnd(columns, i)
         /\ i \div RowsPerPage(columns) < MaxPages => PageEnd(columns, i) <= MaxPages * PageSize
<1> DEFINE S == RowSize(columns)
           P == RowsPerPage(columns)
           q == i \div P
           r == i % P
<1>1. S \in Nat \ {0} /\ PageSize \in Nat /\ P \in Nat \ {0} /\ P * S <= PageSize BY PageHoldsRows
<1>2. q \in Nat /\ r \in 0 .. P - 1
  <2> HIDE DEF P
  <2> QED BY <1>1, QuotientIs
<1>3. Address(columns, i) = q * PageSize + r * S /\ PageEnd(columns, i) = (q + 1) * PageSize
  BY DEF Address, PageEnd
<1> HIDE DEF S, P, q, r
<1>4. MaxPages \in Nat BY StatementsAssumption
<1>5. r \in Nat /\ r + 1 \in Nat /\ r + 1 <= P /\ q + 1 \in Nat BY <1>1, <1>2
<1>6. r * S \in Nat /\ q * PageSize \in Nat BY <1>1, <1>2, <1>5
<1>7. (r + 1) * S <= P * S BY <1>1, <1>5, ProductGrows
<1>8. (r + 1) * S = r * S + S /\ (q + 1) * PageSize = q * PageSize + PageSize BY <1>1, <1>2, <1>5
<1>9. q < MaxPages => (q + 1) * PageSize <= MaxPages * PageSize
  <2>1. ASSUME q < MaxPages PROVE (q + 1) * PageSize <= MaxPages * PageSize
    <3>1. q + 1 <= MaxPages BY <1>2, <1>4, <2>1
    <3> QED BY <1>1, <1>4, <1>5, <3>1, ProductGrows
  <2> QED BY <2>1
<1>10. P * S \in Nat BY <1>1
<1>11. r * S + S <= PageSize BY <1>1, <1>6, <1>7, <1>8, <1>10
<1>12. /\ q * PageSize + r * S \in Nat
       /\ (q * PageSize + r * S) + S <= (q + 1) * PageSize
  BY <1>1, <1>6, <1>8, <1>11
<1> QED BY <1>3, <1>9, <1>12 DEF S, P, q

\* Slots do not overlap.
LEMMA SlotsApart ==
  ASSUME NEW columns, Tabular(columns), NEW i \in Nat, NEW j \in Nat, i < j
  PROVE  Address(columns, i) + RowSize(columns) <= Address(columns, j)
<1> DEFINE S == RowSize(columns)
           P == RowsPerPage(columns)
           q == i \div P
           r == i % P
           p == j \div P
           s == j % P
<1>1. S \in Nat \ {0} /\ PageSize \in Nat /\ P \in Nat \ {0} /\ P * S <= PageSize BY PageHoldsRows
<1>2. q \in Nat /\ r \in 0 .. P - 1 /\ i = q * P + r /\ p \in Nat /\ s \in 0 .. P - 1 /\ j = p * P + s
  <2> HIDE DEF P
  <2> QED BY <1>1, QuotientIs
<1>3. Address(columns, i) = q * PageSize + r * S /\ Address(columns, j) = p * PageSize + s * S
  BY DEF Address
<1>4. Address(columns, i) + S <= (q + 1) * PageSize
  BY SlotInPage DEF PageEnd
<1> HIDE DEF S, P, q, r, p, s
<1>5. r \in Nat /\ s \in Nat /\ s + 1 <= P /\ q + 1 \in Nat /\ r + 1 \in Nat BY <1>1, <1>2
<1>6. q <= p
  <2>1. SUFFICES ASSUME p + 1 <= q PROVE FALSE BY <1>2
  <2>2. p + 1 \in Nat BY <1>2
  <2>3. (p + 1) * P <= q * P BY <1>1, <1>2, <2>1, <2>2, ProductGrows
  <2>4. (p + 1) * P = p * P + P /\ p * P \in Nat /\ q * P \in Nat BY <1>1, <1>2
  <2> QED BY <1>1, <1>2, <1>5, <2>3, <2>4
<1>7. CASE q = p
  <2>1. r + 1 <= s
    <3>1. q * P = p * P /\ p * P \in Nat BY <1>1, <1>2, <1>7
    <3> QED BY <1>2, <1>5, <3>1
  <2>2. (r + 1) * S <= s * S BY <1>1, <1>5, <2>1, ProductGrows
  <2>3. (r + 1) * S = r * S + S BY <1>1, <1>5
  <2>4. r * S \in Nat /\ s * S \in Nat /\ p * PageSize \in Nat BY <1>1, <1>2, <1>5
  <2>5. q * PageSize = p * PageSize BY <1>7
  <2>6. (q * PageSize + r * S) + S <= p * PageSize + s * S BY <1>1, <2>2, <2>3, <2>4, <2>5
  <2> QED BY <1>3, <2>6 DEF S
<1>8. CASE q # p
  <2>1. q + 1 <= p BY <1>2, <1>6, <1>8
  <2>2. (q + 1) * PageSize <= p * PageSize BY <1>1, <1>2, <1>5, <2>1, ProductGrows
  <2>3. s * S \in Nat /\ p * PageSize \in Nat /\ q * PageSize \in Nat /\ r * S \in Nat
        /\ (q + 1) * PageSize \in Nat
    BY <1>1, <1>2, <1>5
  <2>4. (q * PageSize + r * S) + S <= p * PageSize + s * S BY <1>1, <1>3, <1>4, <2>2, <2>3
  <2> QED BY <1>3, <2>4 DEF S
<1> QED BY <1>7, <1>8

-----------------------------------------------------------------------------
(* Fields of a row                                                         *)

CellKinds == Types \cup {"type", "len", "char", "id", "size", "zero"}
CellValues == Int \cup Types \cup DOMAIN TextLength
Cells == [kind : CellKinds, v : CellValues, k : Nat]

\* A value as it is kept in a row, and the cells it takes.
Kept(value) == [type |-> value.type, v |-> IF value.type = "INT" THEN Bits(value.v) ELSE value.v]
Width(value) == IF value.type = "TEXT" THEN TextLength[value.v] + 3 ELSE 2

\* The values by their types.
LEMMA ValueIs ==
  ASSUME NEW value \in Values
  PROVE  /\ value.type \in Types /\ value = [type |-> value.type, v |-> value.v]
         /\ value.v \in CellValues
         /\ value.type = "INT" => value.v \in -IntHalf .. IntHalf - 1 /\ Bits(value.v) \in 0 .. 2 * IntHalf - 1
         /\ value.type = "TEXT" => value.v \in DOMAIN TextLength /\ TextLength[value.v] \in Nat
         /\ value.type = "REAL" => value.v \in Int
         /\ value.type = "BOOL" => value.v \in {0, 1}
<1>1. IntHalf \in Nat \ {0} /\ TextLength \in [DOMAIN TextLength -> Nat] BY StatementsAssumption
<1>2. \A v \in Int : Bits(v) \in 0 .. 2 * IntHalf - 1
  <2>1. SUFFICES ASSUME NEW v \in Int PROVE v % (2 * IntHalf) \in 0 .. 2 * IntHalf - 1 BY DEF Bits
  <2>2. 2 * IntHalf \in Nat \ {0} BY <1>1
  <2> DEFINE m == 2 * IntHalf
  <2> HIDE DEF m
  <2>3. m \in Nat \ {0} BY <2>2 DEF m
  <2>4. v % m \in 0 .. m - 1 BY <2>3
  <2> QED BY <2>4 DEF m
<1>3. CASE value \in [type : {"INT"}, v : -IntHalf .. IntHalf - 1]
  <2>1. value.type = "INT" /\ value.v \in -IntHalf .. IntHalf - 1 /\ value.v \in Int BY <1>1, <1>3
  <2> QED BY <1>2, <1>3, <2>1 DEF Types, CellValues
<1>4. CASE value \in [type : {"TEXT"}, v : DOMAIN TextLength]
  BY <1>1, <1>4 DEF Types, CellValues
<1>5. CASE value \in [type : {"REAL"}, v : Int] BY <1>5 DEF Types, CellValues
<1>6. CASE value \in [type : {"BOOL"}, v : {0, 1}] BY <1>6 DEF Types, CellValues
<1> QED BY <1>3, <1>4, <1>5, <1>6 DEF Values

LEMMA FieldsAre ==
  ASSUME NEW value \in Values
  PROVE  /\ Width(value) \in Nat /\ Width(value) >= 2
         /\ Fields(value) \in Seq(Cells) /\ Len(Fields(value)) = Width(value)
         /\ Fields(value)[1] = Cell("type", value.type)
         /\ value.type # "TEXT" => Fields(value)[2] = Cell(value.type, Kept(value).v)
         /\ value.type = "TEXT" =>
              /\ Fields(value)[2] = Cell("len", TextLength[value.v])
              /\ \A k \in 1 .. TextLength[value.v] + 1 : Fields(value)[k + 2] = Char(value.v, k)
<1>1. /\ value.type \in Types /\ value.v \in CellValues
      /\ value.type = "INT" => Bits(value.v) \in CellValues
  BY ValueIs DEF CellValues
<1>2. Cell("type", value.type) \in Cells /\ \A k \in Types, v \in CellValues : Cell(k, v) \in Cells
  BY <1>1 DEF Cell, Cells, CellKinds, CellValues
<1>3. CASE value.type = "TEXT"
  <2> DEFINE n == TextLength[value.v]
             chars == [k \in 1 .. n + 1 |-> Char(value.v, k)]
             head == <<Cell("type", "TEXT"), Cell("len", n)>>
  <2>1. n \in Nat /\ Width(value) = n + 3 BY <1>3, ValueIs DEF Width
  <2>2. Fields(value) = head \o chars BY <1>3 DEF Fields
  <2> HIDE DEF n
  <2>3. chars \in Seq(Cells) /\ Len(chars) = n + 1 /\ \A k \in 1 .. n + 1 : chars[k] = Char(value.v, k)
    <3>1. n + 1 \in Nat BY <2>1
    <3>2. \A k \in 1 .. n + 1 : Char(value.v, k) \in Cells
      BY <1>1, <2>1 DEF Char, Cells, CellKinds
    <3> QED BY <3>1, <3>2
  <2>4. head \in Seq(Cells) /\ Len(head) = 2 /\ head[1] = Cell("type", "TEXT") /\ head[2] = Cell("len", n)
    <3>1. Cell("len", n) \in Cells BY <2>1 DEF Cell, Cells, CellKinds, CellValues
    <3> QED BY <1>2, <1>3, <3>1
  <2> HIDE DEF chars, head
  <2> DEFINE all == head \o chars
  <2>5. all \in Seq(Cells) /\ Len(all) = n + 3 /\ all[1] = head[1] /\ all[2] = head[2]
        /\ \A k \in 1 .. n + 1 : all[k + 2] = chars[k]
    <3>1. /\ all \in Seq(Cells) /\ Len(all) = 2 + (n + 1)
          /\ \A k \in 1 .. 2 : all[k] = head[k]
          /\ \A k \in 1 .. n + 1 : all[2 + k] = chars[k]
      <4> HIDE DEF all
      <4>1. all = head \o chars BY DEF all
      <4>2. head \in Seq(Cells) /\ chars \in Seq(Cells) BY <2>3, <2>4
      <4>3. /\ head \o chars \in Seq(Cells) /\ Len(head \o chars) = Len(head) + Len(chars)
            /\ \A k \in 1 .. Len(head) : (head \o chars)[k] = head[k]
            /\ \A k \in 1 .. Len(chars) : (head \o chars)[Len(head) + k] = chars[k]
        BY <4>2, Joined
      <4> QED BY <2>3, <2>4, <4>1, <4>3
    <3>2. \A k \in 1 .. n + 1 : k + 2 = 2 + k OBVIOUS
    <3>3. 2 + (n + 1) = n + 3 /\ 1 \in 1 .. 2 /\ 2 \in 1 .. 2 BY <2>1
    <3> HIDE DEF all
    <3> QED BY <3>1, <3>2, <3>3
  <2> HIDE DEF all
  <2>6. Fields(value) = all BY <2>2 DEF all
  <2> QED BY <1>3, <2>1, <2>3, <2>4, <2>5, <2>6 DEF n
<1>4. CASE value.type # "TEXT"
  <2>1. Fields(value) = <<Cell("type", value.type), Cell(value.type, Kept(value).v)>>
    <3>1. CASE value.type = "INT" BY <3>1 DEF Fields, Kept
    <3>2. CASE value.type # "INT" BY <1>4, <3>2 DEF Fields, Kept
    <3> QED BY <3>1, <3>2
  <2>2. Kept(value).v \in CellValues BY <1>1 DEF Kept
  <2>3. Cell(value.type, Kept(value).v) \in Cells BY <1>1, <1>2, <2>2
  <2>4. Width(value) = 2 BY <1>4 DEF Width
  <2> QED BY <1>2, <1>4, <2>1, <2>3, <2>4
<1> QED BY <1>3, <1>4

\* The fields of the first values, one behind the other.
FlatTurns(g, values) ==
  /\ g \in [0 .. Len(values) -> Seq(Cells)] /\ g[0] = <<>>
  /\ \A i \in 1 .. Len(values) : g[i] = g[i - 1] \o Fields(values[i])
  /\ FlattenSeq([i \in DOMAIN values |-> Fields(values[i])]) = g[Len(values)]

LEMMA FlatTurnsExist ==
  ASSUME NEW values \in Seq(Values)
  PROVE  \E g : FlatTurns(g, values)
<1> DEFINE N == Len(values)
           seqs == [i \in DOMAIN values |-> Fields(values[i])]
           Flatten(f) == [i \in 1 .. N |-> IF i = 1 THEN seqs[i] ELSE f[i - 1] \o seqs[i]]
           all == CHOOSE f : f = Flatten(f)
           g == [i \in 0 .. N |-> IF i = 0 THEN <<>> ELSE all[i]]
           step == [x \in Seq(Cells) \X (1 .. N) |-> x[1] \o seqs[x[2]]]
<1>1. N \in Nat /\ DOMAIN values = 1 .. N OBVIOUS
<1>2. /\ Len(seqs) = N /\ (N = 0 => seqs = <<>>)
      /\ \A i \in 1 .. N : seqs[i] = Fields(values[i]) /\ seqs[i] \in Seq(Cells)
  <2>1. \A i \in 1 .. N : values[i] \in Values OBVIOUS
  <2> QED BY <1>1, <2>1, FieldsAre
<1> HIDE DEF seqs, N
<1>3. FlattenSeq(seqs) = IF N = 0 THEN <<>> ELSE all[N]
  <2>1. CASE N = 0 BY <1>2, <2>1 DEF FlattenSeq
  <2>2. CASE N # 0
    <3>1. FlattenSeq(seqs) = all[N] BY <1>2, <2>2 DEF FlattenSeq
    <3> HIDE DEF all
    <3> QED BY <2>2, <3>1
  <2> QED BY <2>1, <2>2
<1>4. \E f : f = Flatten(f)
  <2>1. step \in [Seq(Cells) \X (1 .. N) -> Seq(Cells)]
    <3>1. ASSUME NEW x \in Seq(Cells), NEW i \in 1 .. N PROVE x \o seqs[i] \in Seq(Cells)
      BY <1>2
    <3> QED BY <3>1
  <2>2. <<>> \in Seq(Cells) OBVIOUS
  <2>3. PICK f : Turns!IsFold(f, Seq(Cells), <<>>, step, N)
    <3> HIDE DEF step
    <3> QED BY <1>1, <2>1, <2>2, Turns!FoldExists
  <2>4. /\ f \in [SUBSET (1 .. N) -> Seq(Cells)]
        /\ \A s \in SUBSET (1 .. N) :
             f[s] = IF s = {} THEN <<>> ELSE step[<<f[s \ {Max(s)}], Max(s)>>]
    BY <2>3 DEF Turns!IsFold, Turns!Max, Max
  <2> DEFINE h == [i \in 1 .. N |-> f[1 .. i]]
  <2>5. ASSUME NEW i \in 1 .. N PROVE h[i] = f[1 .. i - 1] \o seqs[i]
    <3>1. /\ 1 .. i \in SUBSET (1 .. N) /\ 1 .. i # {} /\ 1 .. i - 1 \in SUBSET (1 .. N)
          /\ Max(1 .. i) = i /\ (1 .. i) \ {i} = 1 .. i - 1
      BY <1>1, UpToPlace
    <3>2. f[1 .. i - 1] \in Seq(Cells) BY <2>4, <3>1
    <3>3. f[1 .. i] = step[<<f[1 .. i - 1], i>>] BY <2>4, <3>1
    <3> QED BY <3>2, <3>3
  <2>6. ASSUME NEW i \in 1 .. N PROVE h[i] = IF i = 1 THEN seqs[i] ELSE h[i - 1] \o seqs[i]
    <3>1. CASE i = 1
      <4>1. 1 .. i - 1 = {} BY <3>1
      <4>2. {} \in SUBSET (1 .. N) OBVIOUS
      <4>3. f[1 .. i - 1] = <<>> BY <2>4, <4>1, <4>2
      <4>4. <<>> \o seqs[i] = seqs[i] BY <1>2
      <4> QED BY <2>5, <3>1, <4>3, <4>4
    <3>2. CASE i # 1
      <4>1. i - 1 \in 1 .. N BY <1>1, <3>2
      <4> QED BY <2>5, <3>2, <4>1
    <3> QED BY <3>1, <3>2
  <2>7. h = Flatten(h)
    <3>1. h = [i \in 1 .. N |-> h[i]] OBVIOUS
    <3> HIDE DEF h
    <3> QED BY <2>6, <3>1
  <2> QED BY <2>7
<1>5. all = Flatten(all) BY <1>4
<1> HIDE DEF all
<1>6. g[0] = <<>> /\ \A i \in 1 .. N : g[i] = all[i] BY <1>1
<1>7. FlattenSeq(seqs) = g[N]
  <2>1. N \in 0 .. N BY <1>1
  <2> QED BY <1>3, <2>1
<1>8. g = [i \in 0 .. N |-> g[i]] OBVIOUS
<1> HIDE DEF g
<1>9. ASSUME NEW i \in 1 .. N PROVE g[i] = g[i - 1] \o seqs[i]
  <2>1. all[i] = IF i = 1 THEN seqs[i] ELSE all[i - 1] \o seqs[i] BY <1>5
  <2>2. CASE i = 1
    <3>1. <<>> \o seqs[i] = seqs[i] BY <1>2
    <3>2. g[i] = seqs[i] /\ g[i - 1] = <<>> BY <1>6, <2>1, <2>2
    <3> QED BY <3>1, <3>2
  <2>3. CASE i # 1
    <3>1. i - 1 \in 1 .. N BY <1>1, <2>3
    <3> QED BY <1>6, <2>1, <2>3, <3>1
  <2> QED BY <2>2, <2>3
<1>10. \A i \in 0 .. N : g[i] \in Seq(Cells)
  <2> DEFINE S == {i \in 0 .. N : g[i] \in Seq(Cells)}
  <2>1. 0 \in S
    <3>1. <<>> \in Seq(Cells) OBVIOUS
    <3>2. g[0] \in Seq(Cells) BY <1>6, <3>1, Zenon
    <3>3. 0 \in 0 .. N BY <1>1
    <3> QED BY <3>2, <3>3
  <2>2. ASSUME NEW i \in 0 .. N - 1, i \in S PROVE i + 1 \in S
    <3>1. i + 1 \in 1 .. N /\ (i + 1) - 1 = i /\ i + 1 \in 0 .. N BY <1>1
    <3>2. g[i + 1] = g[i] \o seqs[i + 1] BY <1>9, <3>1
    <3>3. g[i] \in Seq(Cells) /\ seqs[i + 1] \in Seq(Cells) BY <1>2, <2>2, <3>1
    <3>4. g[i] \o seqs[i + 1] \in Seq(Cells) BY <3>3, Joined
    <3> QED BY <3>1, <3>2, <3>4
  <2> HIDE DEF S
  <2>3. \A i \in 0 .. N : i \in S BY <1>1, <2>1, <2>2, Turns!UpTo
  <2> QED BY <2>3 DEF S
<1>11. g \in [0 .. N -> Seq(Cells)] BY <1>8, <1>10
<1>12. FlatTurns(g, values) BY <1>2, <1>6, <1>7, <1>9, <1>11 DEF FlatTurns, N, seqs
<1> QED BY <1>12

\* Behind which cell of its row each value begins.
Offsets(off, values) ==
  /\ off \in [0 .. Len(values) -> Nat] /\ off[0] = 2
  /\ \A i \in 1 .. Len(values) : off[i] = off[i - 1] + Width(values[i])

\* The cells of a row, value by value.
Laid(cells, values, off) ==
  /\ cells \in Seq(Cells) /\ Len(cells) = off[Len(values)]
  /\ \A i \in 1 .. Len(values) :
       /\ off[i] <= Len(cells)
       /\ \A m \in 1 .. Width(values[i]) : cells[off[i - 1] + m] = Fields(values[i])[m]

\* Each field is at its place among the first i.
PlacedIn(g, values, i) ==
  \A j \in 1 .. i :
    /\ Len(g[j]) <= Len(g[i])
    /\ \A m \in 1 .. Width(values[j]) : g[i][Len(g[j - 1]) + m] = Fields(values[j])[m]

LEMMA FlatPlaced ==
  ASSUME NEW values \in Seq(Values), NEW g, FlatTurns(g, values)
  PROVE  /\ \A i \in 1 .. Len(values) : Len(g[i]) = Len(g[i - 1]) + Width(values[i])
         /\ PlacedIn(g, values, Len(values))
<1> DEFINE N == Len(values)
<1>1. N \in Nat /\ \A i \in 0 .. N : g[i] \in Seq(Cells) /\ Len(g[i]) \in Nat
  <2>1. N \in Nat /\ \A i \in 0 .. N : g[i] \in Seq(Cells) BY DEF FlatTurns
  <2> QED BY <2>1
<1>2. ASSUME NEW i \in 1 .. N
      PROVE  /\ i - 1 \in 0 .. N /\ i \in 0 .. N /\ i - 1 \in Nat
             /\ Width(values[i]) \in Nat
             /\ Len(g[i]) = Len(g[i - 1]) + Width(values[i])
             /\ \A k \in 1 .. Len(g[i - 1]) : g[i][k] = g[i - 1][k]
             /\ \A k \in 1 .. Width(values[i]) : g[i][Len(g[i - 1]) + k] = Fields(values[i])[k]
  <2>1. values[i] \in Values /\ i - 1 \in 0 .. N /\ i \in 0 .. N /\ i - 1 \in Nat BY <1>1
  <2>2. Fields(values[i]) \in Seq(Cells) /\ Len(Fields(values[i])) = Width(values[i])
        /\ Width(values[i]) \in Nat
    BY <2>1, FieldsAre
  <2>3. g[i] = g[i - 1] \o Fields(values[i]) BY DEF FlatTurns
  <2>4. g[i - 1] \in Seq(Cells) BY <1>1, <2>1
  <2> DEFINE s == g[i - 1]
             t == Fields(values[i])
  <2> HIDE DEF s, t
  <2>5. s \in Seq(Cells) /\ t \in Seq(Cells) BY <2>2, <2>4 DEF s, t
  <2>6. /\ Len(s \o t) = Len(s) + Len(t)
        /\ \A k \in 1 .. Len(s) : (s \o t)[k] = s[k]
        /\ \A k \in 1 .. Len(t) : (s \o t)[Len(s) + k] = t[k]
    BY <2>5, Joined
  <2> QED BY <2>1, <2>2, <2>3, <2>6 DEF s, t
<1> DEFINE S == {i \in 0 .. N : PlacedIn(g, values, i)}
<1>3. 0 \in S BY <1>1 DEF PlacedIn
<1>4. ASSUME NEW i \in 0 .. N - 1, i \in S PROVE i + 1 \in S
  <2> DEFINE n == i + 1
  <2>1. n \in 1 .. N /\ n - 1 = i /\ i \in Nat /\ i \in 0 .. N /\ n \in 0 .. N BY <1>1
  <2>2. PlacedIn(g, values, i) BY <1>4
  <2> HIDE DEF n
  <2>3. ASSUME NEW j \in 1 .. n
        PROVE  /\ Len(g[j]) <= Len(g[n])
               /\ \A m \in 1 .. Width(values[j]) : g[n][Len(g[j - 1]) + m] = Fields(values[j])[m]
    <3>1. CASE j = n
      <4>1. Len(g[n]) \in Nat BY <1>1, <2>1
      <4> QED BY <1>2, <2>1, <3>1, <4>1
    <3>2. CASE j # n
      <4>1. j \in 1 .. i /\ j \in 1 .. N BY <2>1, <3>2
      <4>2. Len(g[j]) <= Len(g[i])
            /\ \A m \in 1 .. Width(values[j]) : g[i][Len(g[j - 1]) + m] = Fields(values[j])[m]
        BY <2>2, <4>1 DEF PlacedIn
      <4>3. Len(g[n]) = Len(g[i]) + Width(values[n]) /\ Width(values[n]) \in Nat
            /\ \A k \in 1 .. Len(g[i]) : g[n][k] = g[i][k]
        BY <1>2, <2>1
      <4>4. Len(g[j]) = Len(g[j - 1]) + Width(values[j]) /\ Width(values[j]) \in Nat
            /\ Len(g[j - 1]) \in Nat /\ Len(g[j]) \in Nat /\ Len(g[i]) \in Nat
        <5>1. j - 1 \in 0 .. N /\ j \in 0 .. N BY <1>2, <4>1
        <5> QED BY <1>1, <1>2, <2>1, <4>1, <5>1
      <4>5. ASSUME NEW m \in 1 .. Width(values[j]) PROVE Len(g[j - 1]) + m \in 1 .. Len(g[i])
        BY <4>2, <4>4
      <4>6. Len(g[j]) <= Len(g[n]) BY <4>2, <4>3, <4>4
      <4> QED BY <4>2, <4>3, <4>5, <4>6
    <3> QED BY <3>1, <3>2
  <2>4. PlacedIn(g, values, n) BY <2>3 DEF PlacedIn
  <2> QED BY <2>1, <2>4 DEF n
<1> HIDE DEF S
<1>5. \A i \in 0 .. N : i \in S BY <1>1, <1>3, <1>4, Turns!UpTo
<1>6. N \in S BY <1>1, <1>5
<1> QED BY <1>2, <1>6 DEF S

\* What serialize_row lays down, for every id and size.
LEMMA SerializeIs ==
  ASSUME NEW values \in Seq(Values)
  PROVE  \E off : /\ Offsets(off, values)
                  /\ \A id \in Nat, size \in Nat :
                       /\ Laid(Serialize(id, size, values), values, off)
                       /\ Serialize(id, size, values)[1] = Cell("id", id)
<1> DEFINE N == Len(values)
<1>1. PICK g : FlatTurns(g, values) BY FlatTurnsExist
<1>2. N \in Nat /\ \A i \in 0 .. N : g[i] \in Seq(Cells) /\ Len(g[i]) \in Nat
  <2>1. N \in Nat /\ \A i \in 0 .. N : g[i] \in Seq(Cells) BY <1>1 DEF FlatTurns
  <2> QED BY <2>1
<1>3. /\ \A i \in 1 .. N : Len(g[i]) = Len(g[i - 1]) + Width(values[i])
      /\ PlacedIn(g, values, N)
  BY <1>1, FlatPlaced
<1> DEFINE off == [i \in 0 .. N |-> 2 + Len(g[i])]
<1>4. \A i \in 1 .. N : values[i] \in Values /\ Width(values[i]) \in Nat /\ i - 1 \in 0 .. N /\ i \in 0 .. N
  <2>1. \A i \in 1 .. N : values[i] \in Values /\ i - 1 \in 0 .. N /\ i \in 0 .. N BY <1>2
  <2> QED BY <2>1, FieldsAre
<1>5. Offsets(off, values)
  <2>1. off \in [0 .. N -> Nat] BY <1>2
  <2>2. off[0] = 2
    <3>1. g[0] = <<>> /\ Len(<<>>) = 0 /\ 0 \in 0 .. N BY <1>1, <1>2 DEF FlatTurns
    <3> QED BY <3>1
  <2>3. ASSUME NEW i \in 1 .. N PROVE off[i] = off[i - 1] + Width(values[i])
    <3>1. off[i] = 2 + Len(g[i]) /\ off[i - 1] = 2 + Len(g[i - 1]) BY <1>4
    <3>2. Len(g[i]) = Len(g[i - 1]) + Width(values[i]) BY <1>3
    <3>3. Len(g[i - 1]) \in Nat /\ Width(values[i]) \in Nat BY <1>2, <1>4
    <3> HIDE DEF off
    <3> QED BY <3>1, <3>2, <3>3
  <2> HIDE DEF off
  <2> QED BY <2>1, <2>2, <2>3 DEF Offsets
<1>6. ASSUME NEW id \in Nat, NEW size \in Nat
      PROVE  /\ Laid(Serialize(id, size, values), values, off)
             /\ Serialize(id, size, values)[1] = Cell("id", id)
  <2> DEFINE s == <<Cell("id", id), Cell("size", size)>>
             t == g[N]
             c == s \o t
  <2>1. s \in Seq(Cells) /\ Len(s) = 2 /\ s[1] = Cell("id", id)
    <3>1. Cell("id", id) \in Cells /\ Cell("size", size) \in Cells
      BY DEF Cell, Cells, CellKinds, CellValues
    <3> QED BY <3>1
  <2>2. t \in Seq(Cells) BY <1>2
  <2>3. Serialize(id, size, values) = c BY <1>1 DEF Serialize, FlatTurns
  <2>4. Len(t) + 2 = off[N] BY <1>2
  <2>5. \A i \in 1 .. N : off[i - 1] = 2 + Len(g[i - 1]) /\ off[i] = 2 + Len(g[i])
    BY <1>4
  <2> HIDE DEF s, off
  <2>6. /\ c \in Seq(Cells) /\ Len(c) = 2 + Len(t)
        /\ \A k \in 1 .. 2 : c[k] = s[k]
        /\ \A k \in 1 .. Len(t) : c[2 + k] = t[k]
    <3> HIDE DEF t
    <3>1. /\ s \o t \in Seq(Cells) /\ Len(s \o t) = Len(s) + Len(t)
          /\ \A k \in 1 .. Len(s) : (s \o t)[k] = s[k]
          /\ \A k \in 1 .. Len(t) : (s \o t)[Len(s) + k] = t[k]
      <4>1. s \in Seq(Cells) /\ t \in Seq(Cells) BY <2>1, <2>2
      <4> QED BY <4>1, Joined
    <3> QED BY <2>1, <3>1
  <2>7. Len(t) \in Nat BY <1>2
  <2> HIDE DEF c
  <2>8. ASSUME NEW i \in 1 .. N
        PROVE  /\ off[i] <= Len(c)
               /\ \A m \in 1 .. Width(values[i]) : c[off[i - 1] + m] = Fields(values[i])[m]
    <3>1. Len(g[i]) <= Len(t) /\ \A m \in 1 .. Width(values[i]) : t[Len(g[i - 1]) + m] = Fields(values[i])[m]
      BY <1>3 DEF PlacedIn
    <3>2. Len(g[i]) \in Nat /\ Len(g[i - 1]) \in Nat /\ Len(g[i]) = Len(g[i - 1]) + Width(values[i])
          /\ Width(values[i]) \in Nat
      BY <1>2, <1>3, <1>4
    <3> HIDE DEF t
    <3>3. off[i] <= Len(c) BY <2>5, <2>6, <2>7, <3>1, <3>2
    <3>4. ASSUME NEW m \in 1 .. Width(values[i]) PROVE c[off[i - 1] + m] = Fields(values[i])[m]
      <4>1. Len(g[i - 1]) + m \in 1 .. Len(t) BY <2>7, <3>1, <3>2
      <4>2. 2 + (Len(g[i - 1]) + m) = off[i - 1] + m
        <5>1. off[i - 1] = 2 + Len(g[i - 1]) BY <2>5
        <5>2. \A x \in Nat : 2 + (x + m) = (2 + x) + m OBVIOUS
        <5> QED BY <3>2, <5>1, <5>2
      <4>3. c[2 + (Len(g[i - 1]) + m)] = t[Len(g[i - 1]) + m] BY <2>6, <4>1
      <4> QED BY <3>1, <4>2, <4>3
    <3> QED BY <3>3, <3>4
  <2>9. Len(c) = off[N] BY <2>4, <2>6, <2>7
  <2>10. Laid(c, values, off) BY <2>6, <2>8, <2>9 DEF Laid
  <2>11. c[1] = Cell("id", id) BY <2>1, <2>6
  <2> QED BY <2>3, <2>10, <2>11
<1> HIDE DEF off
<1> QED BY <1>5, <1>6

-----------------------------------------------------------------------------
(* Reading a row                                                           *)

\* The value lies in the pages from cell p on.
Lies(pages, p, value) ==
  \A m \in 1 .. Width(value) :
    p + m - 1 \in DOMAIN pages /\ pages[p + m - 1] = Fields(value)[m]

RowFields == {"read", "id", "values", "next"}
IsRow(row, id, values, next) ==
  /\ DOMAIN row = RowFields
  /\ row.read = TRUE /\ row.id = id /\ row.values = values /\ row.next = next

LEMMA RowGrows ==
  ASSUME NEW row, NEW id, NEW values, NEW p, IsRow(row, id, values, p), NEW v, NEW n
  PROVE  IsRow([row EXCEPT !.values = Append(@, v), !.next = p + n], id, Append(values, v), p + n)
BY DEF IsRow, RowFields

\* The cells of a text of n characters.
TextLies(pages, a, text, n) ==
  /\ a + 2 + n \in DOMAIN pages /\ pages[a + 1].kind = "len" /\ pages[a + 1].v = n
  /\ pages[a + 2].v = text
  /\ \A k \in 1 .. n + 1 :
       LET c == pages[a + 1 + k] IN c.kind = "char" /\ c.v = text /\ c.k = k

LEMMA TextRead ==
  ASSUME NEW pages, NEW row, NEW id, NEW values, NEW p, IsRow(row, id, values, p), NEW text, NEW n,
         p + 1 \in DOMAIN pages, pages[p].kind = "type", pages[p].v = "TEXT",
         TextLies(pages, p, text, n)
  PROVE  IsRow(ReadValue(pages, row), id, Append(values, [type |-> "TEXT", v |-> text]), p + (n + 3))
<1>0. /\ row.read = TRUE /\ row.next = p /\ row.next + 1 \in DOMAIN pages
      /\ pages[row.next].kind = "type" /\ pages[row.next].v = "TEXT"
      /\ TextLies(pages, row.next, text, n)
  BY DEF IsRow
<1>1. /\ row.next + 2 + n \in DOMAIN pages /\ pages[row.next + 1].kind = "len"
      /\ pages[row.next + 1].v = n /\ pages[row.next + 2].v = text
  BY <1>0 DEF TextLies
<1>2. /\ row.next + 2 + pages[row.next + 1].v \in DOMAIN pages
      /\ \A k \in 1 .. pages[row.next + 1].v + 1 :
           LET c == pages[row.next + 1 + k] IN c.kind = "char" /\ c.v = pages[row.next + 2].v /\ c.k = k
  <2>1. \A k \in 1 .. n + 1 :
           LET c == pages[row.next + 1 + k] IN c.kind = "char" /\ c.v = text /\ c.k = k
    BY <1>0 DEF TextLies
  <2> QED BY <1>1, <2>1
<1>3. ReadValue(pages, row)
        = [row EXCEPT !.values = Append(@, [type |-> pages[row.next].v, v |-> pages[row.next + 2].v]),
                      !.next = row.next + (pages[row.next + 1].v + 3)]
  BY <1>0, <1>1, <1>2, Zenon DEF ReadValue
<1>4. IsRow([row EXCEPT !.values = Append(@, [type |-> "TEXT", v |-> text]), !.next = p + (n + 3)],
            id, Append(values, [type |-> "TEXT", v |-> text]), p + (n + 3))
  BY RowGrows
<1> QED BY <1>0, <1>1, <1>3, <1>4

\* deserialize_row reads a value that lies there.
LEMMA ValueRead ==
  ASSUME NEW pages, NEW p \in Nat, NEW value \in Values, Lies(pages, p, value),
         NEW row, NEW id, NEW values, IsRow(row, id, values, p)
  PROVE  IsRow(ReadValue(pages, row), id, Append(values, Kept(value)), p + Width(value))
<1>1. /\ Width(value) \in Nat /\ Width(value) >= 2
      /\ Fields(value)[1] = Cell("type", value.type)
      /\ value.type # "TEXT" => Fields(value)[2] = Cell(value.type, Kept(value).v)
      /\ value.type = "TEXT" =>
           /\ Fields(value)[2] = Cell("len", TextLength[value.v])
           /\ \A k \in 1 .. TextLength[value.v] + 1 : Fields(value)[k + 2] = Char(value.v, k)
  BY FieldsAre
<1>2. /\ p + 1 \in DOMAIN pages
      /\ pages[p] = Cell("type", value.type) /\ pages[p + 1] = Fields(value)[2]
  <2>1. 1 \in 1 .. Width(value) /\ 2 \in 1 .. Width(value) BY <1>1
  <2>2. p + 1 - 1 = p /\ p + 2 - 1 = p + 1 OBVIOUS
  <2>3. pages[p + 1 - 1] = Fields(value)[1] /\ p + 2 - 1 \in DOMAIN pages
        /\ pages[p + 2 - 1] = Fields(value)[2]
    BY <2>1 DEF Lies
  <2> QED BY <1>1, <2>2, <2>3
<1>3. row.read = TRUE /\ row.next = p BY DEF IsRow
<1>4. pages[p].kind = "type" /\ pages[p].v = value.type BY <1>2 DEF Cell
<1>5. CASE value.type # "TEXT"
  <2>1. pages[p + 1].kind = value.type /\ pages[p + 1].v = Kept(value).v BY <1>1, <1>2, <1>5 DEF Cell
  <2>2. Width(value) = 2 /\ Kept(value) = [type |-> value.type, v |-> Kept(value).v]
    BY <1>5 DEF Width, Kept
  <2>3. ReadValue(pages, row)
          = [row EXCEPT !.values = Append(@, [type |-> pages[p].v, v |-> pages[p + 1].v]), !.next = p + 2]
    BY <1>2, <1>3, <1>4, <1>5, <2>1 DEF ReadValue
  <2>4. IsRow([row EXCEPT !.values = Append(@, Kept(value)), !.next = p + 2],
              id, Append(values, Kept(value)), p + 2)
    BY RowGrows
  <2> QED BY <1>4, <2>1, <2>2, <2>3, <2>4
<1>6. CASE value.type = "TEXT"
  <2> DEFINE n == TextLength[value.v]
  <2>1. n \in Nat /\ Width(value) = n + 3 /\ Kept(value) = [type |-> "TEXT", v |-> value.v]
    BY <1>6, ValueIs DEF Width, Kept
  <2>2. pages[p + 1].kind = "len" /\ pages[p + 1].v = n BY <1>1, <1>2, <1>6 DEF Cell
  <2> HIDE DEF n
  <2>3. ASSUME NEW k \in 1 .. n + 1
        PROVE  p + 1 + k \in DOMAIN pages /\ pages[p + 1 + k] = Char(value.v, k)
    <3>1. k + 2 \in 1 .. Width(value) /\ p + (k + 2) - 1 = p + 1 + k BY <2>1
    <3>2. p + (k + 2) - 1 \in DOMAIN pages /\ pages[p + (k + 2) - 1] = Fields(value)[k + 2]
      BY <3>1 DEF Lies
    <3>3. Fields(value)[k + 2] = Char(value.v, k) BY <1>1, <1>6 DEF n
    <3> QED BY <3>1, <3>2, <3>3
  <2>4. pages[p + 2].v = value.v
    <3>1. 1 \in 1 .. n + 1 /\ p + 1 + 1 = p + 2 BY <2>1
    <3>2. pages[p + 2] = Char(value.v, 1) BY <2>3, <3>1
    <3> QED BY <3>2 DEF Char
  <2>5. p + 2 + n \in DOMAIN pages
    <3>1. n + 1 \in 1 .. n + 1 /\ p + 1 + (n + 1) = p + 2 + n BY <2>1
    <3> QED BY <2>3, <3>1
  <2>6. ASSUME NEW k \in 1 .. n + 1
        PROVE  LET c == pages[p + 1 + k] IN c.kind = "char" /\ c.v = value.v /\ c.k = k
    <3>1. pages[p + 1 + k] = Char(value.v, k) BY <2>3
    <3> DEFINE c == pages[p + 1 + k]
    <3>2. c = Char(value.v, k) BY <3>1
    <3> HIDE DEF c
    <3>3. c.kind = "char" /\ c.v = value.v /\ c.k = k BY <3>2 DEF Char
    <3> QED BY <3>3 DEF c
  <2>7. TextLies(pages, p, value.v, n) BY <2>2, <2>4, <2>5, <2>6 DEF TextLies
  <2>8. IsRow(ReadValue(pages, row), id, Append(values, [type |-> "TEXT", v |-> value.v]), p + (n + 3))
    BY <1>2, <1>4, <1>6, <2>7, TextRead
  <2> QED BY <2>1, <2>8
<1> QED BY <1>5, <1>6

\* Whatever it reads, the id stays.
LEMMA ReadKeepsId ==
  ASSUME NEW pages, NEW row, DOMAIN row = RowFields
  PROVE  ReadValue(pages, row).id = row.id /\ DOMAIN ReadValue(pages, row) = RowFields
<1> DEFINE Good(r) == r.id = row.id /\ DOMAIN r = RowFields
           new == ReadValue(pages, row)
<1>1. Good([row EXCEPT !.read = FALSE]) BY DEF RowFields
<1>2. ASSUME NEW w, NEW n PROVE Good([row EXCEPT !.values = Append(@, w), !.next = n]) BY DEF RowFields
<1>3. \/ new = [row EXCEPT !.read = FALSE]
      \/ \E w, n : new = [row EXCEPT !.values = Append(@, w), !.next = n]
  BY DEF ReadValue
<1> HIDE DEF new
<1>4. CASE new = [row EXCEPT !.read = FALSE] BY <1>1, <1>4 DEF new
<1>5. ASSUME NEW w, NEW n, new = [row EXCEPT !.values = Append(@, w), !.next = n]
      PROVE  Good(new)
  BY <1>2, <1>5
<1> QED BY <1>3, <1>4, <1>5 DEF new

\* The row after each value is read.
Unread(pages, address) ==
  [read |-> TRUE, id |-> pages[address].v, values |-> <<>>, next |-> address + 2]
ReadTurns(g, pages, columns, address) ==
  /\ g[0] = Unread(pages, address)
  /\ \A i \in 1 .. Len(columns) : g[i] = ReadValue(pages, g[i - 1])
  /\ Deserialize(pages, columns, address) = g[Len(columns)]

LEMMA ReadTurnsExist ==
  ASSUME NEW columns \in Seq(Columns), NEW pages, NEW address
  PROVE  \E g : ReadTurns(g, pages, columns, address)
<1> DEFINE N == Len(columns)
           base == Unread(pages, address)
           Next1(f, s) == IF s = {} THEN base ELSE ReadValue(pages, f[s \ {Max(s)}])
           Fold(f) == [s \in SUBSET (1 .. N) |-> Next1(f, s)]
           iter == CHOOSE f : f = Fold(f)
           g == [i \in 0 .. N |-> iter[1 .. i]]
           Good(k) == \E f : \A s \in SUBSET (1 .. k) : f[s] = Next1(f, s)
<1>1. N \in Nat /\ DOMAIN columns = 1 .. N OBVIOUS
<1>2. Deserialize(pages, columns, address) = iter[1 .. N]
  BY <1>1 DEF Deserialize, FoldLeft, MapThenFoldSet, Unread
<1> HIDE DEF N, base
<1>3. Good(0)
  <2> DEFINE f == [s \in SUBSET (1 .. 0) |-> base]
  <2>1. SUBSET (1 .. 0) = {{}} OBVIOUS
  <2>2. \A s \in SUBSET (1 .. 0) : f[s] = Next1(f, s) BY <2>1
  <2> HIDE DEF f, Next1
  <2> QED BY <2>2
<1>4. ASSUME NEW k \in Nat, Good(k) PROVE Good(k + 1)
  <2>1. PICK f : \A s \in SUBSET (1 .. k) : f[s] = Next1(f, s) BY <1>4
  <2> DEFINE h == [s \in SUBSET (1 .. k + 1) |->
                     IF k + 1 \in s THEN ReadValue(pages, f[s \ {k + 1}]) ELSE f[s]]
  <2>2. \A s \in SUBSET (1 .. k + 1) :
          IF k + 1 \in s THEN s \ {k + 1} \in SUBSET (1 .. k) ELSE s \in SUBSET (1 .. k)
    OBVIOUS
  <2>3. \A s \in SUBSET (1 .. k) : s \in SUBSET (1 .. k + 1) /\ k + 1 \notin s /\ h[s] = f[s] OBVIOUS
  <2>4. ASSUME NEW s \in SUBSET (1 .. k + 1) PROVE h[s] = Next1(h, s)
    <3>1. CASE k + 1 \in s
      <4>1. Max(s) = k + 1
        <5>1. k + 1 \in Nat /\ s # {} BY <3>1
        <5>2. Max(s) \in s /\ \A y \in s : y <= Max(s) BY <5>1, GreatestIs
        <5>3. Max(s) \in 1 .. k + 1 /\ k + 1 <= Max(s) BY <3>1, <5>2
        <5> QED BY <5>3
      <4>2. s \ {k + 1} \in SUBSET (1 .. k) BY <2>2, <3>1
      <4>3. h[s \ {k + 1}] = f[s \ {k + 1}] BY <2>3, <4>2
      <4>4. h[s] = ReadValue(pages, f[s \ {k + 1}]) BY <3>1
      <4>5. s # {} BY <3>1
      <4> HIDE DEF h
      <4> QED BY <4>1, <4>3, <4>4, <4>5
    <3>2. CASE k + 1 \notin s
      <4>1. s \in SUBSET (1 .. k) BY <2>2, <3>2
      <4>2. h[s] = Next1(f, s) BY <2>1, <2>3, <4>1
      <4>3. s \ {Max(s)} \in SUBSET (1 .. k) BY <4>1
      <4>4. h[s \ {Max(s)}] = f[s \ {Max(s)}] BY <2>3, <4>3
      <4> HIDE DEF h
      <4> QED BY <4>2, <4>4
    <3> QED BY <3>1, <3>2
  <2> HIDE DEF h, Next1
  <2> QED BY <2>4
<1>5. \E f : f = Fold(f)
  <2> DEFINE S == {k \in Nat : Good(k)}
  <2> HIDE DEF Good
  <2>1. 0 \in S /\ \A k \in 0 .. N - 1 : k \in S => k + 1 \in S BY <1>1, <1>3, <1>4
  <2>2. N \in S
    <3> HIDE DEF S
    <3>1. N \in 0 .. N BY <1>1
    <3> QED BY <1>1, <2>1, <3>1, Turns!UpTo
  <2>3. Good(N) BY <2>2
  <2>4. PICK f : \A s \in SUBSET (1 .. N) : f[s] = Next1(f, s) BY <2>3 DEF Good
  <2> DEFINE h == [s \in SUBSET (1 .. N) |-> f[s]]
  <2>5. ASSUME NEW s \in SUBSET (1 .. N) PROVE h[s] = Next1(h, s)
    <3>1. s \ {Max(s)} \in SUBSET (1 .. N) OBVIOUS
    <3>2. h[s] = f[s] /\ h[s \ {Max(s)}] = f[s \ {Max(s)}] BY <3>1
    <3> HIDE DEF h
    <3> QED BY <2>4, <3>2
  <2>6. h = [s \in SUBSET (1 .. N) |-> h[s]] OBVIOUS
  <2> HIDE DEF h, Next1
  <2>7. h = Fold(h) BY <2>5, <2>6
  <2> QED BY <2>7
<1>6. iter = Fold(iter) BY <1>5
<1> HIDE DEF iter
<1>7. g[0] = base
  <2>1. 1 .. 0 = {} /\ 0 \in 0 .. N /\ {} \in SUBSET (1 .. N) BY <1>1
  <2>2. iter[{}] = base BY <1>6, <2>1
  <2> QED BY <2>1, <2>2
<1>8. ASSUME NEW i \in 1 .. N PROVE g[i] = ReadValue(pages, g[i - 1])
  <2>1. 1 .. i \in SUBSET (1 .. N) /\ 1 .. i # {} /\ Max(1 .. i) = i /\ (1 .. i) \ {i} = 1 .. i - 1
    BY <1>1, UpToPlace
  <2>2. iter[1 .. i] = ReadValue(pages, iter[1 .. i - 1]) BY <1>6, <2>1
  <2>3. i \in 0 .. N /\ i - 1 \in 0 .. N BY <1>1
  <2> QED BY <2>2, <2>3
<1>9. Deserialize(pages, columns, address) = g[N]
  <2>1. N \in 0 .. N BY <1>1
  <2> QED BY <1>2, <2>1
<1> HIDE DEF g
<1>10. ReadTurns(g, pages, columns, address) BY <1>7, <1>8, <1>9 DEF ReadTurns, N, base
<1> QED BY <1>10

LEMMA IdIsRead ==
  ASSUME NEW columns \in Seq(Columns), NEW pages, NEW address
  PROVE  Deserialize(pages, columns, address).id = pages[address].v
<1> DEFINE N == Len(columns)
<1>1. PICK g : ReadTurns(g, pages, columns, address) BY ReadTurnsExist
<1>2. N \in Nat OBVIOUS
<1> DEFINE S == {i \in 0 .. N : DOMAIN g[i] = RowFields /\ g[i].id = pages[address].v}
<1>3. 0 \in S
  <2>1. g[0] = Unread(pages, address) BY <1>1 DEF ReadTurns
  <2>2. DOMAIN Unread(pages, address) = RowFields /\ Unread(pages, address).id = pages[address].v
    BY DEF Unread, RowFields
  <2> QED BY <1>2, <2>1, <2>2
<1>4. ASSUME NEW i \in 0 .. N - 1, i \in S PROVE i + 1 \in S
  <2>1. i + 1 \in 1 .. N /\ (i + 1) - 1 = i /\ i + 1 \in 0 .. N BY <1>2
  <2>2. g[i + 1] = ReadValue(pages, g[i]) BY <1>1, <2>1 DEF ReadTurns
  <2>3. ReadValue(pages, g[i]).id = g[i].id /\ DOMAIN ReadValue(pages, g[i]) = RowFields
    BY <1>4, ReadKeepsId
  <2> QED BY <1>4, <2>1, <2>2, <2>3
<1> HIDE DEF S
<1>5. N \in S
  <2>1. N \in 0 .. N BY <1>2
  <2> QED BY <1>2, <1>3, <1>4, <2>1, Turns!UpTo
<1> QED BY <1>1, <1>5 DEF S, ReadTurns

KeptUpTo(values, i) == [j \in 1 .. i |-> Kept(values[j])]

LEMMA KeptGrows ==
  ASSUME NEW values, NEW i \in Nat
  PROVE  /\ KeptUpTo(values, 0) = <<>>
         /\ Append(KeptUpTo(values, i), Kept(values[i + 1])) = KeptUpTo(values, i + 1)
<1> DEFINE E == {Kept(values[j]) : j \in Nat}
           s == KeptUpTo(values, i)
           t == KeptUpTo(values, i + 1)
           x == Kept(values[i + 1])
<1>1. s \in Seq(E) /\ Len(s) = i /\ \A j \in 1 .. i : s[j] = Kept(values[j])
  <2>1. \A j \in 1 .. i : Kept(values[j]) \in E OBVIOUS
  <2> HIDE DEF E
  <2> QED BY <2>1 DEF KeptUpTo
<1>2. t \in Seq(E) /\ Len(t) = i + 1 /\ \A j \in 1 .. i + 1 : t[j] = Kept(values[j])
  <2>1. i + 1 \in Nat /\ \A j \in 1 .. i + 1 : Kept(values[j]) \in E OBVIOUS
  <2> HIDE DEF E
  <2> QED BY <2>1 DEF KeptUpTo
<1>3. x \in E
  <2>1. i + 1 \in Nat OBVIOUS
  <2> QED BY <2>1
<1> HIDE DEF E, s, t
<1>4. Append(s, x) \in Seq(E) /\ Len(Append(s, x)) = i + 1
      /\ (\A j \in 1 .. i : Append(s, x)[j] = s[j]) /\ Append(s, x)[i + 1] = x
  <2> HIDE DEF x
  <2> QED BY <1>1, <1>3
<1>5. \A j \in 1 .. i + 1 : Append(s, x)[j] = t[j]
  <2>1. \A j \in 1 .. i + 1 : j \in 1 .. i \/ j = i + 1 OBVIOUS
  <2> QED BY <1>1, <1>2, <1>4, <2>1
<1>6. Append(s, x) = t
  <2> HIDE DEF x
  <2> QED BY <1>2, <1>4, <1>5
<1>7. KeptUpTo(values, 0) = <<>> BY DEF KeptUpTo
<1> QED BY <1>6, <1>7 DEF s, t

\* The cells of a row are all in the pages.
RowLies(cells, pages, address) ==
  \A k \in 1 .. Len(cells) :
    address + k - 1 \in DOMAIN pages /\ pages[address + k - 1] = cells[k]

ReadBack(row, values) == row.read = TRUE /\ row.values = KeptUpTo(values, Len(values))

\* Such a row is read as it was written.
LEMMA RowIsRead ==
  ASSUME NEW columns \in Seq(Columns), NEW values \in Seq(Values), Len(columns) = Len(values),
         NEW off, Offsets(off, values), NEW cells, Laid(cells, values, off),
         NEW pages, NEW address \in Nat, RowLies(cells, pages, address)
  PROVE  ReadBack(Deserialize(pages, columns, address), values)
<1> DEFINE N == Len(values)
           id == pages[address].v
<1>1. PICK g : ReadTurns(g, pages, columns, address) BY ReadTurnsExist
<1>2. N \in Nat OBVIOUS
<1>3. \A i \in 0 .. N : off[i] \in Nat BY DEF Offsets
<1> HIDE DEF id
<1> DEFINE S == {i \in 0 .. N : IsRow(g[i], id, KeptUpTo(values, i), address + off[i])}
<1>4. 0 \in S
  <2>1. g[0] = Unread(pages, address) BY <1>1 DEF ReadTurns
  <2>2. IsRow(Unread(pages, address), id, <<>>, address + 2)
    BY DEF Unread, IsRow, RowFields, id
  <2>3. KeptUpTo(values, 0) = <<>> BY KeptGrows
  <2>4. off[0] = 2 /\ 0 \in 0 .. N BY <1>2 DEF Offsets
  <2> QED BY <2>1, <2>2, <2>3, <2>4
<1>5. ASSUME NEW i \in 0 .. N - 1, i \in S PROVE i + 1 \in S
  <2> DEFINE n == i + 1
             value == values[n]
             p == address + off[i]
  <2>1. n \in 1 .. N /\ n - 1 = i /\ n \in 0 .. N /\ i \in 0 .. N /\ i \in Nat BY <1>2
  <2>2. IsRow(g[i], id, KeptUpTo(values, i), p) BY <1>5
  <2>3. g[n] = ReadValue(pages, g[i])
    <3>1. n \in 1 .. Len(columns) BY <2>1
    <3> HIDE DEF n
    <3>2. g[n] = ReadValue(pages, g[n - 1]) BY <1>1, <3>1 DEF ReadTurns
    <3> QED BY <2>1, <3>2
  <2> HIDE DEF n
  <2>4. value \in Values BY <2>1
  <2>5. Width(value) \in Nat BY <2>4, FieldsAre
  <2>6. off[i] \in Nat /\ off[n] = off[i] + Width(value) /\ p \in Nat /\ off[n] \in Nat
    BY <1>3, <2>1 DEF Offsets
  <2>7. Lies(pages, p, value)
    <3>1. /\ off[n] <= Len(cells) /\ Len(cells) \in Nat
          /\ \A m \in 1 .. Width(value) : cells[off[i] + m] = Fields(value)[m]
      BY <2>1 DEF Laid
    <3>2. SUFFICES ASSUME NEW m \in 1 .. Width(value)
                   PROVE  p + m - 1 \in DOMAIN pages /\ pages[p + m - 1] = Fields(value)[m]
      BY DEF Lies
    <3>3. off[i] + m \in 1 .. Len(cells) /\ address + (off[i] + m) - 1 = p + m - 1
      <4> DEFINE o == off[i]
                 w == Width(value)
      <4>1. o \in Nat /\ w \in Nat /\ m \in 1 .. w /\ o + w <= Len(cells) /\ Len(cells) \in Nat
        BY <2>5, <2>6, <3>1
      <4> HIDE DEF o, w
      <4>2. o + m \in 1 .. Len(cells) /\ address + (o + m) - 1 = (address + o) + m - 1 BY <4>1
      <4> QED BY <4>2 DEF o
    <3>4. address + (off[i] + m) - 1 \in DOMAIN pages
          /\ pages[address + (off[i] + m) - 1] = cells[off[i] + m]
      BY <3>3 DEF RowLies
    <3> QED BY <3>1, <3>3, <3>4
  <2>8. IsRow(ReadValue(pages, g[i]), id, Append(KeptUpTo(values, i), Kept(value)), p + Width(value))
    BY <2>2, <2>4, <2>6, <2>7, ValueRead
  <2>9. Append(KeptUpTo(values, i), Kept(value)) = KeptUpTo(values, n) BY <2>1, KeptGrows DEF n
  <2>10. p + Width(value) = address + off[n] BY <2>5, <2>6
  <2>11. IsRow(g[n], id, KeptUpTo(values, n), address + off[n]) BY <2>3, <2>8, <2>9, <2>10
  <2> QED BY <2>1, <2>11 DEF n
<1> HIDE DEF S
<1>6. N \in S
  <2>1. N \in 0 .. N BY <1>2
  <2> QED BY <1>2, <1>4, <1>5, <2>1, Turns!UpTo
<1>7. Deserialize(pages, columns, address) = g[N] BY <1>1 DEF ReadTurns
<1> QED BY <1>6, <1>7 DEF S, IsRow, ReadBack

-----------------------------------------------------------------------------
(* Columns and conditions                                                  *)

\* IndexOf finds the first column of the name, if there is one.
LEMMA IndexFound ==
  ASSUME NEW columns \in Seq(Columns), NEW name
  PROVE  LET i == IndexOf(columns, name)
         IN \/ i = 0 /\ \A j \in 1 .. Len(columns) : columns[j].name # name
            \/ i \in 1 .. Len(columns) /\ columns[i].name = name
<1> DEFINE named == {i \in DOMAIN columns : columns[i].name = name}
<1>1. DOMAIN columns = 1 .. Len(columns) /\ Len(columns) \in Nat OBVIOUS
<1>2. named \in SUBSET Nat BY <1>1
<1>3. CASE named = {} BY <1>1, <1>3 DEF IndexOf
<1>4. CASE named # {}
  <2>1. IndexOf(columns, name) = CHOOSE i \in named : \A j \in named : i <= j BY <1>4 DEF IndexOf
  <2>2. \E i \in named : \A j \in named : i <= j
    <3> HIDE DEF named
    <3> QED BY <1>2, <1>4, Turns!LeastExists
  <2>3. IndexOf(columns, name) \in named
    <3> HIDE DEF named
    <3> QED BY <2>1, <2>2
  <2> QED BY <1>1, <2>3
<1> QED BY <1>3, <1>4

\* An INT is told apart from others, and printed, by what it keeps.
LEMMA BitsTell ==
  ASSUME NEW a \in -IntHalf .. IntHalf - 1, NEW b \in -IntHalf .. IntHalf - 1
  PROVE  /\ Bits(a) = IF a < 0 THEN a + 2 * IntHalf ELSE a
         /\ Bits(Bits(a)) = Bits(a) /\ Signed(Bits(a)) = a
         /\ Bits(a) = Bits(b) <=> a = b
         /\ Bits(a) < Bits(b) <=> Less("INT", a, b)
<1> DEFINE m == 2 * IntHalf
<1>1. IntHalf \in Nat \ {0} BY StatementsAssumption
<1>2. ASSUME NEW v \in -IntHalf .. IntHalf - 1
      PROVE  v % m = IF v < 0 THEN v + m ELSE v
  <2>1. m \in Nat \ {0} /\ v \in Int /\ -m < v /\ v < m BY <1>1
  <2> HIDE DEF m
  <2>2. CASE v >= 0
    <3>1. v % m = v BY <2>1, <2>2
    <3> QED BY <2>1, <2>2, <3>1
  <2>3. CASE v < 0
    <3>1. v % m = v + m BY <2>1, <2>3
    <3> QED BY <2>3, <3>1
  <2> QED BY <2>1, <2>2, <2>3
<1>3. Bits(a) = (IF a < 0 THEN a + m ELSE a) /\ Bits(b) = (IF b < 0 THEN b + m ELSE b)
  BY <1>2 DEF Bits
<1>4. ASSUME NEW v \in Nat, v < m PROVE v % m = v
  <2>1. m \in Nat \ {0} BY <1>1
  <2> HIDE DEF m
  <2> QED BY <1>4, <2>1
<1>5. Bits(a) \in Nat /\ Bits(a) < m BY <1>1, <1>3
<1>6. Bits(Bits(a)) = Bits(a) BY <1>4, <1>5 DEF Bits
<1>7. Signed(Bits(a)) = a BY <1>1, <1>3 DEF Signed
<1>8. Bits(a) = Bits(b) <=> a = b BY <1>1, <1>3
<1>9. Bits(a) < Bits(b) <=> Less("INT", a, b) BY <1>1, <1>3 DEF Less
<1> QED BY <1>3, <1>6, <1>7, <1>8, <1>9

LEMMA KeptPrints ==
  ASSUME NEW value \in Values
  PROVE  PrintValue(Kept(value)) = value.v
<1>1. CASE value.type = "INT"
  <2>1. value.v \in -IntHalf .. IntHalf - 1 BY <1>1, ValueIs
  <2>2. Signed(Bits(value.v)) = value.v BY <2>1, BitsTell
  <2> QED BY <1>1, <2>2 DEF PrintValue, Kept
<1>2. CASE value.type # "INT" BY <1>2 DEF PrintValue, Kept
<1> QED BY <1>1, <1>2

\* The values of a row of the table.
RowValues(columns, values) ==
  /\ values \in Seq(Values) /\ Len(values) = Len(columns) /\ TypesMatch(columns, values)

LEMMA ValueOfRow ==
  ASSUME NEW columns \in Seq(Columns), NEW values, RowValues(columns, values),
         NEW i \in 1 .. Len(columns)
  PROVE  /\ values[i] \in Values /\ values[i].type = columns[i].type
         /\ KeptUpTo(values, Len(values))[i] = Kept(values[i])
         /\ Kept(values[i]).type = columns[i].type
         /\ PrintValue(Kept(values[i])) = values[i].v
<1>1. values[i] \in Values /\ i \in DOMAIN columns /\ i \in 1 .. Len(values) BY DEF RowValues
<1>2. values[i].type = columns[i].type BY <1>1 DEF RowValues, TypesMatch
<1>3. KeptUpTo(values, Len(values))[i] = Kept(values[i]) BY <1>1 DEF KeptUpTo
<1>4. Kept(values[i]).type = values[i].type BY DEF Kept
<1>5. PrintValue(Kept(values[i])) = values[i].v BY <1>1, KeptPrints
<1> QED BY <1>1, <1>2, <1>3, <1>4, <1>5

\* The analyzer lets a condition through.
Checked(columns, s) ==
  s.where \in Conditions /\ (HasWhere(s) => AnalyzeWhere(columns, s.where) = "SUCCESS")

\* What evaluate_where_condition decides of a row that was read back is what
\* the condition means of the values inserted.
LEMMA ConditionMeant ==
  ASSUME NEW columns \in Seq(Columns), NEW values, RowValues(columns, values),
         NEW s, Checked(columns, s)
  PROVE  /\ WhereTyped(columns, s, KeptUpTo(values, Len(values)))
         /\ Chosen(columns, s, KeptUpTo(values, Len(values))) <=> Meets(columns, s.where, values)
<1> DEFINE i == IndexOf(columns, s.where.column)
           kept == KeptUpTo(values, Len(values))
           w == s.where.value
           op == s.where.op
<1>1. op \in {"none", "=", "<", ">"} /\ w \in Values BY DEF Checked, Conditions
<1>2. CASE op = "none" BY <1>2 DEF WhereTyped, Chosen, Meets, HasWhere
<1>3. CASE op # "none"
  <2>1. AnalyzeWhere(columns, s.where) = "SUCCESS" BY <1>3 DEF Checked, HasWhere
  <2>2. i # 0 /\ columns[i].type = w.type /\ Compatible(columns[i].type, op)
    BY <2>1 DEF AnalyzeWhere
  <2>3. i \in 1 .. Len(columns)
    <3>1. \/ i = 0
          \/ i \in 1 .. Len(columns)
      BY IndexFound
    <3> QED BY <2>2, <3>1
  <2> DEFINE x == values[i]
             type == x.type
  <2> HIDE DEF i
  <2>4. x \in Values /\ type = w.type /\ kept[i] = Kept(x) /\ Kept(x).type = type
        /\ Compatible(type, op)
    BY <2>2, <2>3, ValueOfRow
  <2>5. WhereTyped(columns, s, kept) BY <2>4 DEF WhereTyped, i
  <2>6. Chosen(columns, s, kept) <=> Compare(type, op, Kept(x).v, w.v)
    BY <1>3, <2>2, <2>4 DEF Chosen, HasWhere, i
  <2>7. Meets(columns, s.where, values) <=>
          CASE op = "=" -> x.v = w.v
            [] op = "<" -> Less(type, x.v, w.v)
            [] op = ">" -> Less(type, w.v, x.v)
    <3>1. CASE op = "=" BY <3>1 DEF Meets, i
    <3>2. CASE op = "<" BY <3>2 DEF Meets, i
    <3>3. CASE op = ">" BY <3>3 DEF Meets, i
    <3> QED BY <1>1, <1>3, <3>1, <3>2, <3>3
  <2> HIDE DEF x, w, op
  <2>8. type \in Types BY <2>4, ValueIs
  <2>9. CASE type = "INT"
    <3>1. x.v \in -IntHalf .. IntHalf - 1 /\ w.v \in -IntHalf .. IntHalf - 1
      BY <2>4, <2>9, <1>1, ValueIs
    <3>2. /\ Bits(Bits(x.v)) = Bits(x.v)
          /\ Bits(x.v) = Bits(w.v) <=> x.v = w.v
          /\ Bits(x.v) < Bits(w.v) <=> Less("INT", x.v, w.v)
          /\ Bits(w.v) < Bits(x.v) <=> Less("INT", w.v, x.v)
      BY <3>1, BitsTell
    <3>3. Bits(x.v) \in Int /\ Bits(w.v) \in Int
      <4>1. IntHalf \in Nat \ {0} BY StatementsAssumption
      <4>2. Bits(x.v) = (IF x.v < 0 THEN x.v + 2 * IntHalf ELSE x.v)
            /\ Bits(w.v) = (IF w.v < 0 THEN w.v + 2 * IntHalf ELSE w.v)
        BY <3>1, BitsTell
      <4> QED BY <3>1, <4>1, <4>2
    <3>4. Kept(x).v = Bits(x.v) BY <2>9 DEF Kept
    <3>5. Compare("INT", op, Bits(x.v), w.v) <=>
            \/ op = "=" /\ Bits(x.v) = Bits(w.v)
            \/ op = "<" /\ Bits(x.v) < Bits(w.v)
            \/ op = ">" /\ Bits(x.v) > Bits(w.v)
      BY <3>2 DEF Compare
    <3>6. Bits(x.v) > Bits(w.v) <=> Bits(w.v) < Bits(x.v) BY <3>3
    <3> HIDE DEF type
    <3> QED BY <1>1, <1>3, <2>5, <2>6, <2>7, <2>9, <3>2, <3>4, <3>5, <3>6
  <2>10. CASE type = "REAL"
    <3>1. x.v \in Int /\ w.v \in Int BY <1>1, <2>4, <2>10, ValueIs
    <3>2. Kept(x).v = x.v BY <2>10 DEF Kept
    <3>3. Compare("REAL", op, x.v, w.v) <=>
            \/ op = "=" /\ x.v = w.v
            \/ op = "<" /\ x.v < w.v
            \/ op = ">" /\ w.v < x.v
      BY <3>1 DEF Compare
    <3>4. (Less("REAL", x.v, w.v) <=> x.v < w.v) /\ (Less("REAL", w.v, x.v) <=> w.v < x.v)
      BY DEF Less
    <3> HIDE DEF type
    <3> QED BY <1>1, <1>3, <2>5, <2>6, <2>7, <2>10, <3>2, <3>3, <3>4
  <2>11. CASE type \in {"TEXT", "BOOL"}
    <3>1. op = "=" BY <2>4, <2>11 DEF Compatible
    <3>2. Kept(x).v = x.v BY <2>11 DEF Kept
    <3>3. Compare(type, "=", x.v, w.v) <=> x.v = w.v BY <2>11 DEF Compare
    <3> HIDE DEF type
    <3> QED BY <2>5, <2>6, <2>7, <3>1, <3>2, <3>3
  <2> QED BY <2>8, <2>9, <2>10, <2>11 DEF Types
<1> QED BY <1>2, <1>3

\* What a SELECT shows of the values of a row.
Shown(columns, s, values) ==
  IF s.all THEN [k \in DOMAIN values |-> values[k].v]
  ELSE [k \in DOMAIN s.list |-> values[IndexOf(columns, s.list[k])].v]

LEMMA PrintMeant ==
  ASSUME NEW columns \in Seq(Columns), NEW values, RowValues(columns, values),
         NEW s, s.all \/ ColumnsKnown(columns, s.list)
  PROVE  /\ PrintTyped(columns, s, KeptUpTo(values, Len(values)))
         /\ PrintRow(columns, s, KeptUpTo(values, Len(values))) = Shown(columns, s, values)
<1> DEFINE kept == KeptUpTo(values, Len(values))
           place == Printed(columns, s)
<1>1. DOMAIN values = 1 .. Len(columns) /\ DOMAIN columns = 1 .. Len(columns) BY DEF RowValues
<1>2. ASSUME NEW k \in DOMAIN place PROVE place[k] \in 1 .. Len(columns)
  <2>1. CASE s.all BY <2>1, <1>1, <1>2 DEF Printed
  <2>2. CASE ~s.all
    <3>1. k \in DOMAIN s.list /\ place[k] = IndexOf(columns, s.list[k]) BY <2>2, <1>2 DEF Printed
    <3>2. IndexOf(columns, s.list[k]) # 0 BY <2>2, <3>1 DEF ColumnsKnown
    <3>3. \/ IndexOf(columns, s.list[k]) = 0
          \/ IndexOf(columns, s.list[k]) \in 1 .. Len(columns)
      BY IndexFound
    <3> QED BY <3>1, <3>2, <3>3
  <2> QED BY <2>1, <2>2
<1>3. ASSUME NEW k \in DOMAIN place
      PROVE  /\ place[k] # 0 /\ kept[place[k]].type = columns[place[k]].type
             /\ PrintValue(kept[place[k]]) = values[place[k]].v
  <2>1. place[k] \in 1 .. Len(columns) BY <1>2
  <2> HIDE DEF place
  <2> QED BY <2>1, ValueOfRow
<1>4. PrintTyped(columns, s, kept) BY <1>3 DEF PrintTyped
<1>5. PrintRow(columns, s, kept) = [k \in DOMAIN place |-> values[place[k]].v]
  BY <1>3 DEF PrintRow
<1>6. [k \in DOMAIN place |-> values[place[k]].v] = Shown(columns, s, values)
  <2>1. CASE s.all BY <2>1, <1>1, Zenon DEF Printed, Shown
  <2>2. CASE ~s.all BY <2>2, Zenon DEF Printed, Shown
  <2> QED BY <2>1, <2>2
<1> QED BY <1>4, <1>5, <1>6

-----------------------------------------------------------------------------
(* The rows in their slots                                                 *)

\* Slot i holds the row, as far as it has room for it.
Holds(columns, pages, i, r) ==
  LET cells == Serialize(r.id, RowSize(columns), r.values)
  IN \A k \in 1 .. RowSize(columns) :
       k <= Len(cells) => pages[Address(columns, i) + k - 1] = cells[k]

IdAt(columns, pages, i) == pages[Address(columns, i)].v

\* What is known of a row that a table holds.
RowFor(columns, next, r) == r.id \in 1 .. next - 1 /\ RowValues(columns, r.values)

\* Every slot below num_rows holds a row, and every row lies in one of them.
RowsOK(columns, n, next, pages, rows) ==
  /\ Tabular(columns) /\ n \in 0 .. MaxRows /\ next \in 1 .. MaxId + 1
  /\ DOMAIN pages = DOMAIN Blank
  /\ \A i \in 0 .. n - 1 : i \div RowsPerPage(columns) < MaxPages
  /\ IsFiniteSet(rows) /\ Cardinality(rows) = n
  /\ \A r \in rows : RowFor(columns, next, r)
  /\ \A r, s \in rows : r.id = s.id => r = s
  /\ \A i \in 0 .. n - 1 : \E r \in rows : Holds(columns, pages, i, r)
  /\ \A r \in rows : \E i \in 0 .. n - 1 : Holds(columns, pages, i, r)
  /\ \A i, j \in 0 .. n - 1 : IdAt(columns, pages, i) = IdAt(columns, pages, j) => i = j

LEMMA CellsOfRow ==
  ASSUME NEW columns, Tabular(columns), NEW values, RowValues(columns, values), NEW id \in Nat
  PROVE  LET cells == Serialize(id, RowSize(columns), values)
         IN /\ cells \in Seq(Cells) /\ Len(cells) \in Nat /\ Len(cells) >= 1
            /\ cells[1] = Cell("id", id)
            /\ Len(Serialize(0, 0, values)) = Len(cells)
<1>1. RowSize(columns) \in Nat /\ 0 \in Nat BY PageHoldsRows
<1>2. values \in Seq(Values) BY DEF RowValues
<1>3. PICK off : /\ Offsets(off, values)
                 /\ \A i \in Nat, size \in Nat :
                      /\ Laid(Serialize(i, size, values), values, off)
                      /\ Serialize(i, size, values)[1] = Cell("id", i)
  BY <1>2, SerializeIs
<1> DEFINE cells == Serialize(id, RowSize(columns), values)
           N == Len(values)
<1>4. Laid(cells, values, off) /\ cells[1] = Cell("id", id) /\ Laid(Serialize(0, 0, values), values, off)
  BY <1>1, <1>3
<1>5. cells \in Seq(Cells) /\ Len(cells) = off[N] /\ Len(Serialize(0, 0, values)) = off[N]
  BY <1>4 DEF Laid
<1>6. Len(cells) \in Nat BY <1>5
<1>7. Len(cells) >= 1
  <2>1. N \in Nat BY <1>2
  <2>2. CASE N = 0 BY <2>2, <1>5, <1>3 DEF Offsets
  <2>3. CASE N # 0
    <3>1. 1 \in 1 .. N /\ 1 - 1 = 0 BY <2>1, <2>3
    <3>2. off[1] <= Len(cells) BY <1>4, <3>1 DEF Laid
    <3>3. off[1] = off[0] + Width(values[1]) /\ off[0] = 2 BY <1>3, <3>1 DEF Offsets
    <3>4. Width(values[1]) \in Nat BY <1>2, <3>1, FieldsAre
    <3> QED BY <1>6, <3>2, <3>3, <3>4
  <2> QED BY <2>2, <2>3
<1> QED BY <1>4, <1>5, <1>6, <1>7

LEMMA HoldsId ==
  ASSUME NEW columns, NEW next \in Nat, NEW pages, Tabular(columns), NEW i \in Nat,
         NEW r, RowFor(columns, next, r), Holds(columns, pages, i, r)
  PROVE  IdAt(columns, pages, i) = r.id
<1> DEFINE cells == Serialize(r.id, RowSize(columns), r.values)
           size == RowSize(columns)
           a == Address(columns, i)
<1>1. r.id \in Nat /\ RowValues(columns, r.values) BY DEF RowFor
<1>2. Len(cells) \in Nat /\ Len(cells) >= 1 /\ cells[1] = Cell("id", r.id) BY <1>1, CellsOfRow
<1>3. size \in Nat \ {0} BY PageHoldsRows
<1>4. a \in Nat BY SlotInPage
<1>5. \A k \in 1 .. size : k <= Len(cells) => pages[a + k - 1] = cells[k] BY DEF Holds
<1> HIDE DEF cells, size, a
<1>6. 1 \in 1 .. size /\ 1 <= Len(cells) /\ a + 1 - 1 = a BY <1>2, <1>3, <1>4
<1>7. pages[a] = Cell("id", r.id) BY <1>2, <1>5, <1>6
<1> QED BY <1>7 DEF IdAt, a, Cell

\* The slots of a table lie inside its pages.
LEMMA SlotInPages ==
  ASSUME NEW columns, Tabular(columns), NEW pages, DOMAIN pages = DOMAIN Blank,
         NEW i \in Nat, i \div RowsPerPage(columns) < MaxPages,
         NEW k \in 1 .. RowSize(columns)
  PROVE  Address(columns, i) + k - 1 \in DOMAIN pages
<1> DEFINE a == Address(columns, i)
           room == MaxPages * PageSize
<1>1. a \in Nat /\ a + RowSize(columns) <= PageEnd(columns, i) /\ PageEnd(columns, i) <= room
  BY SlotInPage
<1>2. RowSize(columns) \in Nat /\ RowsPerPage(columns) \in Nat \ {0} BY PageHoldsRows
<1>3. room \in Nat
  <2>1. MaxPages \in Nat /\ PageSize \in Nat BY StatementsAssumption
  <2> QED BY <2>1, ProductGrows
<1>4. PageEnd(columns, i) \in Nat
  <2> DEFINE p == i \div RowsPerPage(columns)
  <2>1. p \in Nat BY <1>2, QuotientIs
  <2>2. PageSize \in Nat /\ p + 1 \in Nat BY <2>1, StatementsAssumption
  <2>3. (p + 1) * PageSize \in Nat
    <3> HIDE DEF p
    <3> QED BY <2>2, ProductGrows
  <2> QED BY <2>3 DEF PageEnd
<1>5. DOMAIN pages = 0 .. room - 1 BY DEF Blank
<1> HIDE DEF a, room
<1>6. a + k - 1 \in 0 .. room - 1 BY <1>1, <1>2, <1>3, <1>4
<1> QED BY <1>5, <1>6 DEF a

\* A row that fits is read back as it was inserted.
LEMMA FittingRead ==
  ASSUME NEW columns, NEW next \in Nat, NEW pages, Tabular(columns), DOMAIN pages = DOMAIN Blank,
         NEW i \in Nat, i \div RowsPerPage(columns) < MaxPages,
         NEW r, RowFor(columns, next, r), Holds(columns, pages, i, r), Fitting(columns, r.values)
  PROVE  ReadBack(Deserialize(pages, columns, Address(columns, i)), r.values)
<1> DEFINE values == r.values
           size == RowSize(columns)
           cells == Serialize(r.id, size, values)
           a == Address(columns, i)
<1>1. r.id \in Nat /\ RowValues(columns, values) BY DEF RowFor
<1>2. Len(cells) \in Nat /\ Len(cells) = Len(Serialize(0, 0, values)) BY <1>1, CellsOfRow
<1>3. Len(cells) <= size BY <1>2 DEF Fitting
<1>4. size \in Nat BY PageHoldsRows
<1>5. values \in Seq(Values) /\ Len(columns) = Len(values) /\ columns \in Seq(Columns)
  BY <1>1 DEF RowValues, Tabular
<1>6. PICK off : /\ Offsets(off, values)
                 /\ \A id \in Nat, z \in Nat :
                      /\ Laid(Serialize(id, z, values), values, off)
                      /\ Serialize(id, z, values)[1] = Cell("id", id)
  BY <1>5, SerializeIs
<1>7. Laid(cells, values, off) /\ Offsets(off, values) BY <1>1, <1>4, <1>6
<1>8. a \in Nat BY SlotInPage
<1>9. ASSUME NEW k \in 1 .. Len(cells)
      PROVE  a + k - 1 \in DOMAIN pages /\ pages[a + k - 1] = cells[k]
  <2>1. k \in 1 .. size /\ k <= Len(cells)
    <3> HIDE DEF cells, size
    <3> QED BY <1>2, <1>3, <1>4
  <2>2. a + k - 1 \in DOMAIN pages BY <2>1, SlotInPages
  <2> QED BY <2>1, <2>2 DEF Holds
<1> HIDE DEF cells, a, values
<1>10. RowLies(cells, pages, a) BY <1>9 DEF RowLies
<1>11. ReadBack(Deserialize(pages, columns, a), values)
  <2>1. columns \in Seq(Columns) BY <1>5
  <2>2. values \in Seq(Values) BY <1>5
  <2>3. Len(columns) = Len(values) BY <1>5
  <2>4. Offsets(off, values) BY <1>7
  <2>5. Laid(cells, values, off) BY <1>7
  <2> QED BY <2>1, <2>2, <2>3, <2>4, <2>5, <1>8, <1>10, RowIsRead, Zenon
<1> QED BY <1>11 DEF a, values

\* A slot copied, or left alone, holds what it held.
LEMMA SameSlot ==
  ASSUME NEW columns, Tabular(columns), NEW pages, NEW after, NEW i \in Nat, NEW j \in Nat,
         \A k \in 1 .. RowSize(columns) :
           after[Address(columns, j) + k - 1] = pages[Address(columns, i) + k - 1]
  PROVE  /\ IdAt(columns, after, j) = IdAt(columns, pages, i)
         /\ \A r : Holds(columns, pages, i, r) => Holds(columns, after, j, r)
<1>1. RowSize(columns) \in Nat \ {0} BY PageHoldsRows
<1>2. Address(columns, i) \in Nat /\ Address(columns, j) \in Nat BY SlotInPage
<1>3. IdAt(columns, after, j) = IdAt(columns, pages, i)
  <2> DEFINE a == Address(columns, i)
             b == Address(columns, j)
  <2>1. \A k \in 1 .. RowSize(columns) : after[b + k - 1] = pages[a + k - 1] OBVIOUS
  <2>2. a \in Nat /\ b \in Nat BY <1>2
  <2> HIDE DEF a, b
  <2>3. 1 \in 1 .. RowSize(columns) /\ b + 1 - 1 = b /\ a + 1 - 1 = a BY <1>1, <2>2
  <2>4. after[b] = pages[a] BY <2>1, <2>3
  <2> QED BY <2>4 DEF IdAt, a, b
<1>4. ASSUME NEW r, Holds(columns, pages, i, r) PROVE Holds(columns, after, j, r)
  BY <1>4 DEF Holds
<1> QED BY <1>3, <1>4

\* The ids in the slots are those of the rows.
LEMMA SlotIsRow ==
  ASSUME NEW columns, NEW n, NEW next, NEW pages, NEW rows, RowsOK(columns, n, next, pages, rows)
  PROVE  /\ \A i \in 0 .. n - 1 : \A r \in rows :
              Holds(columns, pages, i, r) <=> r.id = IdAt(columns, pages, i)
         /\ \A i \in 0 .. n - 1 : \E r \in rows : r.id = IdAt(columns, pages, i)
         /\ \A r \in rows : \E i \in 0 .. n - 1 : r.id = IdAt(columns, pages, i)
<1>1. Tabular(columns) /\ n \in Nat /\ next \in Nat
  <2>1. MaxRows \in Nat /\ MaxId \in Nat BY StatementsAssumption
  <2> QED BY <2>1 DEF RowsOK
<1>2. ASSUME NEW i \in 0 .. n - 1, NEW r \in rows, Holds(columns, pages, i, r)
      PROVE  IdAt(columns, pages, i) = r.id
  <2>1. i \in Nat /\ RowFor(columns, next, r) BY <1>1 DEF RowsOK
  <2> QED BY <1>1, <1>2, <2>1, HoldsId
<1>3. ASSUME NEW i \in 0 .. n - 1 PROVE \E r \in rows : Holds(columns, pages, i, r) BY DEF RowsOK
<1>4. ASSUME NEW i \in 0 .. n - 1, NEW r \in rows, r.id = IdAt(columns, pages, i)
      PROVE  Holds(columns, pages, i, r)
  <2>1. PICK s \in rows : Holds(columns, pages, i, s) BY <1>3
  <2>2. s.id = r.id BY <1>2, <1>4, <2>1
  <2>3. s = r BY <2>2 DEF RowsOK
  <2> QED BY <2>1, <2>3
<1>5. ASSUME NEW r \in rows PROVE \E i \in 0 .. n - 1 : r.id = IdAt(columns, pages, i)
  <2>1. PICK i \in 0 .. n - 1 : Holds(columns, pages, i, r) BY DEF RowsOK
  <2> QED BY <2>1, <1>2
<1>6. ASSUME NEW i \in 0 .. n - 1 PROVE \E r \in rows : r.id = IdAt(columns, pages, i)
  BY <1>2, <1>3
<1> QED BY <1>2, <1>4, <1>5, <1>6

\* The cells are in the slot, and in what lies behind it of the page.
Placed(columns, n, pages, cells, after) ==
  LET from == Address(columns, n)
  IN after = [a \in DOMAIN pages |->
                IF a \in from .. from + Len(cells) - 1 THEN cells[a - from + 1] ELSE pages[a]]

\* INSERT keeps the rows there are, and lays down one more.
LEMMA InsertKeeps ==
  ASSUME NEW columns, NEW n, NEW next, NEW pages, NEW rows, RowsOK(columns, n, next, pages, rows),
         n < MaxRows, next <= MaxId, n \div RowsPerPage(columns) < MaxPages,
         NEW r, r.id = next, RowValues(columns, r.values),
         NEW after,
         Placed(columns, n, pages, Serialize(r.id, RowSize(columns), r.values), after)
  PROVE  /\ RowsOK(columns, n + 1, next + 1, after, rows \cup {r})
         /\ r \notin rows
<1> DEFINE size == RowSize(columns)
           cells == Serialize(r.id, size, r.values)
           from == Address(columns, n)
<1>1. Tabular(columns) /\ n \in Nat /\ next \in Nat /\ next # 0 /\ MaxRows \in Nat /\ MaxId \in Nat
  <2>1. MaxRows \in Nat /\ MaxId \in Nat BY StatementsAssumption
  <2> QED BY <2>1 DEF RowsOK
<1>2. size \in Nat \ {0} BY <1>1, PageHoldsRows
<1>3. from \in Nat BY <1>1, SlotInPage
<1>4. Len(cells) \in Nat /\ Len(cells) >= 1 BY <1>1, CellsOfRow
<1>5. DOMAIN pages = DOMAIN Blank BY DEF RowsOK
<1>6. /\ DOMAIN after = DOMAIN pages
      /\ \A a \in DOMAIN pages :
           after[a] = IF a \in from .. from + Len(cells) - 1 THEN cells[a - from + 1] ELSE pages[a]
  BY DEF Placed
<1>7. \A i \in 0 .. n : i \div RowsPerPage(columns) < MaxPages
  <2>1. \A i \in 0 .. n - 1 : i \div RowsPerPage(columns) < MaxPages BY DEF RowsOK
  <2>2. \A i \in 0 .. n : i \in 0 .. n - 1 \/ i = n BY <1>1
  <2> QED BY <2>1, <2>2
<1>8. Holds(columns, after, n, r)
  <2>1. SUFFICES ASSUME NEW k \in 1 .. size, k <= Len(cells)
                 PROVE  after[from + k - 1] = cells[k]
    BY DEF Holds
  <2>2. from + k - 1 \in DOMAIN pages BY <1>1, <1>5, SlotInPages
  <2>3. from + k - 1 \in from .. from + Len(cells) - 1 /\ (from + k - 1) - from + 1 = k
    <3> HIDE DEF from, cells, size
    <3> QED BY <1>2, <1>3, <1>4, <2>1
  <2> HIDE DEF from, cells, size
  <2> QED BY <1>6, <2>2, <2>3
<1>9. ASSUME NEW i \in 0 .. n - 1
      PROVE  /\ IdAt(columns, after, i) = IdAt(columns, pages, i)
             /\ \A s : Holds(columns, pages, i, s) => Holds(columns, after, i, s)
  <2>1. i \in Nat /\ i < n /\ i \in 0 .. n BY <1>1
  <2> DEFINE a == Address(columns, i)
  <2>2. a \in Nat /\ a + size <= from BY <1>1, <2>1, SlotInPage, SlotsApart
  <2>3. ASSUME NEW k \in 1 .. size PROVE after[a + k - 1] = pages[a + k - 1]
    <3>1. a + k - 1 \in DOMAIN pages BY <1>1, <1>5, <1>7, <2>1, SlotInPages
    <3> HIDE DEF a, from, size, cells
    <3>2. a + k - 1 \notin from .. from + Len(cells) - 1 BY <1>2, <1>3, <2>2
    <3> QED BY <1>6, <3>1, <3>2
  <2> QED BY <1>1, <2>1, <2>3, SameSlot
<1>10. \A s \in rows : s.id \in 1 .. next - 1 BY DEF RowsOK, RowFor
<1>11. IdAt(columns, after, n) = next
  <2>1. RowFor(columns, next + 1, r) /\ next + 1 \in Nat BY <1>1 DEF RowFor
  <2> QED BY <1>1, <1>8, <2>1, HoldsId
<1>12. r \notin rows BY <1>1, <1>10
<1>13. \A i \in 0 .. n - 1 : IdAt(columns, after, i) \in 1 .. next - 1
  <2>1. TAKE i \in 0 .. n - 1
  <2>2. PICK s \in rows : s.id = IdAt(columns, pages, i) BY SlotIsRow
  <2> QED BY <1>9, <1>10, <2>2
<1> HIDE DEF cells, from, size
<1>14. n + 1 \in 0 .. MaxRows /\ next + 1 \in 1 .. MaxId + 1 BY <1>1
<1>15. 0 .. (n + 1) - 1 = 0 .. n /\ n \in 0 .. n BY <1>1
<1>16. \A i \in 0 .. n : i \in 0 .. n - 1 \/ i = n BY <1>1
<1>17. IsFiniteSet(rows \cup {r}) /\ Cardinality(rows \cup {r}) = n + 1
  BY <1>12, FS_AddElement DEF RowsOK
<1>18. ASSUME NEW s \in rows \cup {r} PROVE RowFor(columns, next + 1, s)
  <2>1. CASE s \in rows
    <3>1. s.id \in 1 .. next - 1 /\ RowValues(columns, s.values) BY <2>1 DEF RowsOK, RowFor
    <3>2. s.id \in 1 .. (next + 1) - 1 BY <1>1, <3>1
    <3> QED BY <3>1, <3>2 DEF RowFor
  <2>2. CASE s = r
    <3>1. r.id \in 1 .. (next + 1) - 1 BY <1>1
    <3> QED BY <2>2, <3>1 DEF RowFor
  <2> QED BY <2>1, <2>2
<1>19. ASSUME NEW s \in rows \cup {r}, NEW u \in rows \cup {r}, s.id = u.id PROVE s = u
  <2>1. \A x, y \in rows : x.id = y.id => x = y BY DEF RowsOK
  <2>2. \A x \in rows : x.id # r.id BY <1>1, <1>10
  <2> QED BY <1>19, <2>1, <2>2
<1>20. ASSUME NEW i \in 0 .. n PROVE \E s \in rows \cup {r} : Holds(columns, after, i, s)
  <2>1. CASE i \in 0 .. n - 1
    <3>1. PICK s \in rows : Holds(columns, pages, i, s) BY <2>1 DEF RowsOK
    <3> QED BY <1>9, <2>1, <3>1
  <2>2. CASE i = n BY <1>8, <2>2
  <2> QED BY <1>16, <2>1, <2>2
<1>21. ASSUME NEW s \in rows \cup {r} PROVE \E i \in 0 .. n : Holds(columns, after, i, s)
  <2>1. CASE s \in rows
    <3>1. PICK i \in 0 .. n - 1 : Holds(columns, pages, i, s) BY <2>1 DEF RowsOK
    <3>2. i \in 0 .. n BY <1>1
    <3> QED BY <1>9, <3>1, <3>2
  <2>2. CASE s = r BY <1>8, <1>15, <2>2
  <2> QED BY <2>1, <2>2
<1>22. ASSUME NEW i \in 0 .. n, NEW j \in 0 .. n,
              IdAt(columns, after, i) = IdAt(columns, after, j)
       PROVE  i = j
  <2>1. CASE i \in 0 .. n - 1 /\ j \in 0 .. n - 1
    <3>1. \A x, y \in 0 .. n - 1 : IdAt(columns, pages, x) = IdAt(columns, pages, y) => x = y
      BY DEF RowsOK
    <3> QED BY <1>9, <1>22, <2>1, <3>1
  <2>2. CASE i = n /\ j \in 0 .. n - 1 BY <1>1, <1>11, <1>13, <1>22, <2>2
  <2>3. CASE i \in 0 .. n - 1 /\ j = n BY <1>1, <1>11, <1>13, <1>22, <2>3
  <2> QED BY <1>16, <2>1, <2>2, <2>3
<1> QED BY <1>1, <1>5, <1>6, <1>7, <1>12, <1>14, <1>15, <1>17, <1>18, <1>19, <1>20, <1>21, <1>22
       DEF RowsOK

\* The last of n slots is copied into slot i.
Moved(columns, n, i, pages, after) ==
  LET last == Address(columns, n - 1)
      first == Address(columns, i)
  IN after = [a \in DOMAIN pages |->
                IF a \in first .. first + RowSize(columns) - 1 THEN pages[last + a - first] ELSE pages[a]]

\* The rows and the slots but for the row that was in slot i.
OneGone(columns, n, next, pages, rows, i, after, gone) ==
  /\ {r \in rows : r.id # gone.id} = rows \ {gone}
  /\ RowsOK(columns, n - 1, next, after, rows \ {gone})
  /\ \A j \in 0 .. n - 2 : j # i => IdAt(columns, after, j) = IdAt(columns, pages, j)

\* DELETE takes one row out, and moves one at most.
LEMMA DeleteKeeps ==
  ASSUME NEW columns, NEW n, NEW next, NEW pages, NEW rows, RowsOK(columns, n, next, pages, rows),
         NEW i \in 0 .. n - 1, NEW after, Moved(columns, n, i, pages, after),
         NEW gone \in rows, gone.id = IdAt(columns, pages, i)
  PROVE  OneGone(columns, n, next, pages, rows, i, after, gone)
<1> DEFINE size == RowSize(columns)
           last == Address(columns, n - 1)
           first == Address(columns, i)
           left == rows \ {gone}
           from(j) == IF j = i THEN n - 1 ELSE j
<1>1. Tabular(columns) /\ n \in Nat /\ n \in 0 .. MaxRows /\ MaxRows \in Nat /\ i \in Nat
      /\ next \in 1 .. MaxId + 1 /\ n - 1 \in Nat
  <2>1. MaxRows \in Nat /\ MaxId \in Nat BY StatementsAssumption
  <2>2. Tabular(columns) /\ n \in 0 .. MaxRows /\ next \in 1 .. MaxId + 1 BY DEF RowsOK
  <2> QED BY <2>1, <2>2
<1>2. size \in Nat \ {0} BY <1>1, PageHoldsRows
<1>3. last \in Nat /\ first \in Nat BY <1>1, SlotInPage
<1>4. DOMAIN pages = DOMAIN Blank /\ \A j \in 0 .. n - 1 : j \div RowsPerPage(columns) < MaxPages
  BY DEF RowsOK
<1>5. /\ DOMAIN after = DOMAIN pages
      /\ \A a \in DOMAIN pages :
           after[a] = IF a \in first .. first + size - 1 THEN pages[last + a - first] ELSE pages[a]
  BY DEF Moved
<1>6. ASSUME NEW j \in 0 .. n - 2
      PROVE  /\ from(j) \in 0 .. n - 1 /\ from(j) # i /\ from(j) \in Nat /\ j \in Nat /\ j \in 0 .. n - 1
             /\ IdAt(columns, after, j) = IdAt(columns, pages, from(j))
             /\ \A s : Holds(columns, pages, from(j), s) => Holds(columns, after, j, s)
  <2>1. /\ from(j) \in 0 .. n - 1 /\ from(j) # i /\ from(j) \in Nat /\ j \in Nat /\ j \in 0 .. n - 1
    BY <1>1
  <2> DEFINE a == Address(columns, j)
             b == Address(columns, from(j))
  <2>2. a \in Nat BY <1>1, <2>1, SlotInPage
  <2>3. ASSUME NEW k \in 1 .. size PROVE after[a + k - 1] = pages[b + k - 1]
    <3>1. a + k - 1 \in DOMAIN pages BY <1>1, <1>4, <2>1, SlotInPages
    <3>2. CASE j = i
      <4>1. a = first /\ b = last BY <3>2
      <4> HIDE DEF a, b, first, last, size
      <4>2. a + k - 1 \in first .. first + size - 1 /\ last + (a + k - 1) - first = b + k - 1
        BY <1>2, <1>3, <4>1
      <4> QED BY <1>5, <3>1, <4>2
    <3>3. CASE j # i
      <4>1. a = b BY <3>3
      <4>2. a + size <= first \/ first + size <= a
        <5>1. j < i \/ i < j BY <1>1, <2>1, <3>3
        <5> QED BY <1>1, <2>1, <5>1, SlotsApart
      <4> HIDE DEF a, b, first, last, size
      <4>3. a + k - 1 \notin first .. first + size - 1 BY <1>2, <1>3, <2>2, <4>2
      <4> QED BY <1>5, <3>1, <4>1, <4>3
    <3> QED BY <3>2, <3>3
  <2> HIDE DEF from
  <2>4. /\ IdAt(columns, after, j) = IdAt(columns, pages, from(j))
        /\ \A s : Holds(columns, pages, from(j), s) => Holds(columns, after, j, s)
    BY <1>1, <2>1, <2>3, SameSlot
  <2> QED BY <2>1, <2>4
<1>7. \A r, s \in rows : r.id = s.id => r = s BY DEF RowsOK
<1>8. {r \in rows : r.id # gone.id} = left BY <1>7
<1>9. \A x, y \in 0 .. n - 1 : IdAt(columns, pages, x) = IdAt(columns, pages, y) => x = y BY DEF RowsOK
<1>10. ASSUME NEW j \in 0 .. n - 2 PROVE \E s \in left : Holds(columns, after, j, s)
  <2>1. PICK s \in rows : Holds(columns, pages, from(j), s) BY <1>6 DEF RowsOK
  <2>2. s.id = IdAt(columns, pages, from(j)) BY <1>6, <2>1, SlotIsRow
  <2>3. s # gone BY <1>6, <1>9, <2>2
  <2> QED BY <1>6, <2>1, <2>3
<1>11. ASSUME NEW s \in left PROVE \E j \in 0 .. n - 2 : Holds(columns, after, j, s)
  <2>1. PICK x \in 0 .. n - 1 : Holds(columns, pages, x, s) BY DEF RowsOK
  <2>2. x # i
    <3>1. s.id = IdAt(columns, pages, x) BY <2>1, SlotIsRow
    <3>2. s.id # gone.id BY <1>8
    <3> QED BY <3>1, <3>2
  <2>3. CASE x = n - 1
    <3>1. i \in 0 .. n - 2 /\ from(i) = x BY <1>1, <2>2, <2>3
    <3> QED BY <1>6, <2>1, <3>1
  <2>4. CASE x # n - 1
    <3>1. x \in 0 .. n - 2 /\ from(x) = x BY <1>1, <2>2, <2>4
    <3> QED BY <1>6, <2>1, <3>1
  <2> QED BY <2>3, <2>4
<1>12. ASSUME NEW x \in 0 .. n - 2, NEW y \in 0 .. n - 2,
              IdAt(columns, after, x) = IdAt(columns, after, y)
       PROVE  x = y
  <2>1. from(x) = from(y) BY <1>6, <1>9, <1>12
  <2> QED BY <1>1, <2>1
<1>13. IsFiniteSet(left) /\ Cardinality(left) = n - 1
  BY FS_RemoveElement DEF RowsOK
<1>14. \A r \in left : RowFor(columns, next, r) BY DEF RowsOK
<1>15. n - 1 \in 0 .. MaxRows /\ 0 .. (n - 1) - 1 = 0 .. n - 2 BY <1>1
<1>16. RowsOK(columns, n - 1, next, after, left)
  <2>1. \A j \in 0 .. (n - 1) - 1 : j \div RowsPerPage(columns) < MaxPages BY <1>4, <1>6, <1>15
  <2> HIDE DEF left, size, first, last, from
  <2>2. \A r, s \in left : r.id = s.id => r = s BY <1>7 DEF left
  <2> QED BY <1>1, <1>4, <1>5, <1>10, <1>11, <1>12, <1>13, <1>14, <1>15, <2>1, <2>2 DEF RowsOK
<1>17. \A j \in 0 .. n - 2 : j # i => IdAt(columns, after, j) = IdAt(columns, pages, j) BY <1>6
<1> QED BY <1>8, <1>16, <1>17 DEF OneGone

-----------------------------------------------------------------------------
(* Tables                                                                  *)

\* A name is given another end.
LEMMA EndChanged ==
  ASSUME NEW h \in STRING, NEW f \in BOOLEAN, NEW t \in Tails, NEW type \in ColumnTypes, NEW z \in Tails
  PROVE  [[name |-> [head |-> h, full |-> f, tail |-> t], type |-> type] EXCEPT !.name.tail = z]
           = [name |-> [head |-> h, full |-> f, tail |-> z], type |-> type]
<1> DEFINE column == [name |-> [head |-> h, full |-> f, tail |-> t], type |-> type]
           other == [column EXCEPT !.name.tail = z]
<1>1. [[head |-> h, full |-> f, tail |-> t] EXCEPT !.tail = z] = [head |-> h, full |-> f, tail |-> z]
  OBVIOUS
<1>2. DOMAIN other = {"name", "type"} /\ other.type = type
      /\ other.name = [[head |-> h, full |-> f, tail |-> t] EXCEPT !.tail = z]
  OBVIOUS
<1> QED BY <1>1, <1>2

LEMMA RestoredIs ==
  ASSUME NEW column \in Columns
  PROVE  /\ Restored(column) \in Columns /\ Restored(column).type = column.type
         /\ Restored(Restored(column)) = Restored(column)
         /\ Restored(column).name.head = column.name.head
         /\ Restored(column).name.full = column.name.full
         /\ ~column.name.full => Restored(column) = column
<1> DEFINE name == column.name
           tail == IF column.type = "INT" THEN "" ELSE column.type
           cut == [name |-> [head |-> name.head, full |-> name.full, tail |-> tail], type |-> column.type]
<1>1. /\ column = [name |-> name, type |-> column.type] /\ column.type \in ColumnTypes
      /\ name = [head |-> name.head, full |-> name.full, tail |-> name.tail]
      /\ name.head \in STRING /\ name.full \in BOOLEAN /\ name.tail \in Tails
  BY DEF Columns, Names
<1>2. CASE ~name.full BY <1>2 DEF Restored
<1>3. CASE name.full
  <2>1. Restored(column) = [column EXCEPT !.name.tail = tail] BY <1>3 DEF Restored
  <2>2. tail \in Tails BY <1>1 DEF Tails
  <2>3. [column EXCEPT !.name.tail = tail] = cut /\ [cut EXCEPT !.name.tail = tail] = cut
    <3> HIDE DEF tail, name
    <3>1. column = [name |-> [head |-> name.head, full |-> name.full, tail |-> name.tail],
                    type |-> column.type]
      BY <1>1
    <3> QED BY <1>1, <2>2, <3>1, EndChanged
  <2>4. cut \in Columns
    <3> HIDE DEF name, tail
    <3> QED BY <1>1, <2>2 DEF Columns, Names
  <2>5. cut.type = column.type /\ cut.name.full = name.full /\ cut.name.head = name.head OBVIOUS
  <2>6. Restored(cut) = [cut EXCEPT !.name.tail = tail] BY <1>3, <2>5 DEF Restored
  <2> HIDE DEF cut
  <2> QED BY <1>3, <2>1, <2>3, <2>4, <2>5, <2>6
<1> QED BY <1>2, <1>3

\* The columns of a table are those declared, or what a restore makes of them.
ColumnsOK(columns, declared) ==
  /\ declared \in Seq(Columns) /\ ColumnsUnique(declared)
  /\ columns \in Seq(Columns) /\ Len(columns) = Len(declared)
  /\ \A i \in 1 .. Len(declared) : columns[i] \in {declared[i], Restored(declared[i])}

\* The pages with rows are cached.
CachedOK(columns, n, cached) ==
  cached \in 0 .. MaxPages /\ n <= cached * RowsPerPage(columns)

TableFields == {"columns", "num_rows", "next_id", "pages", "cached"}

TableOK(t, d) ==
  /\ DOMAIN t = TableFields /\ DOMAIN d = {"columns", "rows"}
  /\ ColumnsOK(t.columns, d.columns) /\ CachedOK(t.columns, t.num_rows, t.cached)
  /\ RowsOK(t.columns, t.num_rows, t.next_id, t.pages, d.rows)

LEMMA CreateKeeps ==
  ASSUME NEW columns \in ColumnLists, ColumnsUnique(columns)
  PROVE  TableOK(NewTable(columns), [columns |-> columns, rows |-> {}])
<1> DEFINE t == NewTable(columns)
           d == [columns |-> columns, rows |-> {}]
<1>1. columns \in Seq(Columns) /\ RowSize(columns) <= PageSize BY StatementsAssumption
<1>2. /\ DOMAIN t = TableFields /\ DOMAIN d = {"columns", "rows"}
      /\ t.columns = columns /\ t.num_rows = 0 /\ t.next_id = 1 /\ t.pages = Blank
      /\ t.cached = 0 /\ d.columns = columns /\ d.rows = {}
  BY DEF NewTable, TableFields
<1>3. ColumnsOK(columns, columns) BY <1>1 DEF ColumnsOK
<1>4. RowsOK(columns, 0, 1, Blank, {})
  <2>1. MaxRows \in Nat /\ MaxId \in Nat BY StatementsAssumption
  <2>2. 0 \in 0 .. MaxRows /\ 1 \in 1 .. MaxId + 1 /\ 0 .. 0 - 1 = {} BY <2>1
  <2>3. IsFiniteSet({}) /\ Cardinality({}) = 0 BY FS_EmptySet
  <2> QED BY <1>1, <2>2, <2>3 DEF RowsOK, Tabular
<1>5. CachedOK(columns, 0, 0)
  <2>1. MaxPages \in Nat /\ Tabular(columns) BY <1>1, StatementsAssumption DEF Tabular
  <2>2. RowsPerPage(columns) \in Nat BY <2>1, PageHoldsRows
  <2> QED BY <2>1, <2>2 DEF CachedOK
<1> HIDE DEF t, d
<1> QED BY <1>2, <1>3, <1>4, <1>5 DEF TableOK, t, d

\* An id is spent.
LEMMA SpendKeeps ==
  ASSUME NEW t, NEW d, TableOK(t, d), t.next_id <= MaxId
  PROVE  TableOK([t EXCEPT !.next_id = @ + 1], d)
<1> DEFINE u == [t EXCEPT !.next_id = @ + 1]
           next == t.next_id
<1>1. /\ DOMAIN u = TableFields
      /\ u.columns = t.columns /\ u.num_rows = t.num_rows /\ u.next_id = t.next_id + 1
      /\ u.pages = t.pages /\ u.cached = t.cached
  BY DEF TableOK, TableFields
<1>2. RowsOK(t.columns, t.num_rows, next, t.pages, d.rows) BY DEF TableOK
<1>3. next \in 1 .. MaxId + 1 /\ MaxId \in Nat BY <1>2, StatementsAssumption DEF RowsOK
<1> HIDE DEF u, next
<1>4. next + 1 \in 1 .. MaxId + 1 /\ 1 .. next - 1 \in SUBSET (1 .. (next + 1) - 1)
  BY <1>3 DEF next
<1>5. \A r \in d.rows : RowFor(t.columns, next + 1, r) BY <1>2, <1>4 DEF RowsOK, RowFor
<1>6. RowsOK(t.columns, t.num_rows, next + 1, t.pages, d.rows) BY <1>2, <1>4, <1>5 DEF RowsOK
<1> QED BY <1>1, <1>6 DEF TableOK, u, next

LEMMA RestoredColumns ==
  ASSUME NEW columns, NEW declared, ColumnsOK(columns, declared)
  PROVE  LET restored == [i \in DOMAIN columns |-> Restored(columns[i])]
         IN /\ ColumnsOK(restored, declared)
            /\ \A i \in 1 .. Len(columns) : restored[i].type = columns[i].type
<1> DEFINE restored == [i \in DOMAIN columns |-> Restored(columns[i])]
           N == Len(columns)
<1>1. /\ columns \in Seq(Columns) /\ declared \in Seq(Columns) /\ N \in Nat /\ N = Len(declared)
      /\ DOMAIN columns = 1 .. N
  BY DEF ColumnsOK
<1>2. ASSUME NEW i \in 1 .. N
      PROVE  /\ Restored(columns[i]) \in Columns /\ Restored(columns[i]).type = columns[i].type
             /\ Restored(columns[i]) \in {declared[i], Restored(declared[i])}
  <2>1. columns[i] \in Columns /\ declared[i] \in Columns BY <1>1
  <2>2. columns[i] \in {declared[i], Restored(declared[i])} BY <1>1 DEF ColumnsOK
  <2>3. Restored(Restored(declared[i])) = Restored(declared[i]) BY <2>1, RestoredIs
  <2>4. Restored(columns[i]) \in Columns /\ Restored(columns[i]).type = columns[i].type
    BY <2>1, RestoredIs
  <2> QED BY <2>2, <2>3, <2>4
<1>3. restored \in [1 .. N -> Columns] BY <1>1, <1>2
<1>4. restored \in Seq(Columns) /\ Len(restored) = N
  <2> HIDE DEF restored, N
  <2> QED BY <1>1, <1>3
<1>5. \A i \in 1 .. N : restored[i] = Restored(columns[i]) BY <1>1
<1> HIDE DEF restored, N
<1> QED BY <1>1, <1>2, <1>4, <1>5 DEF ColumnsOK, restored, N

\* Nothing but the types of the columns tells where a row lies.
LEMMA ReopenKeeps ==
  ASSUME NEW t, NEW d, TableOK(t, d), t.num_rows <= MaxPages
  PROVE  TableOK([t EXCEPT !.columns = [i \in DOMAIN @ |-> Restored(@[i])], !.cached = t.num_rows], d)
<1> DEFINE columns == t.columns
           restored == [i \in DOMAIN columns |-> Restored(columns[i])]
           u == [t EXCEPT !.columns = [i \in DOMAIN @ |-> Restored(@[i])], !.cached = t.num_rows]
<1>1. /\ DOMAIN u = TableFields
      /\ u.columns = restored /\ u.num_rows = t.num_rows /\ u.next_id = t.next_id
      /\ u.pages = t.pages /\ u.cached = t.num_rows
  BY DEF TableOK, TableFields
<1>2. ColumnsOK(columns, d.columns) BY DEF TableOK
<1>3. ColumnsOK(restored, d.columns) /\ \A i \in 1 .. Len(columns) : restored[i].type = columns[i].type
  <2> HIDE DEF columns
  <2> QED BY <1>2, RestoredColumns
<1> HIDE DEF restored, u, columns
<1>4. /\ columns \in Seq(Columns) /\ restored \in Seq(Columns) /\ Len(restored) = Len(columns)
      /\ DOMAIN restored = DOMAIN columns /\ DOMAIN columns = 1 .. Len(columns)
  BY <1>2, <1>3 DEF ColumnsOK
<1>5. RowSize(restored) = RowSize(columns) BY <1>3, <1>4, SameSize
<1>6. RowsPerPage(restored) = RowsPerPage(columns) BY <1>5 DEF RowsPerPage
<1>7. \A i : Address(restored, i) = Address(columns, i) BY <1>5, <1>6 DEF Address
<1>8. RowsOK(columns, t.num_rows, t.next_id, t.pages, d.rows) BY DEF TableOK, columns
<1>9. Tabular(restored) BY <1>4, <1>5, <1>8 DEF RowsOK, Tabular
<1>10. \A next, r : RowFor(restored, next, r) <=> RowFor(columns, next, r)
  BY <1>3, <1>4 DEF RowFor, RowValues, TypesMatch
<1>11. \A pages, i, r : Holds(restored, pages, i, r) <=> Holds(columns, pages, i, r)
  BY <1>5, <1>7 DEF Holds
<1>12. \A pages, i : IdAt(restored, pages, i) = IdAt(columns, pages, i) BY <1>7 DEF IdAt
<1>13. RowsOK(restored, t.num_rows, t.next_id, t.pages, d.rows)
  BY <1>6, <1>8, <1>9, <1>10, <1>11, <1>12 DEF RowsOK
<1>14. CachedOK(restored, t.num_rows, t.num_rows)
  <2> DEFINE n == t.num_rows
             P == RowsPerPage(restored)
  <2>1. P \in Nat \ {0} BY <1>9, PageHoldsRows
  <2>2. n \in Nat /\ n <= MaxPages /\ MaxPages \in Nat
    <3>1. MaxRows \in Nat /\ MaxPages \in Nat BY StatementsAssumption
    <3> QED BY <1>8, <3>1 DEF RowsOK
  <2> HIDE DEF n, P
  <2>3. n <= n * P
    <3>1. 1 \in Nat /\ 1 <= P /\ P \in Nat BY <2>1
    <3>2. 1 * n <= P * n BY <2>2, <3>1, ProductGrows
    <3> QED BY <2>2, <3>1, <3>2
  <2>4. n \in 0 .. MaxPages BY <2>2
  <2> QED BY <2>3, <2>4 DEF CachedOK, n, P
<1> QED BY <1>1, <1>3, <1>13, <1>14 DEF TableOK, u

TablesOK ==
  /\ DOMAIN tables \subseteq TableNames \ LongTables
  /\ DOMAIN ideal = DOMAIN tables
  /\ \A n \in DOMAIN tables : TableOK(tables[n], ideal[n])

\* A SELECT or DELETE that began, and the analyzer let through.
Whole(op) == stmt.op = op /\ "table" \in DOMAIN stmt

Accepted ==
  /\ stmt.table \in DOMAIN tables
  /\ Checked(Table.columns, stmt)
  /\ stmt.op = "select" => stmt.all \/ ColumnsKnown(Table.columns, stmt.list)
  /\ index <= Table.num_rows
  /\ at = "ready" /\ undefined = "none" => index = Table.num_rows

StmtOK ==
  /\ at \in {"ready", "select", "delete"} /\ undefined \in Faults /\ index \in 0 .. MaxRows
  /\ at # "ready" => Whole(at)
  /\ \A op \in {"select", "delete"} : Whole(op) => at \in {"ready", op} /\ Accepted

LEMMA TableNumbers ==
  ASSUME NEW t, NEW d, TableOK(t, d)
  PROVE  /\ Tabular(t.columns) /\ t.columns \in Seq(Columns)
         /\ t.num_rows \in Nat /\ t.num_rows \in 0 .. MaxRows /\ MaxRows \in Nat
         /\ t.next_id \in Nat /\ t.next_id \in 1 .. MaxId + 1 /\ MaxId \in Nat
         /\ t.cached \in Nat /\ t.cached \in 0 .. MaxPages /\ MaxPages \in Nat
         /\ LastPage(t) \in Nat
         /\ \A i \in 0 .. t.num_rows - 1 : i \div RowsPerPage(t.columns) < t.cached
<1>1. MaxRows \in Nat /\ MaxId \in Nat /\ MaxPages \in Nat BY StatementsAssumption
<1>2. Tabular(t.columns) /\ t.num_rows \in 0 .. MaxRows /\ t.next_id \in 1 .. MaxId + 1
  BY DEF TableOK, RowsOK
<1>3. t.cached \in 0 .. MaxPages /\ t.num_rows <= t.cached * RowsPerPage(t.columns)
  BY DEF TableOK, CachedOK
<1> DEFINE n == t.num_rows
           P == RowsPerPage(t.columns)
           c == t.cached
<1>4. n \in Nat /\ c \in Nat /\ P \in Nat \ {0} BY <1>1, <1>2, <1>3, PageHoldsRows
<1>5. LastPage(t) = n \div P BY DEF LastPage
<1>6. n <= c * P BY <1>3
<1> HIDE DEF n, P, c
<1>7. n \div P \in Nat BY <1>4, QuotientIs
<1>8. ASSUME NEW i \in 0 .. n - 1 PROVE i \div P < c
  <2>1. i \in Nat /\ i < n /\ c * P \in Nat BY <1>4
  <2>2. i < c * P BY <1>4, <1>6, <2>1
  <2> QED BY <1>4, <2>1, <2>2, QuotientBelow
<1>9. LastPage(t) \in Nat BY <1>5, <1>7
<1> QED BY <1>1, <1>2, <1>3, <1>4, <1>8, <1>9 DEF Tabular, n, P, c

\* The page behind the last row is zeroed only if there is no row on it.
LEMMA AllocKeeps ==
  ASSUME NEW t, NEW d, TableOK(t, d)
  PROVE  RowsOK(t.columns, t.num_rows, t.next_id, Allocated(t), d.rows)
<1> DEFINE columns == t.columns
           n == t.num_rows
           P == RowsPerPage(columns)
           S == RowSize(columns)
           pages == t.pages
           after == Allocated(t)
           p == LastPage(t)
<1>1. /\ Tabular(columns) /\ n \in Nat /\ p \in Nat /\ t.cached \in Nat
      /\ \A i \in 0 .. n - 1 : i \div P < t.cached
  BY TableNumbers
<1>2. RowsOK(columns, n, t.next_id, pages, d.rows) BY DEF TableOK
<1>3. S \in Nat \ {0} /\ PageSize \in Nat \ {0} /\ P \in Nat \ {0}
  <2>1. S \in Nat \ {0} /\ PageSize \in Nat /\ P \in Nat \ {0} /\ S <= PageSize
    BY <1>1, PageHoldsRows DEF Tabular
  <2> HIDE DEF S, P
  <2> QED BY <2>1
<1>4. /\ DOMAIN after = DOMAIN pages
      /\ \A a \in DOMAIN pages :
           ~(p >= t.cached /\ a \div PageSize = p) => after[a] = pages[a]
  BY DEF Allocated
<1>5. ASSUME NEW i \in 0 .. n - 1
      PROVE  /\ IdAt(columns, after, i) = IdAt(columns, pages, i)
             /\ \A r : Holds(columns, pages, i, r) => Holds(columns, after, i, r)
  <2>1. i \in Nat /\ i \div P < t.cached /\ i \div P < MaxPages BY <1>1, <1>2 DEF RowsOK
  <2> DEFINE a == Address(columns, i)
             q == i \div P
  <2>2. a \in Nat /\ a + S <= PageEnd(columns, i) /\ PageEnd(columns, i) = (q + 1) * PageSize
    BY <1>1, <2>1, SlotInPage DEF PageEnd
  <2>3. q \in Nat
    <3> HIDE DEF P
    <3> QED BY <1>3, <2>1, QuotientIs
  <2>4. ASSUME NEW k \in 1 .. S PROVE after[a + k - 1] = pages[a + k - 1]
    <3>1. a + k - 1 \in DOMAIN pages BY <1>1, <1>2, <2>1, SlotInPages DEF RowsOK
    <3>2. q < t.cached BY <2>1
    <3> HIDE DEF a, q, S, pages, after, p
    <3> DEFINE b == a + k - 1
               c == q + 1
    <3>3. b \in Nat /\ c \in Nat BY <1>3, <2>2, <2>3
    <3>4. c * PageSize \in Nat BY <1>3, <3>3
    <3>5. b < c * PageSize BY <1>3, <2>2, <3>4
    <3> HIDE DEF b, c
    <3>6. b \div PageSize < c BY <1>3, <3>3, <3>5, QuotientBelow
    <3>7. b \div PageSize \in Nat BY <1>3, <3>3, QuotientIs
    <3>8. ~(p >= t.cached /\ b \div PageSize = p) BY <1>1, <2>3, <3>2, <3>6, <3>7 DEF c
    <3>9. b \in DOMAIN pages BY <3>1 DEF b
    <3>10. after[b] = pages[b] BY <1>4, <3>8, <3>9
    <3> QED BY <3>10 DEF b
  <2> HIDE DEF pages, after
  <2> QED BY <1>1, <2>1, <2>4, SameSlot
<1> HIDE DEF after, pages, columns, n
<1>6. RowsOK(columns, n, t.next_id, after, d.rows) BY <1>2, <1>4, <1>5 DEF RowsOK
<1> QED BY <1>6 DEF after, columns, n

LEMMA InsertTable ==
  ASSUME NEW t, NEW d, TableOK(t, d), NEW values, RowValues(t.columns, values),
         t.num_rows < MaxRows, t.next_id <= MaxId,
         t.num_rows \div RowsPerPage(t.columns) < MaxPages
  PROVE  LET cells == Serialize(t.next_id, RowSize(t.columns), values)
             r == [id |-> t.next_id, values |-> values]
         IN TableOK([t EXCEPT !.pages = Written(t, cells), !.num_rows = @ + 1, !.next_id = @ + 1,
                              !.cached = IF @ <= LastPage(t) THEN LastPage(t) + 1 ELSE @],
                    [d EXCEPT !.rows = @ \cup {r}])
<1> DEFINE cells == Serialize(t.next_id, RowSize(t.columns), values)
           r == [id |-> t.next_id, values |-> values]
           after == Written(t, cells)
           c == IF t.cached <= LastPage(t) THEN LastPage(t) + 1 ELSE t.cached
           u == [t EXCEPT !.pages = after, !.num_rows = @ + 1, !.next_id = @ + 1,
                          !.cached = IF @ <= LastPage(t) THEN LastPage(t) + 1 ELSE @]
           e == [d EXCEPT !.rows = @ \cup {r}]
<1>1. r.id = t.next_id /\ r.values = values OBVIOUS
<1>2. Placed(t.columns, t.num_rows, Allocated(t), cells, after) BY Zenon DEF Written, Placed
<1> HIDE DEF cells, r, after
<1>3. /\ DOMAIN u = TableFields /\ DOMAIN e = {"columns", "rows"}
      /\ u.columns = t.columns /\ u.num_rows = t.num_rows + 1 /\ u.next_id = t.next_id + 1
      /\ u.pages = after /\ u.cached = c /\ e.columns = d.columns /\ e.rows = d.rows \cup {r}
  BY DEF TableOK, TableFields
<1>4. RowsOK(t.columns, t.num_rows, t.next_id, Allocated(t), d.rows) BY AllocKeeps
<1>5. Placed(t.columns, t.num_rows, Allocated(t), Serialize(r.id, RowSize(t.columns), r.values), after)
  BY <1>1, <1>2 DEF cells
<1>6. RowsOK(t.columns, t.num_rows + 1, t.next_id + 1, after, d.rows \cup {r})
  <2>1. RowValues(t.columns, r.values) BY <1>1
  <2> QED BY <1>1, <1>4, <1>5, <2>1, InsertKeeps
<1>7. CachedOK(t.columns, t.num_rows + 1, c)
  <2> DEFINE n == t.num_rows
             P == RowsPerPage(t.columns)
             p == LastPage(t)
  <2>1. n \in Nat /\ t.cached \in 0 .. MaxPages /\ MaxPages \in Nat /\ p \in Nat /\ Tabular(t.columns)
    BY TableNumbers
  <2>2. P \in Nat \ {0} BY <2>1, PageHoldsRows
  <2>3. p = n \div P /\ p < MaxPages BY DEF LastPage
  <2> HIDE DEF n, P, p
  <2>4. c \in 0 .. MaxPages /\ p < c
    <3>1. CASE t.cached <= p
      <4>1. c = p + 1 BY <3>1 DEF p
      <4> QED BY <2>1, <2>3, <4>1
    <3>2. CASE ~(t.cached <= p)
      <4>1. c = t.cached BY <3>2 DEF p
      <4> QED BY <2>1, <3>2, <4>1
    <3> QED BY <3>1, <3>2
  <2> HIDE DEF c
  <2>5. n < c * P /\ c * P \in Nat
    <3>1. c \in Nat BY <2>1, <2>4
    <3>2. n \div P < c BY <2>3, <2>4
    <3>3. n < c * P BY <2>1, <2>2, <3>1, <3>2, QuotientBelow
    <3> QED BY <2>2, <3>1, <3>3
  <2>6. n + 1 <= c * P BY <2>1, <2>5
  <2> QED BY <2>4, <2>6 DEF CachedOK, n, P
<1> HIDE DEF u, e, c
<1>8. TableOK(u, e) BY <1>3, <1>6, <1>7 DEF TableOK
<1> QED BY <1>8 DEF u, e, after, cells, r

\* What DELETE makes of the table and of its rows.
DeletesAt(t, d, i, u, e) ==
  /\ TableOK(u, e) /\ u.columns = t.columns /\ u.num_rows = t.num_rows - 1 /\ u.cached = t.cached
  /\ e.columns = d.columns
  /\ \E gone \in d.rows :
       /\ gone.id = IdAt(t.columns, t.pages, i)
       /\ e.rows = d.rows \ {gone}
  /\ \A j \in 0 .. t.num_rows - 2 :
       j # i => IdAt(t.columns, u.pages, j) = IdAt(t.columns, t.pages, j)

Cut(t, u, pages) == u = [t EXCEPT !.pages = pages, !.num_rows = @ - 1]
Left(d, e, id) == e = [d EXCEPT !.rows = {r \in @ : r.id # id}]

LEMMA DeleteTable ==
  ASSUME NEW t, NEW d, TableOK(t, d), NEW i \in 0 .. t.num_rows - 1,
         NEW after, Moved(t.columns, t.num_rows, i, t.pages, after),
         NEW id, id = IdAt(t.columns, t.pages, i),
         NEW u, Cut(t, u, after), NEW e, Left(d, e, id)
  PROVE  DeletesAt(t, d, i, u, e)
<1>1. RowsOK(t.columns, t.num_rows, t.next_id, t.pages, d.rows) BY DEF TableOK
<1>2. PICK gone \in d.rows : gone.id = id BY <1>1, SlotIsRow
<1>3. /\ DOMAIN u = TableFields /\ DOMAIN e = {"columns", "rows"}
      /\ u.columns = t.columns /\ u.num_rows = t.num_rows - 1 /\ u.next_id = t.next_id
      /\ u.pages = after /\ u.cached = t.cached
      /\ e.columns = d.columns /\ e.rows = {r \in d.rows : r.id # id}
  BY DEF TableOK, TableFields, Cut, Left
<1>4. OneGone(t.columns, t.num_rows, t.next_id, t.pages, d.rows, i, after, gone)
  <2>1. gone.id = IdAt(t.columns, t.pages, i) BY <1>2
  <2> QED BY <1>1, <2>1, DeleteKeeps
<1>5. e.rows = d.rows \ {gone} BY <1>2, <1>3, <1>4 DEF OneGone
<1>6. CachedOK(u.columns, u.num_rows, u.cached)
  <2> DEFINE n == t.num_rows
             room == t.cached * RowsPerPage(t.columns)
  <2>1. n \in Nat /\ t.cached \in Nat /\ Tabular(t.columns) BY TableNumbers
  <2>2. RowsPerPage(t.columns) \in Nat BY <2>1, PageHoldsRows
  <2>3. room \in Nat /\ n <= room /\ t.cached \in 0 .. MaxPages
    BY <2>1, <2>2 DEF TableOK, CachedOK
  <2> HIDE DEF n, room
  <2>4. n - 1 <= room BY <2>1, <2>3
  <2> QED BY <1>3, <2>3, <2>4 DEF CachedOK, n, room
<1>7. TableOK(u, e) BY <1>3, <1>4, <1>5, <1>6 DEF TableOK, OneGone
<1> QED BY <1>7, <1>2, <1>3, <1>4, <1>5, <1>6 DEF DeletesAt, OneGone

LEMMA HereId ==
  ASSUME TablesOK, stmt.table \in DOMAIN tables
  PROVE  Here.id = IdAt(Table.columns, Table.pages, index)
<1>1. TableOK(Table, ideal[stmt.table]) BY DEF TablesOK, Table
<1>2. Table.columns \in Seq(Columns) BY <1>1, TableNumbers
<1> QED BY <1>2, IdIsRead DEF Here, IdAt

\* A turn of the loop of DELETE.
DeleteTurnKeeps == \* the row stays
  index' = index + 1 /\ tables' = tables /\ ideal' = ideal /\ deleted_any' = deleted_any
DeleteTurnRemoves ==
  /\ DeletesAt(Table, ideal[stmt.table], index, tables'[stmt.table], ideal'[stmt.table])
  /\ DOMAIN tables' = DOMAIN tables /\ DOMAIN ideal' = DOMAIN ideal
  /\ \A n \in DOMAIN tables \ {stmt.table} : tables'[n] = tables[n] /\ ideal'[n] = ideal[n]
  /\ index' = index /\ deleted_any' = TRUE

LEMMA DeleteTurnIs ==
  ASSUME TablesOK, StmtOK, DeleteTurn
  PROVE  /\ Whole("delete") /\ Accepted /\ at = "delete" /\ undefined = "none"
         /\ index \in 0 .. Table.num_rows - 1
         /\ UNCHANGED <<stmt, at, output, result, undefined, before>>
         /\ IF Chosen(Table.columns, stmt, Here.values) THEN DeleteTurnRemoves ELSE DeleteTurnKeeps
<1>1. at = "delete" /\ undefined = "none" /\ index < Table.num_rows BY DEF DeleteTurn, InLoop
<1>2. Whole("delete") /\ Accepted BY <1>1 DEF StmtOK
<1>3. stmt.table \in DOMAIN tables BY <1>2 DEF Accepted
<1>4. TableOK(Table, ideal[stmt.table]) BY <1>3 DEF TablesOK, Table
<1>5. index \in 0 .. Table.num_rows - 1
  <2>1. index \in 0 .. MaxRows BY DEF StmtOK
  <2>2. Table.num_rows \in Nat /\ MaxRows \in Nat BY <1>4, TableNumbers
  <2> QED BY <1>1, <2>1, <2>2
<1>6. UNCHANGED <<stmt, at, output, result, undefined, before>> BY DEF DeleteTurn
<1>7. CASE ~Chosen(Table.columns, stmt, Here.values)
  <2>1. DeleteTurnKeeps BY <1>7 DEF DeleteTurn, DeleteTurnKeeps
  <2> QED BY <1>1, <1>2, <1>5, <1>6, <1>7, <2>1
<1>8. CASE Chosen(Table.columns, stmt, Here.values)
  <2> DEFINE t == Table
             d == ideal[stmt.table]
             last == Address(t.columns, t.num_rows - 1)
             first == Address(t.columns, index)
             moved == [a \in DOMAIN t.pages |->
                         IF a \in first .. first + RowSize(t.columns) - 1
                         THEN t.pages[last + a - first] ELSE t.pages[a]]
             u == [t EXCEPT !.pages = moved, !.num_rows = @ - 1]
             id == Here.id
             e == [d EXCEPT !.rows = {r \in @ : r.id # id}]
  <2>1. /\ tables' = [tables EXCEPT ![stmt.table] = u]
        /\ ideal' = [ideal EXCEPT ![stmt.table].rows = {r \in @ : r.id # id}]
        /\ deleted_any' = TRUE /\ index' = index
    BY <1>8 DEF DeleteTurn
  <2>2. Moved(t.columns, t.num_rows, index, t.pages, moved) BY DEF Moved
  <2>3. id = IdAt(t.columns, t.pages, index) BY <1>3, HereId
  <2> HIDE DEF t, d, id, moved
  <2>4. DeletesAt(t, d, index, u, e)
    <3>1. TableOK(t, d) /\ index \in 0 .. t.num_rows - 1 BY <1>4, <1>5 DEF t, d
    <3>2. Cut(t, u, moved) /\ Left(d, e, id) BY DEF Cut, Left
    <3> HIDE DEF u, e
    <3> QED BY <2>2, <2>3, <3>1, <3>2, DeleteTable, Zenon
  <2>5. DOMAIN ideal = DOMAIN tables BY DEF TablesOK
  <2>6. /\ DOMAIN tables' = DOMAIN tables /\ tables'[stmt.table] = u
        /\ \A n \in DOMAIN tables \ {stmt.table} : tables'[n] = tables[n]
    <3> HIDE DEF u
    <3> QED BY <1>3, <2>1
  <2>7. /\ DOMAIN ideal' = DOMAIN ideal /\ ideal'[stmt.table] = e
        /\ \A n \in DOMAIN ideal \ {stmt.table} : ideal'[n] = ideal[n]
    BY <1>3, <2>1, <2>5 DEF d
  <2> HIDE DEF u, e
  <2>8. DeleteTurnRemoves BY <2>1, <2>4, <2>5, <2>6, <2>7 DEF DeleteTurnRemoves, t, d
  <2> QED BY <1>1, <1>2, <1>5, <1>6, <1>8, <2>8
<1> QED BY <1>7, <1>8

\* A table created or dropped, a row inserted, an id spent.
LEMMA InsertAccepted ==
  ASSUME TablesOK, NEW s \in Inserts, AnalyzeInsert(s) = "SUCCESS"
  PROVE  /\ s.table \in DOMAIN tables /\ RowValues(tables[s.table].columns, s.values)
         /\ TableOK(tables[s.table], ideal[s.table])
<1>1. s.table \in DOMAIN tables BY DEF AnalyzeInsert, Known
<1>2. /\ Len(tables[s.table].columns) = Len(s.values)
      /\ TypesMatch(tables[s.table].columns, s.values)
  BY <1>1 DEF AnalyzeInsert, Known
<1>3. s.values \in Seq(Values) BY StatementsAssumption DEF Inserts
<1> QED BY <1>1, <1>2, <1>3 DEF RowValues, TablesOK

LEMMA TablesKept ==
  ASSUME TablesOK, StmtOK, [Next]_vars
  PROVE  TablesOK'
<1>1. CASE UNCHANGED <<tables, ideal>> BY <1>1 DEF TablesOK
<1>2. CASE Create
  <2>1. PICK s \in Creates :
          /\ AnalyzeCreate(s) = "SUCCESS"
          /\ tables' = With(tables, s.table, NewTable(s.columns))
          /\ ideal' = With(ideal, s.table, [columns |-> s.columns, rows |-> {}])
    BY <1>2 DEF Create
  <2>2. /\ s.table \notin DOMAIN tables /\ s.table \notin LongTables /\ ColumnsUnique(s.columns)
        /\ s.table \in TableNames /\ s.columns \in ColumnLists
    BY <2>1 DEF AnalyzeCreate, Known, Creates
  <2> DEFINE t == NewTable(s.columns)
             d == [columns |-> s.columns, rows |-> {}]
  <2>3. TableOK(t, d) BY <2>2, CreateKeeps
  <2> HIDE DEF t, d
  <2>4. DOMAIN ideal = DOMAIN tables BY DEF TablesOK
  <2>5. /\ DOMAIN tables' = DOMAIN tables \cup {s.table} /\ DOMAIN ideal' = DOMAIN tables'
        /\ tables'[s.table] = t /\ ideal'[s.table] = d
        /\ \A n \in DOMAIN tables : tables'[n] = tables[n] /\ ideal'[n] = ideal[n]
    BY <2>1, <2>2, <2>4 DEF t, d, With
  <2> QED BY <2>2, <2>3, <2>5 DEF TablesOK
<1>3. CASE Drop
  <2>1. PICK s \in Drops : tables' = Without(tables, s.table) /\ ideal' = Without(ideal, s.table)
    BY <1>3 DEF Drop
  <2> QED BY <2>1 DEF TablesOK, Without
<1>4. CASE InsertFails \/ InsertFaults
  <2>1. PICK s \in Inserts :
          /\ AnalyzeInsert(s) = "SUCCESS" /\ ideal' = ideal
          /\ \/ UNCHANGED tables
             \/ /\ tables[s.table].next_id <= MaxId
                /\ tables' = [tables EXCEPT ![s.table].next_id = @ + 1]
    BY <1>4 DEF InsertFails, InsertFaults
  <2>2. CASE UNCHANGED tables BY <1>1, <2>1, <2>2
  <2>3. CASE /\ tables[s.table].next_id <= MaxId
             /\ tables' = [tables EXCEPT ![s.table].next_id = @ + 1]
    <3>1. s.table \in DOMAIN tables /\ TableOK(tables[s.table], ideal[s.table]) BY <2>1, InsertAccepted
    <3> DEFINE u == [tables[s.table] EXCEPT !.next_id = @ + 1]
    <3>2. TableOK(u, ideal[s.table]) BY <2>3, <3>1, SpendKeeps
    <3>3. tables' = [tables EXCEPT ![s.table] = u] BY <2>3
    <3> HIDE DEF u
    <3> QED BY <2>1, <3>1, <3>2, <3>3 DEF TablesOK
  <2> QED BY <2>1, <2>2, <2>3
<1>5. CASE Insert
  <2>1. PICK s \in Inserts :
          LET t == tables[s.table]
              cells == Serialize(t.next_id, RowSize(t.columns), s.values)
          IN /\ AnalyzeInsert(s) = "SUCCESS"
             /\ t.num_rows < MaxRows /\ t.next_id <= MaxId
             /\ LastPage(t) < MaxPages
             /\ tables' = [tables EXCEPT ![s.table] =
                  [t EXCEPT !.pages = Written(t, cells), !.num_rows = @ + 1, !.next_id = @ + 1,
                            !.cached = IF @ <= LastPage(t) THEN LastPage(t) + 1 ELSE @]]
             /\ ideal' = [ideal EXCEPT ![s.table].rows =
                  @ \cup {[id |-> t.next_id, values |-> s.values]}]
    BY <1>5 DEF Insert
  <2>2. /\ s.table \in DOMAIN tables /\ RowValues(tables[s.table].columns, s.values)
        /\ TableOK(tables[s.table], ideal[s.table])
    BY <2>1, InsertAccepted
  <2> DEFINE t == tables[s.table]
             d == ideal[s.table]
             u == [t EXCEPT !.pages = Written(t, Serialize(t.next_id, RowSize(t.columns), s.values)),
                            !.num_rows = @ + 1, !.next_id = @ + 1,
                            !.cached = IF @ <= LastPage(t) THEN LastPage(t) + 1 ELSE @]
             e == [d EXCEPT !.rows = @ \cup {[id |-> t.next_id, values |-> s.values]}]
  <2>3. TableOK(u, e)
    <3> HIDE DEF t, d
    <3>1. TableOK(t, d) /\ RowValues(t.columns, s.values) BY <2>2 DEF t, d
    <3>2. /\ t.num_rows < MaxRows /\ t.next_id <= MaxId
          /\ t.num_rows \div RowsPerPage(t.columns) < MaxPages
      BY <2>1 DEF t, LastPage
    <3> QED BY <3>1, <3>2, InsertTable
  <2>4. tables' = [tables EXCEPT ![s.table] = u] BY <2>1
  <2>5. ideal' = [ideal EXCEPT ![s.table] = e] BY <2>1
  <2> HIDE DEF u, e
  <2> QED BY <2>2, <2>3, <2>4, <2>5 DEF TablesOK
<1>6. CASE DeleteTurn
  <2>1. CASE DeleteTurnKeeps BY <1>1, <2>1 DEF DeleteTurnKeeps
  <2>2. CASE DeleteTurnRemoves
    <3>1. TableOK(tables'[stmt.table], ideal'[stmt.table]) BY <2>2 DEF DeleteTurnRemoves, DeletesAt
    <3> QED BY <2>2, <3>1 DEF DeleteTurnRemoves, TablesOK
  <2> QED BY <1>6, <2>1, <2>2, DeleteTurnIs
<1>7. CASE Reopen
  <2>1. /\ tables' = [n \in DOMAIN tables |->
             [tables[n] EXCEPT !.columns = [i \in DOMAIN @ |-> Restored(@[i])],
                               !.cached = tables[n].num_rows]]
        /\ ideal' = ideal
        /\ \A n \in DOMAIN tables : tables[n].num_rows <= MaxPages
    BY <1>7 DEF Reopen
  <2>2. ASSUME NEW n \in DOMAIN tables PROVE TableOK(tables'[n], ideal'[n])
    <3> DEFINE t == tables[n]
               u == [t EXCEPT !.columns = [i \in DOMAIN @ |-> Restored(@[i])], !.cached = t.num_rows]
    <3>1. TableOK(t, ideal[n]) /\ t.num_rows <= MaxPages BY <2>1 DEF TablesOK
    <3>2. TableOK(u, ideal[n])
      <4> HIDE DEF t
      <4> QED BY <3>1, ReopenKeeps
    <3>3. tables'[n] = u /\ ideal'[n] = ideal[n] BY <2>1
    <3> QED BY <3>2, <3>3
  <2> QED BY <2>1, <2>2 DEF TablesOK
<1>8. ASSUME [Next]_vars
      PROVE  \/ UNCHANGED <<tables, ideal>> \/ Create \/ Drop \/ InsertFails \/ Insert
             \/ InsertFaults \/ DeleteTurn \/ Reopen
  BY <1>8 DEF Next, vars, Refused, BeginSelect, BeginDelete, Begin, SelectTurn, EndSelect,
              EndDelete, LoopFaults
<1> QED BY <1>1, <1>2, <1>3, <1>4, <1>5, <1>6, <1>7, <1>8

-----------------------------------------------------------------------------
(* Statements                                                              *)

\* Every action but those of the loops ends with Finished, or begins a loop,
\* or is an INSERT that does not end.
LEMMA StatementOver ==
  ASSUME Refused \/ Create \/ Drop \/ InsertFails \/ Insert \/ InsertFaults \/ Reopen
  PROVE  /\ at = "ready" /\ at' = "ready" /\ undefined = "none"
         /\ undefined' \in {"none", "overflow", "bool"}
         /\ index' \in {0, index}
         /\ \A op \in {"select", "delete"} : ~Whole(op)'
<1>1. CASE InsertFaults
  <2>1. PICK s \in Inserts : stmt' = s BY <1>1 DEF InsertFaults
  <2>2. s.op = "insert" BY DEF Inserts
  <2> QED BY <1>1, <2>1, <2>2 DEF InsertFaults, Ready, Whole
<1>2. CASE Refused \/ Create \/ Drop \/ InsertFails \/ Insert \/ Reopen
  <2>1. PICK s, r : Finished(s, r)
    BY <1>2 DEF Refused, Create, Drop, InsertFails, Insert, Reopen
  <2>2. at = "ready" /\ undefined = "none"
    BY <1>2 DEF Refused, Create, Drop, InsertFails, Insert, Reopen, Ready
  <2>3. undefined' = undefined \/ undefined' \in {"none", "overflow"}
    BY <1>2 DEF Refused, Create, Drop, InsertFails, Insert, Reopen
  <2>4. stmt' = [op |-> s.op] /\ at' = at /\ index' = 0 BY <2>1 DEF Finished
  <2>5. "table" \notin DOMAIN stmt' BY <2>4
  <2> QED BY <2>2, <2>3, <2>4, <2>5 DEF Whole
<1> QED BY <1>1, <1>2

LEMMA SelectAccepted ==
  ASSUME TablesOK, NEW s \in Selects, AnalyzeSelect(s) = "SUCCESS"
  PROVE  /\ s.op = "select" /\ "table" \in DOMAIN s /\ s.table \in DOMAIN tables
         /\ Checked(tables[s.table].columns, s)
         /\ s.all \/ ColumnsKnown(tables[s.table].columns, s.list)
<1>1. s.op = "select" /\ "table" \in DOMAIN s /\ s.where \in Wheres BY DEF Selects
<1>2. s.table \in DOMAIN tables BY DEF AnalyzeSelect, Known
<1>3. /\ HasWhere(s) => AnalyzeWhere(tables[s.table].columns, s.where) = "SUCCESS"
      /\ s.all \/ ColumnsKnown(tables[s.table].columns, s.list)
  BY <1>2 DEF AnalyzeSelect, Known
<1>4. s.where \in Conditions BY <1>1, StatementsAssumption
<1> QED BY <1>1, <1>2, <1>3, <1>4 DEF Checked

LEMMA DeleteAccepted ==
  ASSUME TablesOK, NEW s \in Deletes, AnalyzeDelete(s) = "SUCCESS"
  PROVE  /\ s.op = "delete" /\ "table" \in DOMAIN s /\ s.table \in DOMAIN tables
         /\ Checked(tables[s.table].columns, s)
<1>1. s.op = "delete" /\ "table" \in DOMAIN s /\ s.where \in Wheres BY DEF Deletes
<1>2. s.table \in DOMAIN tables BY DEF AnalyzeDelete, Known
<1>3. HasWhere(s) => AnalyzeWhere(tables[s.table].columns, s.where) = "SUCCESS"
  BY <1>2 DEF AnalyzeDelete, Known
<1>4. s.where \in Conditions BY <1>1, StatementsAssumption
<1> QED BY <1>1, <1>2, <1>3, <1>4 DEF Checked

\* The statement under way, or the one that has come to its end.
LEMMA StatementIs ==
  ASSUME TablesOK, StmtOK, NEW op \in {"select", "delete"}, Whole(op)
  PROVE  /\ Accepted /\ at \in {"ready", op} /\ stmt.op = op
         /\ stmt.table \in DOMAIN tables /\ TableOK(Table, ideal[stmt.table])
         /\ Table.num_rows \in Nat /\ index \in Nat /\ index <= Table.num_rows
         /\ Table.columns \in Seq(Columns) /\ Checked(Table.columns, stmt)
<1>1. Accepted /\ at \in {"ready", op} /\ index \in 0 .. MaxRows /\ stmt.op = op BY DEF StmtOK, Whole
<1>2. stmt.table \in DOMAIN tables /\ index <= Table.num_rows /\ Checked(Table.columns, stmt)
  BY <1>1 DEF Accepted
<1>3. TableOK(Table, ideal[stmt.table]) BY <1>2 DEF TablesOK, Table
<1>4. Table.num_rows \in Nat /\ MaxRows \in Nat /\ Table.columns \in Seq(Columns)
  BY <1>3, TableNumbers
<1> QED BY <1>1, <1>2, <1>3, <1>4

LEMMA StmtKept ==
  ASSUME TablesOK, StmtOK, [Next]_vars
  PROVE  StmtOK'
<1>0. MaxRows \in Nat BY StatementsAssumption
<1>1. CASE Refused \/ Create \/ Drop \/ InsertFails \/ Insert \/ InsertFaults \/ Reopen
  BY <1>0, <1>1, StatementOver DEF StmtOK, Faults
<1>2. CASE BeginSelect
  <2>1. PICK s \in Selects : AnalyzeSelect(s) = "SUCCESS" /\ Begin(s, "select") BY <1>2 DEF BeginSelect
  <2>2. /\ stmt' = s /\ at' = "select" /\ index' = 0 /\ tables' = tables /\ undefined' = undefined
    BY <2>1 DEF Begin
  <2>3. /\ s.op = "select" /\ "table" \in DOMAIN s /\ s.table \in DOMAIN tables
        /\ Checked(tables[s.table].columns, s)
        /\ s.all \/ ColumnsKnown(tables[s.table].columns, s.list)
    BY <2>1, SelectAccepted
  <2>4. Table' = tables[s.table] BY <2>2 DEF Table
  <2>5. tables[s.table].num_rows \in Nat BY <2>3, TableNumbers DEF TablesOK
  <2>6. Accepted' BY <2>2, <2>3, <2>4, <2>5 DEF Accepted
  <2>7. \A op : Whole(op)' => op = "select" BY <2>2, <2>3 DEF Whole
  <2>8. Whole("select")' BY <2>2, <2>3 DEF Whole
  <2> QED BY <1>0, <2>2, <2>6, <2>7, <2>8 DEF StmtOK
<1>3. CASE BeginDelete
  <2>1. PICK s \in Deletes : AnalyzeDelete(s) = "SUCCESS" /\ Begin(s, "delete") BY <1>3 DEF BeginDelete
  <2>2. /\ stmt' = s /\ at' = "delete" /\ index' = 0 /\ tables' = tables /\ undefined' = undefined
    BY <2>1 DEF Begin
  <2>3. /\ s.op = "delete" /\ "table" \in DOMAIN s /\ s.table \in DOMAIN tables
        /\ Checked(tables[s.table].columns, s)
    BY <2>1, DeleteAccepted
  <2>4. Table' = tables[s.table] BY <2>2 DEF Table
  <2>5. tables[s.table].num_rows \in Nat BY <2>3, TableNumbers DEF TablesOK
  <2>6. Accepted' BY <2>2, <2>3, <2>4, <2>5 DEF Accepted
  <2>7. \A op : Whole(op)' => op = "delete" BY <2>2, <2>3 DEF Whole
  <2>8. Whole("delete")' BY <2>2, <2>3 DEF Whole
  <2> QED BY <1>0, <2>2, <2>6, <2>7, <2>8 DEF StmtOK
<1>4. CASE SelectTurn
  <2>1. /\ at = "select" /\ undefined = "none" /\ index < Table.num_rows /\ index' = index + 1
        /\ UNCHANGED <<tables, stmt, at, undefined>>
    BY <1>4 DEF SelectTurn, InLoop
  <2>2. Whole("select") BY <2>1 DEF StmtOK
  <2>3. /\ Accepted /\ Table.num_rows \in Nat /\ index \in Nat /\ TableOK(Table, ideal[stmt.table])
    BY <2>2, StatementIs
  <2>4. Table' = Table /\ \A op : Whole(op)' <=> Whole(op) BY <2>1 DEF Table, Whole
  <2>5. Table.num_rows \in 0 .. MaxRows BY <2>3, TableNumbers
  <2>6. index' <= Table.num_rows /\ index' \in 0 .. MaxRows BY <1>0, <2>1, <2>3, <2>5
  <2>7. Accepted' BY <2>1, <2>3, <2>4, <2>6 DEF Accepted
  <2> QED BY <2>1, <2>2, <2>4, <2>6, <2>7 DEF StmtOK
<1>5. CASE DeleteTurn
  <2>1. /\ Whole("delete") /\ Accepted /\ at = "delete" /\ undefined = "none"
        /\ index \in 0 .. Table.num_rows - 1
        /\ UNCHANGED <<stmt, at, undefined>>
        /\ DeleteTurnRemoves \/ DeleteTurnKeeps
    BY <1>5, DeleteTurnIs
  <2>2. /\ Table.num_rows \in Nat /\ index \in Nat /\ TableOK(Table, ideal[stmt.table])
        /\ stmt.table \in DOMAIN tables
    BY <2>1, StatementIs
  <2>3. Table.num_rows \in 0 .. MaxRows BY <2>2, TableNumbers
  <2>4. \A op : Whole(op)' <=> Whole(op) BY <2>1 DEF Whole
  <2>5. /\ Table'.columns = Table.columns /\ stmt'.table \in DOMAIN tables'
        /\ index' <= Table'.num_rows /\ index' \in 0 .. MaxRows
    <3>1. CASE DeleteTurnKeeps
      <4>1. Table' = Table /\ index' = index + 1 /\ tables' = tables BY <2>1, <3>1 DEF Table, DeleteTurnKeeps
      <4>2. index + 1 <= Table.num_rows /\ index + 1 \in 0 .. MaxRows BY <1>0, <2>1, <2>2, <2>3
      <4> QED BY <2>1, <2>2, <4>1, <4>2
    <3>2. CASE DeleteTurnRemoves
      <4>1. Table' = tables'[stmt.table] BY <2>1 DEF Table
      <4>2. /\ Table'.columns = Table.columns /\ Table'.num_rows = Table.num_rows - 1
            /\ DOMAIN tables' = DOMAIN tables /\ index' = index
        BY <3>2, <4>1 DEF DeleteTurnRemoves, DeletesAt
      <4>3. index <= Table.num_rows - 1 /\ index \in 0 .. MaxRows BY <1>0, <2>1, <2>2, <2>3
      <4> QED BY <2>1, <2>2, <4>2, <4>3
    <3> QED BY <2>1, <3>1, <3>2
  <2>6. Accepted' BY <2>1, <2>5 DEF Accepted
  <2> QED BY <2>1, <2>4, <2>5, <2>6 DEF StmtOK
<1>6. ASSUME NEW op \in {"select", "delete"}, at = op, undefined = "none",
             index >= Table.num_rows \/ undefined' # "none",
             at' \in {"ready", op}, undefined' \in Faults, at' = op => undefined' # "none",
             UNCHANGED <<tables, stmt, index>>
      PROVE  StmtOK'
  <2>1. Whole(op) BY <1>6 DEF StmtOK
  <2>2. /\ Accepted /\ Table.num_rows \in Nat /\ index \in Nat /\ index <= Table.num_rows
    BY <2>1, StatementIs
  <2>3. Table' = Table /\ \A o : Whole(o)' <=> Whole(o) BY <1>6 DEF Table, Whole
  <2>4. \A o \in {"select", "delete"} : Whole(o) => o = op BY <2>1 DEF Whole
  <2>5. undefined' = "none" => index = Table.num_rows BY <1>6, <2>2
  <2>6. Accepted' BY <1>6, <2>2, <2>3, <2>5 DEF Accepted
  <2> QED BY <1>6, <2>1, <2>3, <2>4, <2>6 DEF StmtOK
<1>7. CASE EndSelect
  BY <1>6, <1>7 DEF EndSelect, Faults
<1>8. CASE EndDelete
  BY <1>6, <1>8 DEF EndDelete, Faults
<1>9. CASE LoopFaults
  <2>1. RowFault \in {"decode", "type", "none"} BY DEF RowFault
  <2> QED BY <1>6, <1>9, <2>1 DEF LoopFaults, InLoop, Faults
<1>10. CASE UNCHANGED vars BY <1>10 DEF vars, StmtOK, Accepted, Table, Whole
<1> QED BY <1>1, <1>2, <1>3, <1>4, <1>5, <1>7, <1>8, <1>9, <1>10 DEF Next

(* Each slot below num_rows holds a row of its own, of the values inserted *)
(* and of the columns declared, on a page that is cached; a statement      *)
(* under way is one the analyzer let through, and index is a place in its  *)
(* table.                                                                  *)
IInv == TablesOK /\ StmtOK

THEOREM Invariance == Spec => []IInv
<1>1. Init => IInv
  <2> SUFFICES ASSUME Init PROVE IInv OBVIOUS
  <2>1. tables = <<>> /\ ideal = <<>> /\ stmt = NoStmt /\ at = "ready" /\ index = 0
        /\ undefined = "none"
    BY DEF Init
  <2>2. DOMAIN tables = {} /\ DOMAIN ideal = {} BY <2>1
  <2>3. \A op : ~Whole(op) BY <2>1 DEF Whole, NoStmt
  <2>4. MaxRows \in Nat BY StatementsAssumption
  <2> QED BY <2>1, <2>2, <2>3, <2>4 DEF IInv, TablesOK, StmtOK, Faults
<1>2. IInv /\ [Next]_vars => IInv' BY TablesKept, StmtKept DEF IInv
<1> QED BY <1>1, <1>2, PTL DEF Spec

LEMMA TypesFollow == IInv => TypeOK
<1> SUFFICES ASSUME IInv PROVE TypeOK OBVIOUS
<1>1. MaxRows \in Nat /\ index \in 0 .. MaxRows BY StatementsAssumption DEF IInv, StmtOK
<1>2. ASSUME NEW n \in DOMAIN tables
      PROVE  /\ tables[n].num_rows \in 0 .. MaxRows /\ tables[n].next_id \in 1 .. MaxId + 1
             /\ tables[n].cached \in 0 .. MaxPages
             /\ DOMAIN tables[n].pages = DOMAIN Blank
             /\ \A r \in ideal[n].rows : r.id \in 1 .. tables[n].next_id - 1
  BY DEF IInv, TablesOK, TableOK, CachedOK, RowsOK, RowFor
<1> QED BY <1>1, <1>2 DEF IInv, TablesOK, StmtOK, TypeOK

\* The types: tables only under names of a length that is allowed, places and
\* numbers within their bounds, pages of their size, ids below next_id.
THEOREM TypeCorrect == Spec => []TypeOK
BY Invariance, TypesFollow, PTL

LEMMA NamesFollow == IInv => NamesMeanTheirColumn
<1> SUFFICES ASSUME IInv, NEW n \in DOMAIN tables, NEW i \in DOMAIN ideal[n].columns
             PROVE  LET declared == ideal[n].columns
                        apart == \A x, y \in DOMAIN declared :
                                   x # y => declared[x].name.head # declared[y].name.head
                        found == IndexOf(tables[n].columns, declared[i].name)
                    IN /\ apart => found \in {0, i}
                       /\ ~declared[i].name.full => found = i
  BY DEF NamesMeanTheirColumn
<1> DEFINE columns == tables[n].columns
           declared == ideal[n].columns
           name == declared[i].name
           found == IndexOf(columns, name)
<1>1. ColumnsOK(columns, declared) BY DEF IInv, TablesOK, TableOK
<1>2. i \in DOMAIN declared OBVIOUS
<1> HIDE DEF columns, declared
<1>3. /\ columns \in Seq(Columns) /\ declared \in Seq(Columns) /\ Len(columns) = Len(declared)
      /\ DOMAIN declared = 1 .. Len(declared)
  BY <1>1 DEF ColumnsOK
<1>4. ASSUME NEW j \in 1 .. Len(declared)
      PROVE  /\ columns[j].name.head = declared[j].name.head
             /\ columns[j].name.full = declared[j].name.full
             /\ ~declared[j].name.full => columns[j] = declared[j]
  <2>1. declared[j] \in Columns BY <1>3
  <2>2. columns[j] \in {declared[j], Restored(declared[j])} BY <1>1 DEF ColumnsOK
  <2> QED BY <2>1, <2>2, RestoredIs
<1>5. \/ found = 0 /\ \A j \in 1 .. Len(columns) : columns[j].name # name
      \/ found \in 1 .. Len(columns) /\ columns[found].name = name
  BY <1>3, IndexFound
<1> HIDE DEF found
<1>6. ASSUME \A x, y \in DOMAIN declared : x # y => declared[x].name.head # declared[y].name.head
      PROVE  found \in {0, i}
  <2>1. CASE found = 0 BY <2>1
  <2>2. CASE found \in 1 .. Len(columns) /\ columns[found].name = name
    <3>1. declared[found].name.head = declared[i].name.head BY <1>3, <1>4, <2>2
    <3> QED BY <1>2, <1>3, <1>6, <2>2, <3>1
  <2> QED BY <1>5, <2>1, <2>2
<1>7. ASSUME ~declared[i].name.full PROVE found = i
  <2>1. columns[i].name = name BY <1>2, <1>3, <1>4, <1>7
  <2>2. found \in 1 .. Len(columns) /\ columns[found].name = name BY <1>2, <1>3, <1>5, <2>1
  <2>3. ~declared[found].name.full BY <1>3, <1>4, <1>7, <2>2
  <2>4. declared[found].name = declared[i].name BY <1>3, <1>4, <2>2, <2>3
  <2>5. Len(declared) \in Nat BY <1>3
  <2>6. \A x, y \in DOMAIN declared : x < y => declared[x].name # declared[y].name
    BY <1>1 DEF ColumnsOK, ColumnsUnique
  <2>7. found \in DOMAIN declared /\ found \in Nat /\ i \in Nat BY <1>2, <1>3, <2>2, <2>5
  <2> QED BY <1>2, <2>4, <2>6, <2>7
<1> QED BY <1>6, <1>7 DEF found, columns, declared

\* A name means the column it was declared for, or none, however often the
\* database is closed and opened, if the names of the table differ in their
\* first MAX_NAME_LENGTH characters; a shorter name means its column always.
THEOREM NamesKeepMeaning == Spec => []NamesMeanTheirColumn
BY Invariance, NamesFollow, PTL

-----------------------------------------------------------------------------
(* Rows that fit                                                           *)

LEMMA FittingAt ==
  ASSUME NEW t, NEW d, TableOK(t, d), NEW i \in 0 .. t.num_rows - 1,
         NEW r \in d.rows, r.id = IdAt(t.columns, t.pages, i), Fitting(t.columns, r.values)
  PROVE  /\ ReadBack(Deserialize(t.pages, t.columns, Address(t.columns, i)), r.values)
         /\ RowValues(t.columns, r.values)
<1>1. RowsOK(t.columns, t.num_rows, t.next_id, t.pages, d.rows) BY DEF TableOK
<1>2. Holds(t.columns, t.pages, i, r) BY <1>1, SlotIsRow
<1>3. /\ Tabular(t.columns) /\ DOMAIN t.pages = DOMAIN Blank
      /\ i \div RowsPerPage(t.columns) < MaxPages /\ RowFor(t.columns, t.next_id, r)
  BY <1>1 DEF RowsOK
<1>4. i \in Nat /\ t.next_id \in Nat BY TableNumbers
<1>5. ReadBack(Deserialize(t.pages, t.columns, Address(t.columns, i)), r.values)
  BY <1>2, <1>3, <1>4, FittingRead
<1> QED BY <1>3, <1>5 DEF RowFor

LEMMA SameFit ==
  ASSUME NEW columns, NEW declared, ColumnsOK(columns, declared), NEW values
  PROVE  Fitting(declared, values) <=> Fitting(columns, values)
<1>1. ASSUME NEW i \in 1 .. Len(declared) PROVE columns[i].type = declared[i].type
  <2>1. declared[i] \in Columns BY DEF ColumnsOK
  <2>2. columns[i] \in {declared[i], Restored(declared[i])} BY DEF ColumnsOK
  <2> QED BY <2>1, <2>2, RestoredIs
<1>2. columns \in Seq(Columns) /\ declared \in Seq(Columns) /\ Len(columns) = Len(declared)
  BY DEF ColumnsOK
<1>3. RowSize(columns) = RowSize(declared) BY <1>1, <1>2, SameSize
<1> QED BY <1>3 DEF Fitting

LEMMA RowsFollow == IInv => FittingRowsIntact
<1> SUFFICES ASSUME IInv, NEW n \in DOMAIN tables
             PROVE  /\ {RowAt(n, i).id : i \in 0 .. tables[n].num_rows - 1} = {r.id : r \in ideal[n].rows}
                    /\ Cardinality(ideal[n].rows) = tables[n].num_rows
                    /\ \A i \in 0 .. tables[n].num_rows - 1 : \A r \in ideal[n].rows :
                         r.id = RowAt(n, i).id /\ Fitting(ideal[n].columns, r.values) =>
                           /\ RowAt(n, i).read
                           /\ Len(RowAt(n, i).values) = Len(r.values)
                           /\ \A k \in DOMAIN r.values :
                                /\ RowAt(n, i).values[k].type = r.values[k].type
                                /\ PrintValue(RowAt(n, i).values[k]) = r.values[k].v
  BY DEF FittingRowsIntact
<1> DEFINE t == tables[n]
           d == ideal[n]
<1>1. TableOK(t, d) BY DEF IInv, TablesOK
<1>2. \A i : RowAt(n, i) = Deserialize(t.pages, t.columns, Address(t.columns, i)) BY DEF RowAt
<1> HIDE DEF t, d
<1>3. RowsOK(t.columns, t.num_rows, t.next_id, t.pages, d.rows) /\ ColumnsOK(t.columns, d.columns)
  BY <1>1 DEF TableOK
<1>4. t.columns \in Seq(Columns) BY <1>1, TableNumbers
<1>5. \A i : RowAt(n, i).id = IdAt(t.columns, t.pages, i) BY <1>2, <1>4, IdIsRead DEF IdAt
<1>6. {RowAt(n, i).id : i \in 0 .. t.num_rows - 1} = {r.id : r \in d.rows}
  <2>1. \A i \in 0 .. t.num_rows - 1 : \E r \in d.rows : r.id = RowAt(n, i).id BY <1>3, <1>5, SlotIsRow
  <2>2. \A r \in d.rows : \E i \in 0 .. t.num_rows - 1 : r.id = RowAt(n, i).id BY <1>3, <1>5, SlotIsRow
  <2> QED BY <2>1, <2>2
<1>7. Cardinality(d.rows) = t.num_rows BY <1>3 DEF RowsOK
<1>8. ASSUME NEW i \in 0 .. t.num_rows - 1, NEW r \in d.rows, r.id = RowAt(n, i).id,
             Fitting(d.columns, r.values)
      PROVE  /\ RowAt(n, i).read
             /\ Len(RowAt(n, i).values) = Len(r.values)
             /\ \A k \in DOMAIN r.values :
                  /\ RowAt(n, i).values[k].type = r.values[k].type
                  /\ PrintValue(RowAt(n, i).values[k]) = r.values[k].v
  <2>1. r.id = IdAt(t.columns, t.pages, i) /\ Fitting(t.columns, r.values) BY <1>3, <1>5, <1>8, SameFit
  <2>2. ReadBack(RowAt(n, i), r.values) /\ RowValues(t.columns, r.values)
    BY <1>1, <1>2, <2>1, FittingAt
  <2> DEFINE values == r.values
             row == RowAt(n, i)
  <2> HIDE DEF values, row
  <2>3. row.read = TRUE /\ row.values = KeptUpTo(values, Len(values)) BY <2>2 DEF ReadBack, row, values
  <2>4. values \in Seq(Values) /\ RowValues(t.columns, values) /\ Len(values) = Len(t.columns)
        /\ DOMAIN values = 1 .. Len(t.columns)
    BY <2>2 DEF RowValues, values
  <2>5. Len(KeptUpTo(values, Len(values))) = Len(values)
    <3>1. Len(values) \in Nat BY <2>4
    <3> QED BY <3>1 DEF KeptUpTo
  <2>6. ASSUME NEW k \in DOMAIN values
        PROVE  row.values[k].type = values[k].type /\ PrintValue(row.values[k]) = values[k].v
    BY <1>4, <2>3, <2>4, ValueOfRow
  <2> QED BY <2>3, <2>5, <2>6 DEF row, values
<1> QED BY <1>6, <1>7, <1>8 DEF t, d

\* A row that fits its slot reads back as it was inserted, wherever DELETE
\* moved it, however the rows around it ran past their slots and whatever was
\* in its slot before; and there is a slot for each row, and no more.
THEOREM RowsReadBack == Spec => []FittingRowsIntact
BY Invariance, RowsFollow, PTL

-----------------------------------------------------------------------------
(* What the loops make of the rows                                         *)

\* A turn looks at a row, and does with one that fits what its values say.
LEMMA HereIs ==
  ASSUME IInv, NEW op \in {"select", "delete"}, InLoop(op)
  PROVE  /\ index \in 0 .. Table.num_rows - 1 /\ stmt.table \in DOMAIN tables
         /\ TableOK(Table, ideal[stmt.table])
         /\ Here.id = IdAt(Table.columns, Table.pages, index)
         /\ \E r \in ideal[stmt.table].rows : r.id = Here.id
<1>1. at = op /\ index < Table.num_rows BY DEF InLoop
<1>2. Whole(op) BY <1>1 DEF IInv, StmtOK
<1>3. /\ stmt.table \in DOMAIN tables /\ TableOK(Table, ideal[stmt.table])
      /\ Table.num_rows \in Nat /\ index \in Nat
  BY <1>2, StatementIs DEF IInv
<1>4. Here.id = IdAt(Table.columns, Table.pages, index) BY <1>3, HereId DEF IInv
<1>5. index \in 0 .. Table.num_rows - 1 BY <1>1, <1>3
<1>6. RowsOK(Table.columns, Table.num_rows, Table.next_id, Table.pages, ideal[stmt.table].rows)
  BY <1>3 DEF TableOK
<1>7. \E r \in ideal[stmt.table].rows : r.id = IdAt(Table.columns, Table.pages, index)
  BY <1>5, <1>6, SlotIsRow
<1> QED BY <1>3, <1>4, <1>5, <1>7

LEMMA HereFits ==
  ASSUME IInv, NEW op \in {"select", "delete"}, InLoop(op),
         NEW r \in ideal[stmt.table].rows, r.id = Here.id, Fitting(Table.columns, r.values)
  PROVE  /\ Here.read = TRUE
         /\ WhereTyped(Table.columns, stmt, Here.values)
         /\ Chosen(Table.columns, stmt, Here.values) <=> Meets(Table.columns, stmt.where, r.values)
         /\ op = "select" => /\ PrintTyped(Table.columns, stmt, Here.values)
                             /\ PrintRow(Table.columns, stmt, Here.values)
                                  = Shown(Table.columns, stmt, r.values)
<1>1. /\ index \in 0 .. Table.num_rows - 1 /\ TableOK(Table, ideal[stmt.table])
      /\ r.id = IdAt(Table.columns, Table.pages, index)
  BY HereIs
<1>2. ReadBack(Here, r.values) /\ RowValues(Table.columns, r.values)
  BY <1>1, FittingAt DEF Here
<1>3. Whole(op) BY DEF InLoop, IInv, StmtOK
<1>4. Table.columns \in Seq(Columns) /\ Checked(Table.columns, stmt) /\ Accepted /\ stmt.op = op
  BY <1>3, StatementIs DEF IInv
<1>5. Here.read = TRUE /\ Here.values = KeptUpTo(r.values, Len(r.values)) BY <1>2 DEF ReadBack
<1>6. /\ WhereTyped(Table.columns, stmt, Here.values)
      /\ Chosen(Table.columns, stmt, Here.values) <=> Meets(Table.columns, stmt.where, r.values)
  BY <1>2, <1>4, <1>5, ConditionMeant
<1>7. ASSUME op = "select"
      PROVE  /\ PrintTyped(Table.columns, stmt, Here.values)
             /\ PrintRow(Table.columns, stmt, Here.values) = Shown(Table.columns, stmt, r.values)
  <2>1. stmt.all \/ ColumnsKnown(Table.columns, stmt.list) BY <1>4, <1>7 DEF Accepted
  <2> QED BY <1>2, <1>4, <1>5, <2>1, PrintMeant
<1> QED BY <1>5, <1>6, <1>7

LEMMA FaultIsLong ==
  ASSUME IInv, NEW op \in {"select", "delete"}, InLoop(op), RowFault # "none"
  PROVE  \E r \in ideal[stmt.table].rows : r.id = Here.id /\ ~Fitting(Table.columns, r.values)
<1>1. PICK r \in ideal[stmt.table].rows : r.id = Here.id BY HereIs
<1>2. SUFFICES ASSUME Fitting(Table.columns, r.values) PROVE FALSE BY <1>1
<1>3. /\ Here.read = TRUE /\ WhereTyped(Table.columns, stmt, Here.values)
      /\ op = "select" => PrintTyped(Table.columns, stmt, Here.values)
  BY <1>1, <1>2, HereFits
<1>4. at = op BY DEF InLoop
<1> QED BY <1>3, <1>4 DEF RowFault

\* The row written past its page did not fit its slot.
LEMMA OverflowIsLong ==
  ASSUME IInv, Insert, undefined' = "overflow"
  PROVE  \E n \in DOMAIN tables' : \E r \in ideal'[n].rows :
           r.id = tables'[n].next_id - 1 /\ ~Fitting(tables'[n].columns, r.values)
<1>1. PICK s \in Inserts :
        LET t == tables[s.table]
            cells == Serialize(t.next_id, RowSize(t.columns), s.values)
        IN /\ AnalyzeInsert(s) = "SUCCESS"
           /\ tables' = [tables EXCEPT ![s.table] =
                [t EXCEPT !.pages = Written(t, cells), !.num_rows = @ + 1, !.next_id = @ + 1,
                          !.cached = IF @ <= LastPage(t) THEN LastPage(t) + 1 ELSE @]]
           /\ ideal' = [ideal EXCEPT ![s.table].rows =
                @ \cup {[id |-> t.next_id, values |-> s.values]}]
           /\ undefined' = IF Address(t.columns, t.num_rows) + Len(cells) > PageEnd(t.columns, t.num_rows)
                           THEN "overflow" ELSE "none"
  BY DEF Insert
<1>2. /\ s.table \in DOMAIN tables /\ RowValues(tables[s.table].columns, s.values)
      /\ TableOK(tables[s.table], ideal[s.table])
  BY <1>1, InsertAccepted DEF IInv
<1> DEFINE t == tables[s.table]
           d == ideal[s.table]
           r == [id |-> t.next_id, values |-> s.values]
           cells == Serialize(t.next_id, RowSize(t.columns), s.values)
           u == [t EXCEPT !.pages = Written(t, cells), !.num_rows = @ + 1, !.next_id = @ + 1,
                          !.cached = IF @ <= LastPage(t) THEN LastPage(t) + 1 ELSE @]
           from == Address(t.columns, t.num_rows)
           end == PageEnd(t.columns, t.num_rows)
<1>3. from + Len(cells) > end BY <1>1
<1>4. /\ Tabular(t.columns) /\ t.num_rows \in Nat /\ t.next_id \in Nat
      /\ DOMAIN t = TableFields /\ DOMAIN d = {"columns", "rows"}
  BY <1>2, TableNumbers DEF TableOK
<1>5. from \in Nat /\ from + RowSize(t.columns) <= end BY <1>4, SlotInPage
<1>6. RowSize(t.columns) \in Nat BY <1>4, PageHoldsRows
<1>7. Len(cells) \in Nat /\ Len(Serialize(0, 0, s.values)) = Len(cells)
  BY <1>2, <1>4, CellsOfRow
<1>8. end \in Nat
  <2> DEFINE p == t.num_rows \div RowsPerPage(t.columns)
  <2>1. RowsPerPage(t.columns) \in Nat \ {0} BY <1>4, PageHoldsRows
  <2>2. p \in Nat BY <1>4, <2>1, QuotientIs
  <2>3. PageSize \in Nat BY StatementsAssumption
  <2>4. (p + 1) * PageSize \in Nat
    <3> HIDE DEF p
    <3>1. p + 1 \in Nat BY <2>2
    <3> QED BY <2>3, <3>1, ProductGrows
  <2> QED BY <2>4 DEF PageEnd
<1>9. ~Fitting(t.columns, s.values)
  <2>1. Len(cells) > RowSize(t.columns)
    <3> HIDE DEF cells, from, end
    <3> QED BY <1>3, <1>5, <1>6, <1>7, <1>8
  <2> HIDE DEF cells
  <2> QED BY <1>6, <1>7, <2>1 DEF Fitting
<1>10. u.columns = t.columns /\ u.next_id = t.next_id + 1 BY <1>4 DEF TableFields
<1>11. tables' = [tables EXCEPT ![s.table] = u] BY <1>1
<1>12. ideal' = [ideal EXCEPT ![s.table] = [d EXCEPT !.rows = @ \cup {r}]] BY <1>1
<1>13. r.id = t.next_id /\ r.values = s.values OBVIOUS
<1>14. DOMAIN ideal = DOMAIN tables BY DEF IInv, TablesOK
<1> HIDE DEF u, r, cells
<1>15. tables'[s.table] = u /\ s.table \in DOMAIN tables' BY <1>2, <1>11
<1>16. r \in ideal'[s.table].rows BY <1>2, <1>4, <1>12, <1>14
<1>17. r.id = tables'[s.table].next_id - 1 BY <1>4, <1>10, <1>13, <1>15
<1>18. ~Fitting(tables'[s.table].columns, r.values) BY <1>9, <1>10, <1>13, <1>15
<1> QED BY <1>15, <1>16, <1>17, <1>18

-----------------------------------------------------------------------------
(* SELECT                                                                  *)

Line(columns, s, r) == [id |-> r.id, values |-> Shown(columns, s, r.values)]

\* What is printed once the rows of the slots below i are looked at.
PrintedOK(columns, s, pages, rows, i, out) ==
  /\ \E lines : out \in Seq(lines)
  /\ \A k \in DOMAIN out : \E j \in 0 .. i - 1 : out[k].id = IdAt(columns, pages, j)
  /\ \A j, k \in DOMAIN out : out[j].id = out[k].id => j = k
  /\ \A k \in DOMAIN out : \A r \in rows :
       r.id = out[k].id /\ Fitting(columns, r.values) =>
         Meets(columns, s.where, r.values) /\ out[k] = Line(columns, s, r)
  /\ \A j \in 0 .. i - 1 : \A r \in rows :
       (r.id = IdAt(columns, pages, j) /\ Fitting(columns, r.values)
        /\ Meets(columns, s.where, r.values)) =>
          \E k \in DOMAIN out : out[k] = Line(columns, s, r)

LEMMA LineAdded ==
  ASSUME NEW columns, NEW n, NEW next, NEW pages, NEW rows, RowsOK(columns, n, next, pages, rows),
         NEW s, NEW i \in 0 .. n - 1, NEW out, PrintedOK(columns, s, pages, rows, i, out),
         NEW line, line.id = IdAt(columns, pages, i),
         \A r \in rows : r.id = line.id /\ Fitting(columns, r.values) =>
           Meets(columns, s.where, r.values) /\ line = Line(columns, s, r)
  PROVE  PrintedOK(columns, s, pages, rows, i + 1, Append(out, line))
<1> DEFINE new == Append(out, line)
<1>1. PICK lines : out \in Seq(lines) BY DEF PrintedOK
<1>2. out \in Seq(lines \cup {line}) BY <1>1
<1>3. /\ new \in Seq(lines \cup {line}) /\ Len(out) \in Nat
      /\ DOMAIN out = 1 .. Len(out) /\ DOMAIN new = 1 .. Len(out) + 1
      /\ \A k \in 1 .. Len(out) : new[k] = out[k]
      /\ new[Len(out) + 1] = line
  BY <1>2
<1>4. n \in Nat /\ i \in Nat
  <2>1. n \in 0 .. MaxRows /\ MaxRows \in Nat BY StatementsAssumption DEF RowsOK
  <2> QED BY <2>1
<1> DEFINE id(j) == IdAt(columns, pages, j)
<1> HIDE DEF new
<1>5. \A k \in DOMAIN new : k \in DOMAIN out \/ k = Len(out) + 1 BY <1>3
<1>6. \A j \in 0 .. (i + 1) - 1 : j \in 0 .. i - 1 \/ j = i BY <1>4
<1>7. 0 .. i - 1 \in SUBSET (0 .. (i + 1) - 1) /\ i \in 0 .. (i + 1) - 1 BY <1>4
<1>8. DOMAIN out \in SUBSET (DOMAIN new) /\ Len(out) + 1 \in DOMAIN new BY <1>3
<1>9. ASSUME NEW k \in DOMAIN out PROVE out[k].id # line.id
  <2>1. PICK j \in 0 .. i - 1 : out[k].id = id(j) BY DEF PrintedOK
  <2>2. \A x, y \in 0 .. n - 1 : id(x) = id(y) => x = y BY DEF RowsOK
  <2>3. j \in 0 .. n - 1 /\ j # i BY <1>4
  <2> QED BY <2>1, <2>2, <2>3
<1>10. ASSUME NEW k \in DOMAIN new PROVE \E j \in 0 .. (i + 1) - 1 : new[k].id = id(j)
  <2>1. CASE k \in DOMAIN out BY <1>3, <1>7, <2>1 DEF PrintedOK
  <2>2. CASE k = Len(out) + 1 BY <1>3, <1>7, <2>2
  <2> QED BY <1>5, <2>1, <2>2
<1>11. ASSUME NEW j \in DOMAIN new, NEW k \in DOMAIN new, new[j].id = new[k].id PROVE j = k
  <2>1. CASE j \in DOMAIN out /\ k \in DOMAIN out BY <1>3, <1>11, <2>1 DEF PrintedOK
  <2>2. CASE j \in DOMAIN out /\ k = Len(out) + 1 BY <1>3, <1>9, <1>11, <2>2
  <2>3. CASE j = Len(out) + 1 /\ k \in DOMAIN out BY <1>3, <1>9, <1>11, <2>3
  <2> QED BY <1>5, <2>1, <2>2, <2>3
<1>12. ASSUME NEW k \in DOMAIN new, NEW r \in rows, r.id = new[k].id, Fitting(columns, r.values)
       PROVE  Meets(columns, s.where, r.values) /\ new[k] = Line(columns, s, r)
  <2>1. CASE k \in DOMAIN out BY <1>3, <1>12, <2>1 DEF PrintedOK
  <2>2. CASE k = Len(out) + 1 BY <1>3, <1>12, <2>2
  <2> QED BY <1>5, <2>1, <2>2
<1>13. ASSUME NEW j \in 0 .. (i + 1) - 1, NEW r \in rows, r.id = id(j), Fitting(columns, r.values),
              Meets(columns, s.where, r.values)
       PROVE  \E k \in DOMAIN new : new[k] = Line(columns, s, r)
  <2>1. CASE j \in 0 .. i - 1
    <3>1. PICK k \in DOMAIN out : out[k] = Line(columns, s, r) BY <1>13, <2>1 DEF PrintedOK
    <3> QED BY <1>3, <1>8, <3>1
  <2>2. CASE j = i
    <3>1. line = Line(columns, s, r) BY <1>13, <2>2
    <3> QED BY <1>3, <1>8, <3>1
  <2> QED BY <1>6, <2>1, <2>2
<1> QED BY <1>3, <1>10, <1>11, <1>12, <1>13 DEF PrintedOK, new

LEMMA LineSkipped ==
  ASSUME NEW columns, NEW pages, NEW rows, NEW s, NEW i \in Nat,
         NEW out, PrintedOK(columns, s, pages, rows, i, out),
         \A r \in rows : r.id = IdAt(columns, pages, i) /\ Fitting(columns, r.values) =>
           ~Meets(columns, s.where, r.values)
  PROVE  PrintedOK(columns, s, pages, rows, i + 1, out)
<1>1. \A j \in 0 .. (i + 1) - 1 : j \in 0 .. i - 1 \/ j = i OBVIOUS
<1>2. 0 .. i - 1 \in SUBSET (0 .. (i + 1) - 1) OBVIOUS
<1>3. ASSUME NEW j \in 0 .. (i + 1) - 1, NEW r \in rows, r.id = IdAt(columns, pages, j),
             Fitting(columns, r.values), Meets(columns, s.where, r.values)
      PROVE  \E k \in DOMAIN out : out[k] = Line(columns, s, r)
  <2>1. j \in 0 .. i - 1 BY <1>1, <1>3
  <2> QED BY <1>3, <2>1 DEF PrintedOK
<1>4. \A k \in DOMAIN out : \E j \in 0 .. (i + 1) - 1 : out[k].id = IdAt(columns, pages, j)
  BY <1>2 DEF PrintedOK
<1> QED BY <1>3, <1>4 DEF PrintedOK

SelectOK ==
  Whole("select") =>
    /\ ideal[stmt.table].rows = before
    /\ PrintedOK(Table.columns, stmt, Table.pages, before, index, output)

LEMMA SelectKept ==
  ASSUME IInv, SelectOK, [Next]_vars
  PROVE  SelectOK'
<1>1. CASE Refused \/ Create \/ Drop \/ InsertFails \/ Insert \/ InsertFaults \/ Reopen
  BY <1>1, StatementOver DEF SelectOK
<1>2. CASE BeginSelect
  <2>1. PICK s \in Selects : Begin(s, "select") BY <1>2 DEF BeginSelect
  <2>2. /\ stmt' = s /\ index' = 0 /\ output' = <<>> /\ ideal' = ideal
        /\ before' = ideal[s.table].rows
    BY <2>1 DEF Begin
  <2>3. ASSUME NEW columns, NEW pages, NEW rows PROVE PrintedOK(columns, s, pages, rows, 0, <<>>)
    <3>1. 0 .. 0 - 1 = {} /\ DOMAIN (<<>>) = {} /\ (<<>>) \in Seq({}) OBVIOUS
    <3> QED BY <3>1 DEF PrintedOK
  <2>4. PrintedOK(Table'.columns, stmt', Table'.pages, before', index', output') BY <2>2, <2>3
  <2> QED BY <2>2, <2>4 DEF SelectOK
<1>3. CASE BeginDelete
  <2>1. PICK s \in Deletes : Begin(s, "delete") BY <1>3 DEF BeginDelete
  <2>2. stmt' = s /\ s.op = "delete" BY <2>1 DEF Begin, Deletes
  <2> QED BY <2>2 DEF SelectOK, Whole
<1>4. CASE SelectTurn
  <2> DEFINE columns == Table.columns
             pages == Table.pages
             line == [id |-> Here.id, values |-> PrintRow(columns, stmt, Here.values)]
  <2>1. /\ InLoop("select") /\ at = "select" /\ index' = index + 1
        /\ output' = IF Chosen(columns, stmt, Here.values) THEN Append(output, line) ELSE output
        /\ UNCHANGED <<tables, stmt, ideal, before>>
    BY <1>4 DEF SelectTurn, InLoop
  <2>2. Whole("select") BY <2>1 DEF IInv, StmtOK
  <2>3. /\ index \in 0 .. Table.num_rows - 1 /\ TableOK(Table, ideal[stmt.table])
        /\ Here.id = IdAt(columns, pages, index)
    BY <2>1, HereIs
  <2>4. index \in Nat BY <2>2, StatementIs DEF IInv
  <2>5. before = ideal[stmt.table].rows /\ PrintedOK(columns, stmt, pages, before, index, output)
    BY <2>2 DEF SelectOK
  <2>6. RowsOK(columns, Table.num_rows, Table.next_id, pages, before) BY <2>3, <2>5 DEF TableOK
  <2>7. ASSUME NEW r \in before, r.id = Here.id, Fitting(columns, r.values)
        PROVE  /\ Chosen(columns, stmt, Here.values) <=> Meets(columns, stmt.where, r.values)
               /\ PrintRow(columns, stmt, Here.values) = Shown(columns, stmt, r.values)
    BY <2>1, <2>5, <2>7, HereFits
  <2>8. PrintedOK(columns, stmt, pages, before, index + 1, output')
    <3>1. CASE Chosen(columns, stmt, Here.values)
      <4>1. line.id = IdAt(columns, pages, index) BY <2>3
      <4>2. \A r \in before : r.id = line.id /\ Fitting(columns, r.values) =>
              Meets(columns, stmt.where, r.values) /\ line = Line(columns, stmt, r)
        BY <2>7, <3>1 DEF Line
      <4> HIDE DEF line, columns, pages
      <4>3. PrintedOK(columns, stmt, pages, before, index + 1, Append(output, line))
        BY <2>3, <2>5, <2>6, <4>1, <4>2, LineAdded
      <4> QED BY <2>1, <3>1, <4>3
    <3>2. CASE ~Chosen(columns, stmt, Here.values)
      <4>1. \A r \in before : r.id = IdAt(columns, pages, index) /\ Fitting(columns, r.values) =>
              ~Meets(columns, stmt.where, r.values)
        BY <2>3, <2>7, <3>2
      <4> HIDE DEF line, columns, pages
      <4>2. PrintedOK(columns, stmt, pages, before, index + 1, output)
        BY <2>4, <2>5, <4>1, LineSkipped
      <4> QED BY <2>1, <3>2, <4>2
    <3> QED BY <3>1, <3>2
  <2>9. Table' = Table BY <2>1 DEF Table
  <2> QED BY <2>1, <2>5, <2>8, <2>9 DEF SelectOK
<1>5. CASE EndSelect \/ LoopFaults \/ EndDelete \/ UNCHANGED vars
  <2>1. UNCHANGED <<tables, stmt, index, output, ideal, before>>
    BY <1>5 DEF EndSelect, LoopFaults, EndDelete, vars
  <2> QED BY <2>1 DEF SelectOK, Whole, Table
<1>6. CASE DeleteTurn
  <2>1. at = "delete" /\ stmt' = stmt BY <1>6 DEF DeleteTurn, InLoop
  <2>2. Whole("delete") BY <2>1 DEF IInv, StmtOK
  <2> QED BY <2>1, <2>2 DEF SelectOK, Whole
<1> QED BY <1>1, <1>2, <1>3, <1>4, <1>5, <1>6 DEF Next

LEMMA SelectsFollow ==
  ASSUME IInv, SelectOK
  PROVE  SelectsWhatItSays
<1> SUFFICES ASSUME Done("select") PROVE SelectsWhatItSays BY DEF SelectsWhatItSays
<1> DEFINE columns == tables[stmt.table].columns
           pages == Table.pages
           n == Table.num_rows
           fit == {r \in before : Fitting(columns, r.values)}
           met == {r \in fit : Meets(columns, stmt.where, r.values)}
           shown(values) == IF stmt.all THEN [k \in DOMAIN values |-> values[k].v]
                            ELSE [k \in DOMAIN stmt.list |-> values[IndexOf(columns, stmt.list[k])].v]
           printed == {output[k] : k \in DOMAIN output}
<1>1. Whole("select") /\ at = "ready" /\ undefined = "none" BY DEF Done, Whole
<1>2. index = n /\ TableOK(Table, ideal[stmt.table])
  BY <1>1, StatementIs DEF IInv, Accepted
<1>3. before = ideal[stmt.table].rows /\ PrintedOK(columns, stmt, pages, before, n, output)
  BY <1>1, <1>2 DEF SelectOK, Table
<1>4. RowsOK(columns, n, Table.next_id, pages, before) BY <1>2, <1>3 DEF TableOK, Table
<1> HIDE DEF columns, pages, n
<1>5. \A j, k \in DOMAIN output : output[j].id = output[k].id => j = k BY <1>3 DEF PrintedOK
<1>6. ASSUME NEW o \in printed PROVE \E r \in before : r.id = o.id
  <2>1. PICK k \in DOMAIN output : o = output[k] OBVIOUS
  <2>2. PICK j \in 0 .. n - 1 : output[k].id = IdAt(columns, pages, j) BY <1>3 DEF PrintedOK
  <2> QED BY <1>4, <2>1, <2>2, SlotIsRow
<1>7. ASSUME NEW o \in printed, NEW r \in fit, r.id = o.id
      PROVE  r \in met /\ o = Line(columns, stmt, r)
  <2>1. PICK k \in DOMAIN output : o = output[k] OBVIOUS
  <2> QED BY <1>3, <1>7, <2>1 DEF PrintedOK
<1>8. ASSUME NEW r \in met PROVE Line(columns, stmt, r) \in printed
  <2>1. PICK j \in 0 .. n - 1 : r.id = IdAt(columns, pages, j) BY <1>4, SlotIsRow
  <2>2. Fitting(columns, r.values) /\ Meets(columns, stmt.where, r.values) OBVIOUS
  <2>3. PICK k \in DOMAIN output : output[k] = Line(columns, stmt, r) BY <1>3, <2>1, <2>2 DEF PrintedOK
  <2> QED BY <2>3
<1>9. \A r : Line(columns, stmt, r).id = r.id BY DEF Line
<1>10. {o \in printed : \E r \in fit : r.id = o.id} = {Line(columns, stmt, r) : r \in met}
  <2>1. ASSUME NEW o \in printed, NEW r \in fit, r.id = o.id
        PROVE  o \in {Line(columns, stmt, q) : q \in met}
    BY <1>7, <2>1
  <2>2. ASSUME NEW r \in met
        PROVE  /\ Line(columns, stmt, r) \in printed
               /\ \E q \in fit : q.id = Line(columns, stmt, r).id
    BY <1>8, <1>9
  <2> HIDE DEF printed, fit, met
  <2> QED BY <2>1, <2>2
<1>11. \A r : Line(columns, stmt, r) = [id |-> r.id, values |-> shown(r.values)]
  BY Zenon DEF Line, Shown
<1>12. {o \in printed : \E r \in fit : r.id = o.id} = {[id |-> r.id, values |-> shown(r.values)] : r \in met}
  <2> HIDE DEF printed, fit, met, shown
  <2> QED BY <1>10, <1>11, Zenon
<1> QED BY <1>3, <1>5, <1>6, <1>12, Zenon DEF SelectsWhatItSays, columns

\* A SELECT that comes to its end has printed a row that fits exactly if it
\* meets the condition, once and with exactly the columns asked for, nothing
\* that is not a row of the table, and has changed none.
THEOREM SelectIsRight == Spec => []SelectsWhatItSays
<1>1. Init => SelectOK BY DEF Init, SelectOK, Whole, NoStmt
<1>2. IInv /\ SelectOK /\ [Next]_vars => SelectOK' BY SelectKept
<1>3. IInv /\ SelectOK => SelectsWhatItSays BY SelectsFollow
<1> QED BY <1>1, <1>2, <1>3, Invariance, PTL DEF Spec

-----------------------------------------------------------------------------
(* DELETE                                                                  *)

\* What is removed and left once the rows of the slots below i are looked at.
RemovedOK(columns, where, pages, rows, was, i, any) ==
  /\ rows \subseteq was /\ any \in BOOLEAN /\ (any <=> rows # was)
  /\ \A r \in was \ rows : Fitting(columns, r.values) => Meets(columns, where, r.values)
  /\ \A j \in 0 .. i - 1 : \A r \in rows :
       r.id = IdAt(columns, pages, j) /\ Fitting(columns, r.values) => ~Meets(columns, where, r.values)

DeleteOK ==
  Whole("delete") =>
    /\ RemovedOK(Table.columns, stmt.where, Table.pages, ideal[stmt.table].rows, before, index, deleted_any)
    /\ deleted_any => LastPage(Table) < Table.cached
    /\ at = "ready" => result = IF deleted_any THEN "EXECUTE_SUCCESS" ELSE "EXECUTE_FAILURE"

LEMMA DeleteKept ==
  ASSUME IInv, DeleteOK, [Next]_vars
  PROVE  DeleteOK'
<1>1. CASE Refused \/ Create \/ Drop \/ InsertFails \/ Insert \/ InsertFaults \/ Reopen
  BY <1>1, StatementOver DEF DeleteOK
<1>2. CASE BeginDelete
  <2>1. PICK s \in Deletes : Begin(s, "delete") BY <1>2 DEF BeginDelete
  <2>2. /\ stmt' = s /\ index' = 0 /\ ideal' = ideal /\ before' = ideal[s.table].rows
        /\ deleted_any' = FALSE /\ at' = "delete"
    BY <2>1 DEF Begin
  <2>3. 0 .. 0 - 1 = {} OBVIOUS
  <2>4. \A columns, where, pages, rows : RemovedOK(columns, where, pages, rows, rows, 0, FALSE)
    BY <2>3 DEF RemovedOK
  <2>5. ideal'[stmt'.table].rows = before' BY <2>2
  <2> QED BY <2>2, <2>4, <2>5 DEF DeleteOK
<1>3. CASE BeginSelect
  <2>1. PICK s \in Selects : Begin(s, "select") BY <1>3 DEF BeginSelect
  <2>2. stmt' = s /\ s.op = "select" BY <2>1 DEF Begin, Selects
  <2> QED BY <2>2 DEF DeleteOK, Whole
<1>4. CASE DeleteTurn
  <2> DEFINE columns == Table.columns
             pages == Table.pages
             where == stmt.where
             rows == ideal[stmt.table].rows
  <2>1. /\ Whole("delete") /\ Accepted /\ at = "delete" /\ index \in 0 .. Table.num_rows - 1
        /\ UNCHANGED <<stmt, at, before>>
        /\ IF Chosen(columns, stmt, Here.values) THEN DeleteTurnRemoves ELSE DeleteTurnKeeps
    BY <1>4, DeleteTurnIs DEF IInv
  <2>2. InLoop("delete") BY <1>4 DEF DeleteTurn
  <2>3. /\ TableOK(Table, ideal[stmt.table]) /\ Here.id = IdAt(columns, pages, index)
    BY <2>2, HereIs
  <2>4. RemovedOK(columns, where, pages, rows, before, index, deleted_any) BY <2>1 DEF DeleteOK
  <2>5. ASSUME NEW r \in rows, r.id = Here.id, Fitting(columns, r.values)
        PROVE  Chosen(columns, stmt, Here.values) <=> Meets(columns, where, r.values)
    BY <2>2, <2>5, HereFits
  <2>6. index \in Nat /\ Table.num_rows \in Nat BY <2>1, StatementIs DEF IInv
  <2>7. CASE Chosen(columns, stmt, Here.values)
    <3> DEFINE u == tables'[stmt.table]
               e == ideal'[stmt.table]
    <3>1. /\ DeletesAt(Table, ideal[stmt.table], index, u, e) /\ index' = index /\ deleted_any' = TRUE
      BY <2>1, <2>7 DEF DeleteTurnRemoves
    <3>2. PICK gone \in rows : gone.id = IdAt(columns, pages, index) /\ e.rows = rows \ {gone}
      BY <3>1 DEF DeletesAt
    <3>3. u.columns = columns /\ \A j \in 0 .. index - 1 : IdAt(columns, u.pages, j) = IdAt(columns, pages, j)
      <4>1. \A j \in 0 .. Table.num_rows - 2 :
              j # index => IdAt(columns, u.pages, j) = IdAt(columns, pages, j)
        BY <3>1 DEF DeletesAt
      <4>2. \A j \in 0 .. index - 1 : j \in 0 .. Table.num_rows - 2 /\ j # index BY <2>1, <2>6
      <4>3. u.columns = columns BY <3>1 DEF DeletesAt
      <4> QED BY <4>1, <4>2, <4>3
    <3>4. Fitting(columns, gone.values) => Meets(columns, where, gone.values)
      BY <2>3, <2>5, <2>7, <3>2
    <3> HIDE DEF columns, pages, where, rows, u, e
    <3>5. RemovedOK(columns, where, u.pages, e.rows, before, index, TRUE)
      <4>1. /\ e.rows \subseteq before /\ e.rows # before BY <2>4, <3>2 DEF RemovedOK
      <4>2. \A r \in before \ e.rows : Fitting(columns, r.values) => Meets(columns, where, r.values)
        BY <2>4, <3>2, <3>4 DEF RemovedOK
      <4>3. \A j \in 0 .. index - 1 : \A r \in e.rows :
              r.id = IdAt(columns, u.pages, j) /\ Fitting(columns, r.values) =>
                ~Meets(columns, where, r.values)
        BY <2>4, <3>2, <3>3 DEF RemovedOK
      <4> QED BY <4>1, <4>2, <4>3 DEF RemovedOK
    <3>6. Table' = u /\ ideal'[stmt'.table] = e /\ stmt'.where = where
      BY <2>1 DEF Table, u, e, where
    <3>7. LastPage(u) < u.cached
      <4>1. /\ u.num_rows = Table.num_rows - 1 /\ u.cached = Table.cached /\ u.columns = Table.columns
        BY <3>1 DEF DeletesAt
      <4>2. \A i \in 0 .. Table.num_rows - 1 : i \div RowsPerPage(Table.columns) < Table.cached
        BY <2>3, TableNumbers
      <4>3. Table.num_rows - 1 \in 0 .. Table.num_rows - 1 BY <2>1, <2>6
      <4> QED BY <4>1, <4>2, <4>3 DEF LastPage
    <3> QED BY <2>1, <3>1, <3>3, <3>5, <3>6, <3>7 DEF DeleteOK
  <2>8. CASE ~Chosen(columns, stmt, Here.values)
    <3>1. index' = index + 1 /\ tables' = tables /\ ideal' = ideal /\ deleted_any' = deleted_any
      BY <2>1, <2>8 DEF DeleteTurnKeeps
    <3>2. \A r \in rows : r.id = IdAt(columns, pages, index) /\ Fitting(columns, r.values) =>
            ~Meets(columns, where, r.values)
      BY <2>3, <2>5, <2>8
    <3> HIDE DEF columns, pages, where, rows
    <3>3. \A j \in 0 .. (index + 1) - 1 : j \in 0 .. index - 1 \/ j = index BY <2>6
    <3>4. RemovedOK(columns, where, pages, rows, before, index + 1, deleted_any)
      BY <2>4, <3>2, <3>3 DEF RemovedOK
    <3>5. Table' = Table /\ ideal'[stmt'.table].rows = rows /\ stmt'.where = where
      BY <2>1, <3>1 DEF Table, rows, where
    <3> QED BY <2>1, <3>1, <3>4, <3>5 DEF DeleteOK, columns, pages
  <2> QED BY <2>7, <2>8
<1>5. CASE EndDelete
  <2>1. /\ at = "delete" /\ UNCHANGED <<tables, stmt, index, deleted_any, ideal, before>>
        /\ result' = IF deleted_any /\ LastPage(Table) < Table.cached
                     THEN "EXECUTE_SUCCESS" ELSE "EXECUTE_FAILURE"
    BY <1>5 DEF EndDelete
  <2>2. Whole("delete") BY <2>1 DEF IInv, StmtOK
  <2>3. deleted_any => LastPage(Table) < Table.cached BY <2>2 DEF DeleteOK
  <2>4. Table' = Table /\ stmt' = stmt BY <2>1 DEF Table
  <2> QED BY <2>1, <2>2, <2>3, <2>4 DEF DeleteOK
<1>6. CASE LoopFaults \/ UNCHANGED vars
  <2>1. UNCHANGED <<tables, stmt, at, index, deleted_any, result, ideal, before>>
    BY <1>6 DEF LoopFaults, vars
  <2> QED BY <2>1 DEF DeleteOK, Whole, Table
<1>7. CASE SelectTurn \/ EndSelect
  <2>1. at = "select" /\ stmt' = stmt BY <1>7 DEF SelectTurn, EndSelect, InLoop
  <2>2. Whole("select") BY <2>1 DEF IInv, StmtOK
  <2> QED BY <2>1, <2>2 DEF DeleteOK, Whole
<1> QED BY <1>1, <1>2, <1>3, <1>4, <1>5, <1>6, <1>7 DEF Next

LEMMA DeletesFollow ==
  ASSUME IInv, DeleteOK
  PROVE  DeletesWhatItSays
<1> SUFFICES ASSUME Done("delete") PROVE DeletesWhatItSays BY DEF DeletesWhatItSays
<1> DEFINE columns == Table.columns
           pages == Table.pages
           n == Table.num_rows
           left == ideal[stmt.table].rows
<1>1. Whole("delete") /\ at = "ready" /\ undefined = "none" BY DEF Done, Whole
<1>2. index = n /\ TableOK(Table, ideal[stmt.table])
  BY <1>1, StatementIs DEF IInv, Accepted
<1>3. /\ RemovedOK(columns, stmt.where, pages, left, before, n, deleted_any)
      /\ result = IF deleted_any THEN "EXECUTE_SUCCESS" ELSE "EXECUTE_FAILURE"
  BY <1>1, <1>2 DEF DeleteOK
<1>4. RowsOK(columns, n, Table.next_id, pages, left) BY <1>2 DEF TableOK
<1>5. tables[stmt.table].columns = columns BY DEF Table
<1> HIDE DEF columns, pages, n, left
<1>6. ASSUME NEW r \in before, Fitting(columns, r.values)
      PROVE  r \in left <=> ~Meets(columns, stmt.where, r.values)
  <2>1. CASE r \in left
    <3>1. PICK j \in 0 .. n - 1 : r.id = IdAt(columns, pages, j) BY <1>4, <2>1, SlotIsRow
    <3> QED BY <1>3, <1>6, <2>1, <3>1 DEF RemovedOK
  <2>2. CASE r \notin left BY <1>3, <1>6, <2>2 DEF RemovedOK
  <2> QED BY <2>1, <2>2
<1>7. left \subseteq before /\ (result = "EXECUTE_SUCCESS" <=> left # before) BY <1>3 DEF RemovedOK
<1> QED BY <1>5, <1>6, <1>7 DEF DeletesWhatItSays, left

\* A DELETE that comes to its end has removed a row that fits exactly if it
\* meets the condition, those among them that took the place of a row removed,
\* and reports success exactly if it removed one.
THEOREM DeleteIsRight == Spec => []DeletesWhatItSays
<1>1. Init => DeleteOK BY DEF Init, DeleteOK, Whole, NoStmt
<1>2. IInv /\ DeleteOK /\ [Next]_vars => DeleteOK' BY DeleteKept
<1>3. IInv /\ DeleteOK => DeletesWhatItSays BY DeletesFollow
<1> QED BY <1>1, <1>2, <1>3, Invariance, PTL DEF Spec

-----------------------------------------------------------------------------
(* Undefined behaviour                                                     *)

\* The page behind the last row is one too many only if all pages are full.
LEMMA PagesFull ==
  ASSUME NEW t, NEW d, TableOK(t, d), LastPage(t) >= MaxPages
  PROVE  t.num_rows = MaxPages * RowsPerPage(t.columns)
<1> DEFINE n == t.num_rows
           P == RowsPerPage(t.columns)
           c == t.cached
<1>1. n \in Nat /\ c \in Nat /\ c <= MaxPages /\ MaxPages \in Nat /\ Tabular(t.columns)
  BY TableNumbers
<1>2. P \in Nat \ {0} BY <1>1, PageHoldsRows
<1>3. n <= c * P BY DEF TableOK, CachedOK
<1>4. ~(n \div P < MaxPages)
  <2>1. LastPage(t) = n \div P /\ LastPage(t) \in Nat BY TableNumbers DEF LastPage
  <2> QED BY <1>1, <2>1
<1> HIDE DEF n, P, c
<1>5. ~(n < MaxPages * P) BY <1>1, <1>2, <1>4, QuotientBelow
<1>6. c * P \in Nat /\ MaxPages * P \in Nat /\ c * P <= MaxPages * P BY <1>1, <1>2, ProductGrows
<1>7. n = MaxPages * P BY <1>1, <1>3, <1>5, <1>6
<1> QED BY <1>7 DEF n, P

LEMMA FaultsKept ==
  ASSUME IInv, DeleteOK, FaultsExplained, [Next]_vars
  PROVE  FaultsExplained'
<1>1. CASE undefined' = "none" BY <1>1 DEF FaultsExplained
<1>2. CASE UNCHANGED vars BY <1>2 DEF vars, FaultsExplained, Table, Here
<1>3. CASE Insert
  <2>1. undefined' \in {"none", "overflow"} BY <1>3 DEF Insert
  <2>2. CASE undefined' = "overflow" BY <1>3, <2>2, OverflowIsLong DEF FaultsExplained
  <2> QED BY <1>1, <2>1, <2>2
<1>4. CASE Refused \/ Create \/ Drop \/ InsertFails \/ Reopen
  <2>1. undefined = "none" BY <1>4, StatementOver
  <2>2. undefined' = undefined BY <1>4 DEF Refused, Create, Drop, InsertFails, Reopen
  <2> QED BY <1>1, <2>1, <2>2
<1>5. CASE EndSelect
  <2>1. /\ at = "select" /\ index >= Table.num_rows /\ UNCHANGED <<tables, stmt>>
        /\ undefined' = "none" \/ (index = 0 /\ undefined' = "empty")
    BY <1>5 DEF EndSelect
  <2>2. CASE undefined' = "none" BY <1>1, <2>2
  <2>3. CASE index = 0 /\ undefined' = "empty"
    <3>1. Whole("select") BY <2>1 DEF IInv, StmtOK
    <3>2. Table.num_rows \in Nat /\ index <= Table.num_rows /\ stmt.op = "select"
      BY <3>1, StatementIs DEF IInv
    <3>3. Table' = Table /\ Table.num_rows = 0 BY <2>1, <2>3, <3>2 DEF Table
    <3> QED BY <2>1, <2>3, <3>2, <3>3 DEF FaultsExplained
  <2> QED BY <2>1, <2>2, <2>3
<1>6. CASE LoopFaults
  <2>1. /\ RowFault # "none" /\ undefined' = RowFault
        /\ UNCHANGED <<tables, stmt, index, ideal>>
        /\ InLoop("select") \/ InLoop("delete")
    BY <1>6 DEF LoopFaults
  <2>2. PICK r \in ideal[stmt.table].rows : r.id = Here.id /\ ~Fitting(Table.columns, r.values)
    BY <2>1, FaultIsLong
  <2>3. Table' = Table /\ Here' = Here /\ ideal'[stmt'.table] = ideal[stmt.table]
    BY <2>1 DEF Table, Here
  <2>4. RowFault \in {"decode", "type", "none"} BY DEF RowFault
  <2> QED BY <2>1, <2>2, <2>3, <2>4 DEF FaultsExplained
<1>7. CASE BeginSelect \/ BeginDelete \/ SelectTurn \/ DeleteTurn
  <2>1. undefined = "none" /\ undefined' = undefined
    BY <1>7 DEF BeginSelect, BeginDelete, Begin, SelectTurn, DeleteTurn, InLoop, Ready
  <2> QED BY <1>1, <2>1
<1>8. CASE EndDelete
  <2>1. /\ at = "delete" /\ UNCHANGED <<tables, stmt, ideal, before>>
        /\ undefined' = "none" \/ (LastPage(Table) >= MaxPages /\ undefined' = "pages")
    BY <1>8 DEF EndDelete
  <2>2. CASE undefined' = "none" BY <1>1, <2>2
  <2>3. CASE LastPage(Table) >= MaxPages /\ undefined' = "pages"
    <3>1. Whole("delete") BY <2>1 DEF IInv, StmtOK
    <3>2. stmt.op = "delete" /\ TableOK(Table, ideal[stmt.table]) BY <3>1, StatementIs DEF IInv
    <3>3. Table.num_rows = MaxPages * RowsPerPage(Table.columns) BY <2>3, <3>2, PagesFull
    <3>4. /\ deleted_any <=> ideal[stmt.table].rows # before
          /\ deleted_any => LastPage(Table) < Table.cached
      BY <3>1 DEF DeleteOK, RemovedOK
    <3>5. Table.cached <= MaxPages /\ Table.cached \in Nat /\ MaxPages \in Nat /\ LastPage(Table) \in Nat
      BY <3>2, TableNumbers
    <3>6. ideal[stmt.table].rows = before BY <2>3, <3>4, <3>5
    <3>7. Table' = Table BY <2>1 DEF Table
    <3> QED BY <2>1, <2>3, <3>2, <3>3, <3>6, <3>7 DEF FaultsExplained
  <2> QED BY <2>1, <2>2, <2>3
<1>9. CASE InsertFaults
  <2>1. PICK s \in Inserts :
          /\ AnalyzeInsert(s) = "SUCCESS"
          /\ \E i \in DOMAIN s.values : NotABool(s.values[i])
          /\ tables' = [tables EXCEPT ![s.table].next_id = @ + 1] /\ stmt' = s
    BY <1>9 DEF InsertFaults
  <2>2. s.table \in DOMAIN tables /\ RowValues(tables[s.table].columns, s.values)
        /\ TableOK(tables[s.table], ideal[s.table])
    BY <2>1, InsertAccepted DEF IInv
  <2>3. PICK i \in DOMAIN s.values : NotABool(s.values[i]) BY <2>1
  <2>4. s.values[i].type \in {"INT", "REAL"} BY <2>3 DEF NotABool
  <2>5. tables[s.table].columns \in Seq(Columns) BY <2>2, TableNumbers
  <2>6. /\ i \in DOMAIN tables[s.table].columns
        /\ tables[s.table].columns[i].type = s.values[i].type
    BY <2>2, <2>5 DEF RowValues, TypesMatch
  <2>7. Table'.columns = tables[s.table].columns
    BY <2>1, <2>2 DEF Table, TableOK, TableFields
  <2>8. undefined' = "bool" /\ stmt'.op = "insert" BY <1>9, <2>1 DEF InsertFaults, Inserts
  <2> QED BY <2>4, <2>6, <2>7, <2>8 DEF FaultsExplained
<1> QED BY <1>2, <1>3, <1>4, <1>5, <1>6, <1>7, <1>8, <1>9 DEF Next

\* Behaviour is undefined only where a text is too long for its slot, in the
\* row that is written or read: the analyzer lets nothing else through that
\* would read a union wrongly or a column that is not there; in an INSERT into
\* a table with an INT or REAL column; in a SELECT from an empty table; and in
\* a DELETE that removes nothing from a table whose pages are all full.
THEOREM FaultsAreExplained == Spec => []FaultsExplained
<1>1. Init => DeleteOK BY DEF Init, DeleteOK, Whole, NoStmt
<1>2. IInv /\ DeleteOK /\ [Next]_vars => DeleteOK' BY DeleteKept
<1>3. Init => FaultsExplained BY DEF Init, FaultsExplained
<1>4. IInv /\ DeleteOK /\ FaultsExplained /\ [Next]_vars => FaultsExplained' BY FaultsKept
<1> QED BY <1>1, <1>2, <1>3, <1>4, Invariance, PTL DEF Spec
=============================================================================
