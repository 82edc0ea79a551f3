-------------------------- MODULE LineEditorProofs --------------------------
(***************************************************************************)
(* What is proved of LineEditor for lines, histories and terminals of any  *)
(* size: the indices of the handlers stay inside what they index, the      *)
(* screen is a window of the line, looking through the history and         *)
(* entering a line cost it no more than they should, and it comes back     *)
(* from its file.                                                          *)
(***************************************************************************)
EXTENDS LineEditor, TLAPS, FiniteSetTheorems

(* The lemmas on numbers and folds do not depend on the hash function.     *)
LOCAL Turns == INSTANCE ChainsProofs WITH HashOf <- <<>>

-----------------------------------------------------------------------------
(* Strings and sequences                                                   *)

\* What a C function sees of the line, and such lines as the editor makes.
Stored == AllTyped \ {Nul}
Lines == Seq(Stored)
ShortLines == {s \in Lines : Len(s) < MaxLine}

\* A string ends before its first c, or where it ends.
LEMMA UpToIs ==
  ASSUME NEW T, NEW s \in Seq(T), NEW c
  PROVE  \E n \in 0 .. Len(s) :
           /\ UpTo(s, c) = SubSeq(s, 1, n)
           /\ \A i \in 1 .. n : s[i] # c
           /\ n < Len(s) => s[n + 1] = c
<1> DEFINE I == {i \in 1 .. Len(s) : s[i] = c}
           k == CHOOSE x \in I : \A y \in I : x <= y
<1>1. UpTo(s, c) = IF (IF I # {} THEN k ELSE 0) = 0 THEN s
                   ELSE SubSeq(s, 1, (IF I # {} THEN k ELSE 0) - 1)
  BY DEF UpTo, SelectInSeq, Min
<1>2. Len(s) \in Nat /\ SubSeq(s, 1, Len(s)) = s OBVIOUS
<1>3. CASE I = {}
  <2>1. UpTo(s, c) = s BY <1>1, <1>3
  <2>2. \A i \in 1 .. Len(s) : s[i] # c BY <1>3
  <2>3. Len(s) \in 0 .. Len(s) /\ ~(Len(s) < Len(s)) BY <1>2
  <2> QED BY <1>2, <2>1, <2>2, <2>3
<1>4. CASE I # {}
  <2>1. \E x \in I : \A y \in I : x <= y
    <3>1. I \in SUBSET Nat OBVIOUS
    <3> HIDE DEF I
    <3> QED BY <1>4, <3>1, Turns!LeastExists
  <2>2. k \in I /\ \A y \in I : k <= y
    <3> HIDE DEF I
    <3> QED BY <2>1
  <2>3. k \in 1 .. Len(s) /\ s[k] = c BY <2>2
  <2>4. \A i \in 1 .. k - 1 : s[i] # c
    <3> SUFFICES ASSUME NEW i \in 1 .. k - 1, s[i] = c PROVE FALSE OBVIOUS
    <3>1. i \in I BY <1>2, <2>3
    <3>2. k <= i BY <2>2, <3>1
    <3> QED BY <2>3, <3>2
  <2>5. UpTo(s, c) = SubSeq(s, 1, k - 1)
    <3> HIDE DEF I, k
    <3> QED BY <1>1, <1>4, <2>3
  <2> HIDE DEF I, k
  <2>6. k - 1 \in 0 .. Len(s) /\ (k - 1) + 1 = k BY <1>2, <2>3
  <2> QED BY <2>3, <2>4, <2>5, <2>6
<1> QED BY <1>3, <1>4

\* A C string has no NUL, and one that has none is all of it.
LEMMA CStringIs ==
  ASSUME NEW s \in Seq(AllTyped)
  PROVE  /\ CString(s) \in Lines /\ Len(CString(s)) <= Len(s)
         /\ s \in Lines => CString(s) = s
<1>1. PICK n \in 0 .. Len(s) : /\ UpTo(s, Nul) = SubSeq(s, 1, n)
                               /\ \A i \in 1 .. n : s[i] # Nul
                               /\ n < Len(s) => s[n + 1] = Nul
  BY UpToIs
<1>2. \A i \in 1 .. n : s[i] \in Stored BY <1>1 DEF Stored
<1>3. SubSeq(s, 1, n) \in Lines /\ Len(SubSeq(s, 1, n)) = n BY <1>2 DEF Lines
<1>4. s \in Lines => n = Len(s)
  <2> SUFFICES ASSUME s \in Lines, n # Len(s) PROVE FALSE OBVIOUS
  <2>1. s[n + 1] = Nul /\ n + 1 \in 1 .. Len(s) BY <1>1
  <2>2. s[n + 1] \in Stored BY <2>1 DEF Lines
  <2> QED BY <2>1, <2>2 DEF Stored
<1>5. SubSeq(s, 1, Len(s)) = s OBVIOUS
<1>6. CString(s) = SubSeq(s, 1, n) BY <1>1 DEF CString
<1>7. n <= Len(s) OBVIOUS
<1>8. CString(s) \in Lines /\ Len(CString(s)) = n BY <1>3, <1>6
<1> QED BY <1>4, <1>5, <1>6, <1>7, <1>8

LEMMA LinesTyped ==
  ASSUME NEW s \in Lines
  PROVE  s \in Seq(AllTyped)
BY DEF Lines, Stored

-----------------------------------------------------------------------------
(* The history                                                             *)

\* A line that is added is the last, and no more are kept than allowed.
LEMMA HistoryAddIs ==
  ASSUME NEW X, NEW h \in Seq(X), NEW line \in X, NEW max \in Nat \ {0}, Len(h) <= max
  PROVE  /\ HistoryAdd(h, line, max) \in Seq(X)
         /\ Len(HistoryAdd(h, line, max)) \in 1 .. max
         /\ HistoryAdd(h, line, max)[Len(HistoryAdd(h, line, max))] = line
         /\ HistoryAdd(h, line, max)
              \in {h, Append(h, line)} \cup (IF Len(h) = max THEN {Append(Tail(h), line)} ELSE {})
<1>1. CASE h # <<>> /\ h[Len(h)] = line
  <2>1. HistoryAdd(h, line, max) = h BY <1>1 DEF HistoryAdd
  <2>2. Len(h) \in 1 .. max BY <1>1
  <2> QED BY <1>1, <2>1, <2>2
<1>2. CASE ~(h # <<>> /\ h[Len(h)] = line)
  <2>1. CASE Len(h) = max
    <3>1. HistoryAdd(h, line, max) = Append(Tail(h), line) BY <1>2, <2>1 DEF HistoryAdd
    <3>2. Tail(h) \in Seq(X) /\ Len(Tail(h)) = max - 1 BY <2>1
    <3>3. Append(Tail(h), line) \in Seq(X) /\ Len(Append(Tail(h), line)) = max
          /\ Append(Tail(h), line)[max] = line
      <4> DEFINE t == Tail(h)
      <4> HIDE DEF t
      <4>1. t \in Seq(X) /\ Len(t) = max - 1 BY <3>2 DEF t
      <4>2. Append(t, line) \in Seq(X) /\ Len(Append(t, line)) = max BY <4>1
      <4>3. Append(t, line)[max] = line BY <4>1
      <4> QED BY <4>2, <4>3 DEF t
    <3> QED BY <2>1, <3>1, <3>3
  <2>2. CASE Len(h) # max
    <3>1. HistoryAdd(h, line, max) = Append(h, line) BY <1>2, <2>2 DEF HistoryAdd
    <3> QED BY <2>2, <3>1
  <2> QED BY <2>1, <2>2
<1> QED BY <1>1, <1>2

\* The latest entries stay.
LEMMA SetMaxLenIs ==
  ASSUME NEW X, NEW h \in Seq(X), NEW max \in Nat
  PROVE  /\ SetMaxLen(h, max) \in Seq(X) /\ Len(SetMaxLen(h, max)) <= max
         /\ Len(h) <= max => SetMaxLen(h, max) = h
<1> DEFINE k == Least(Len(h), max)
<1>1. k \in 0 .. Len(h) /\ k <= max /\ (Len(h) <= max => k = Len(h)) BY DEF Least
<1>2. SetMaxLen(h, max) = SubSeq(h, Len(h) - k + 1, Len(h)) BY DEF SetMaxLen
<1> HIDE DEF k
<1>3. SubSeq(h, Len(h) - k + 1, Len(h)) \in Seq(X) /\ Len(SubSeq(h, Len(h) - k + 1, Len(h))) = k
  BY <1>1
<1>4. SubSeq(h, 1, Len(h)) = h OBVIOUS
<1>5. Len(h) <= max => Len(h) - k + 1 = 1 BY <1>1
<1> QED BY <1>1, <1>2, <1>3, <1>4, <1>5

-----------------------------------------------------------------------------
(* Folds, turn by turn                                                     *)

LEMMA GreatestIs ==
  ASSUME NEW k \in Nat, NEW s \in SUBSET (1 .. k), s # {}
  PROVE  Max(s) \in s /\ \A y \in s : y <= Max(s)
BY Turns!GreatestIs DEF Turns!Max, Max

(* The places up to i and the last of them.                                *)
LEMMA PlacesUpTo ==
  ASSUME NEW n \in Nat, NEW i \in 1 .. n
  PROVE  /\ 1 .. i \in SUBSET (1 .. n) /\ 1 .. i # {} /\ 1 .. i - 1 \in SUBSET (1 .. n)
         /\ Max(1 .. i) = i /\ (1 .. i) \ {i} = 1 .. i - 1
<1>1. i \in Nat /\ i <= n /\ i \in 1 .. i OBVIOUS
<1>2. \A x \in 1 .. i : x \in 1 .. n BY <1>1
<1>3. Max(1 .. i) \in 1 .. i /\ \A y \in 1 .. i : y <= Max(1 .. i) BY <1>1, GreatestIs
<1>4. Max(1 .. i) = i BY <1>1, <1>3
<1> QED BY <1>1, <1>2, <1>4

(* What a fold of N turns holds after each of them.                        *)
AfterTurns(g, X, base, step, N) ==
  /\ g \in [0 .. N -> X] /\ g[0] = base
  /\ \A i \in 1 .. N : g[i] = step[<<g[i - 1], i>>]

(* The fold itself, of the places up to each turn.                         *)
Folds(iter, X, base, step, N) ==
  /\ iter[{}] = base
  /\ \A i \in 1 .. N : iter[1 .. i - 1] \in X => iter[1 .. i] = step[<<iter[1 .. i - 1], i>>]

LEMMA TurnsOfFold ==
  ASSUME NEW X, NEW base \in X, NEW N \in Nat, NEW step \in [X \X (1 .. N) -> X], NEW iter,
         Folds(iter, X, base, step, N)
  PROVE  \E g : AfterTurns(g, X, base, step, N) /\ iter[1 .. N] = g[N]
<1> DEFINE g == [i \in 0 .. N |-> iter[1 .. i]]
           S == {i \in 0 .. N : g[i] \in X}
<1>1. g[0] = base
  <2>1. 1 .. 0 = {} OBVIOUS
  <2> QED BY <2>1 DEF Folds
<1>2. \A i \in 1 .. N : g[i - 1] \in X => g[i] = step[<<g[i - 1], i>>] BY DEF Folds
<1>3. g = [i \in 0 .. N |-> g[i]] /\ g[N] = iter[1 .. N] OBVIOUS
<1> HIDE DEF g
<1>4. 0 \in S BY <1>1
<1>5. ASSUME NEW i \in 0 .. N - 1, i \in S PROVE i + 1 \in S
  <2>1. i + 1 \in 1 .. N /\ (i + 1) - 1 = i /\ i + 1 \in 0 .. N OBVIOUS
  <2>2. g[i] \in X BY <1>5
  <2>3. g[i + 1] = step[<<g[i], i + 1>>] BY <1>2, <2>1, <2>2
  <2>4. step[<<g[i], i + 1>>] \in X BY <2>1, <2>2
  <2> QED BY <2>1, <2>3, <2>4
<1> HIDE DEF S
<1>6. \A i \in 0 .. N : i \in S BY <1>4, <1>5, Turns!UpTo
<1>7. \A i \in 0 .. N : g[i] \in X BY <1>6 DEF S
<1>8. g \in [0 .. N -> X] BY <1>3, <1>7
<1>9. \A i \in 1 .. N : g[i] = step[<<g[i - 1], i>>]
  <2> TAKE i \in 1 .. N
  <2>1. i - 1 \in 0 .. N OBVIOUS
  <2> QED BY <1>2, <1>7, <2>1
<1> QED BY <1>1, <1>3, <1>8, <1>9 DEF AfterTurns

LEMMA Joined ==
  ASSUME NEW E, NEW s \in Seq(E), NEW t \in Seq(E)
  PROVE  /\ s \o t \in Seq(E) /\ Len(s \o t) = Len(s) + Len(t)
         /\ \A k \in 1 .. Len(s) : (s \o t)[k] = s[k]
         /\ \A k \in 1 .. Len(t) : (s \o t)[Len(s) + k] = t[k]
<1>1. Len(s) \in Nat /\ Len(t) \in Nat OBVIOUS
<1>2. s \o t \in Seq(E) /\ Len(s \o t) = Len(s) + Len(t) OBVIOUS
<1>3. ASSUME NEW k \in 1 .. Len(s) PROVE (s \o t)[k] = s[k] BY <1>1
<1>4. ASSUME NEW k \in 1 .. Len(t) PROVE (s \o t)[Len(s) + k] = t[k]
  <2>1. Len(s) + k \in 1 .. Len(s) + Len(t) /\ Len(s) + k > Len(s) /\ (Len(s) + k) - Len(s) = k
    BY <1>1
  <2> QED BY <1>1, <2>1
<1> QED BY <1>2, <1>3, <1>4

-----------------------------------------------------------------------------
(* The file of the history                                                 *)

(* What is written once each entry has been.                               *)
Written(g, h) ==
  /\ g \in [0 .. Len(h) -> Lines] /\ g[0] = <<>>
  /\ \A i \in 1 .. Len(h) : g[i] = g[i - 1] \o Append(h[i], Newline)
  /\ WrittenOut(h) = g[Len(h)]

LEMMA WrittenExists ==
  ASSUME NEW h \in Seq(Lines)
  PROVE  \E g : Written(g, h)
<1> DEFINE N == Len(h)
           seqs == [i \in DOMAIN h |-> Append(h[i], Newline)]
           Flatten(f) == [i \in 1 .. Len(seqs) |-> IF i = 1 THEN seqs[i] ELSE f[i - 1] \o seqs[i]]
           all == CHOOSE f : f = Flatten(f)
           step == [x \in Lines \X (1 .. N) |-> x[1] \o seqs[x[2]]]
<1>1. N \in Nat /\ DOMAIN h = 1 .. N OBVIOUS
<1>2. /\ Len(seqs) = N /\ (N = 0 => seqs = <<>>)
      /\ \A i \in 1 .. N : seqs[i] = Append(h[i], Newline) /\ seqs[i] \in Lines
  <2>1. \A i \in 1 .. N : h[i] \in Lines OBVIOUS
  <2>2. Newline \in Stored BY DEF Stored, AllTyped, Newline, Nul
  <2>3. \A i \in 1 .. N : Append(h[i], Newline) \in Lines BY <2>1, <2>2 DEF Lines
  <2> QED BY <1>1, <2>3
<1>3. WrittenOut(h) = IF N = 0 THEN <<>> ELSE all[N]
  <2>1. WrittenOut(h) = FlattenSeq(seqs) BY DEF WrittenOut
  <2> HIDE DEF seqs, N
  <2>2. FlattenSeq(seqs) = IF N = 0 THEN <<>> ELSE all[N]
    <3>1. CASE N = 0 BY <1>2, <3>1 DEF FlattenSeq
    <3>2. CASE N # 0
      <4>1. FlattenSeq(seqs) = all[Len(seqs)] BY <1>2, <3>2 DEF FlattenSeq
      <4> HIDE DEF all
      <4> QED BY <1>2, <3>2, <4>1
    <3> QED BY <3>1, <3>2
  <2> QED BY <2>1, <2>2
<1> HIDE DEF seqs, N
<1>4. step \in [Lines \X (1 .. N) -> Lines]
  <2>1. ASSUME NEW x \in Lines, NEW i \in 1 .. N PROVE x \o seqs[i] \in Lines
    BY <1>2 DEF Lines
  <2> QED BY <2>1
<1>5. <<>> \in Lines BY DEF Lines
<1>6. PICK f : Turns!IsFold(f, Lines, <<>>, step, N)
  <2> HIDE DEF step
  <2> QED BY <1>1, <1>4, <1>5, Turns!FoldExists
<1>7. /\ f \in [SUBSET (1 .. N) -> Lines]
      /\ \A s \in SUBSET (1 .. N) :
           f[s] = IF s = {} THEN <<>> ELSE step[<<f[s \ {Max(s)}], Max(s)>>]
  BY <1>6 DEF Turns!IsFold, Turns!Max, Max
<1>8. PICK g : AfterTurns(g, Lines, <<>>, step, N)
  <2>1. f[{}] = <<>> BY <1>7
  <2>2. ASSUME NEW i \in 1 .. N PROVE f[1 .. i] = step[<<f[1 .. i - 1], i>>]
    <3>1. 1 .. i \in SUBSET (1 .. N) /\ 1 .. i # {} /\ Max(1 .. i) = i /\ (1 .. i) \ {i} = 1 .. i - 1
      BY <1>1, PlacesUpTo
    <3> HIDE DEF step
    <3> QED BY <1>7, <3>1
  <2> HIDE DEF step
  <2>3. Folds(f, Lines, <<>>, step, N) BY <2>1, <2>2 DEF Folds
  <2> QED BY <1>1, <1>4, <1>5, <2>3, TurnsOfFold
<1>9. /\ g \in [0 .. N -> Lines] /\ g[0] = <<>>
      /\ \A i \in 1 .. N : g[i] = g[i - 1] \o seqs[i]
  <2>1. ASSUME NEW i \in 1 .. N PROVE g[i - 1] \in Lines /\ g[i] = step[<<g[i - 1], i>>]
    <3>1. i - 1 \in 0 .. N BY <1>1
    <3> HIDE DEF step
    <3> QED BY <1>8, <3>1 DEF AfterTurns
  <2>2. \A i \in 1 .. N : step[<<g[i - 1], i>>] = g[i - 1] \o seqs[i] BY <2>1
  <2> QED BY <1>8, <2>1, <2>2 DEF AfterTurns
<1>10. all = Flatten(all)
  <2> DEFINE k == [i \in 1 .. N |-> g[i]]
  <2>1. \A i \in 1 .. N : k[i] = IF i = 1 THEN seqs[i] ELSE k[i - 1] \o seqs[i]
    <3> TAKE i \in 1 .. N
    <3>1. CASE i = 1
      <4>1. <<>> \o seqs[i] = seqs[i] BY <1>2 DEF Lines
      <4>2. i - 1 = 0 BY <3>1
      <4>3. g[i] = g[0] \o seqs[i] BY <1>9, <4>2
      <4> QED BY <1>9, <3>1, <4>1, <4>3
    <3>2. CASE i # 1
      <4>1. i - 1 \in 1 .. N BY <1>1, <3>2
      <4> QED BY <1>9, <3>2, <4>1
    <3> QED BY <3>1, <3>2
  <2>2. k = [i \in 1 .. N |-> k[i]] OBVIOUS
  <2> HIDE DEF k
  <2>3. k = Flatten(k) BY <1>2, <2>1, <2>2
  <2> QED BY <2>3
<1> HIDE DEF all
<1>11. \A i \in 1 .. N : all[i] = g[i]
  <2> DEFINE S == {i \in 0 .. N : i > 0 => all[i] = g[i]}
  <2>1. 0 \in S BY <1>1
  <2>2. ASSUME NEW i \in 0 .. N - 1, i \in S PROVE i + 1 \in S
    <3>1. i + 1 \in 1 .. N /\ (i + 1) - 1 = i /\ i + 1 \in 0 .. N BY <1>1
    <3>2. all[i + 1] = IF i + 1 = 1 THEN seqs[i + 1] ELSE all[i] \o seqs[i + 1]
      BY <1>2, <1>10, <3>1
    <3>3. g[i + 1] = g[i] \o seqs[i + 1] BY <1>9, <3>1
    <3>4. ASSUME i = 0 PROVE all[i + 1] = g[i + 1]
      <4>1. <<>> \o seqs[1] = seqs[1] BY <1>2, <3>1, <3>4 DEF Lines
      <4>2. all[i + 1] = seqs[1] /\ g[i + 1] = g[0] \o seqs[1] BY <3>2, <3>3, <3>4
      <4> QED BY <1>9, <3>4, <4>1, <4>2
    <3>5. ASSUME i # 0 PROVE all[i + 1] = g[i + 1]
      <4>1. i > 0 /\ i + 1 # 1 BY <3>1, <3>5
      <4>2. all[i] = g[i] BY <2>2, <4>1
      <4> QED BY <3>2, <3>3, <4>1, <4>2
    <3>6. all[i + 1] = g[i + 1] BY <3>4, <3>5
    <3> QED BY <3>1, <3>6
  <2> HIDE DEF S
  <2>3. \A i \in 0 .. N : i \in S BY <1>1, <2>1, <2>2, Turns!UpTo
  <2> QED BY <1>1, <2>3 DEF S
<1>12. WrittenOut(h) = g[N] BY <1>1, <1>3, <1>9, <1>11
<1> QED BY <1>2, <1>9, <1>12 DEF Written, N

(* What the loads of a file have read once a character has been: whole     *)
(* pieces, and a part of one that the buffer has room for.                 *)
Reading == [done : Seq(ShortLines), part : {s \in Lines : Len(s) + 2 <= MaxLine}]
Read(acc, c) ==
  IF c = Newline \/ Len(acc.part) + 2 = MaxLine
    THEN [done |-> Append(acc.done, Append(acc.part, c)), part |-> <<>>]
    ELSE [acc EXCEPT !.part = Append(@, c)]
Whole(r) == IF r.part = <<>> THEN r.done ELSE Append(r.done, r.part)

ReadTurns(g, text) ==
  /\ g \in [0 .. Len(text) -> Reading] /\ g[0] = [done |-> <<>>, part |-> <<>>]
  /\ \A i \in 1 .. Len(text) : g[i] = Read(g[i - 1], text[i])
  /\ Pieces(text) = Whole(g[Len(text)])

LEMMA ReadTyped ==
  ASSUME NEW acc \in Reading, NEW c \in Stored
  PROVE  Read(acc, c) \in Reading
<1>1. acc.done \in Seq(ShortLines) /\ acc.part \in Lines /\ Len(acc.part) + 2 <= MaxLine
      /\ Len(acc.part) \in Nat
  BY DEF Reading, Lines
<1>2. Append(acc.part, c) \in Lines /\ Len(Append(acc.part, c)) = Len(acc.part) + 1
  BY <1>1 DEF Lines
<1>3. MaxLine \in Nat /\ MaxLine >= 3 BY LineAssumption
<1>4. CASE c = Newline \/ Len(acc.part) + 2 = MaxLine
  <2>1. Append(acc.part, c) \in ShortLines BY <1>1, <1>2, <1>3 DEF ShortLines
  <2>2. Append(acc.done, Append(acc.part, c)) \in Seq(ShortLines) BY <1>1, <2>1
  <2>3. <<>> \in Lines /\ Len(<<>>) + 2 <= MaxLine BY <1>3 DEF Lines
  <2> QED BY <1>4, <2>2, <2>3 DEF Read, Reading
<1>5. CASE ~(c = Newline \/ Len(acc.part) + 2 = MaxLine)
  <2>1. Len(Append(acc.part, c)) + 2 <= MaxLine BY <1>1, <1>2, <1>3, <1>5
  <2>2. Read(acc, c) = [acc EXCEPT !.part = Append(@, c)] BY <1>5 DEF Read
  <2>3. [acc EXCEPT !.part = Append(@, c)] \in Reading BY <1>2, <2>1 DEF Reading
  <2> QED BY <2>2, <2>3
<1> QED BY <1>4, <1>5

LEMMA ReadTurnsExist ==
  ASSUME NEW text \in Lines
  PROVE  \E g : ReadTurns(g, text)
<1> DEFINE N == Len(text)
           none == [done |-> <<>>, part |-> <<>>]
           Turn(acc, c) == IF c = Newline \/ Len(acc.part) + 2 = MaxLine
                             THEN [done |-> Append(acc.done, Append(acc.part, c)), part |-> <<>>]
                             ELSE [acc EXCEPT !.part = Append(@, c)]
           Fold(f) == [s \in SUBSET (1 .. N) |->
                         IF s = {} THEN none ELSE Turn(f[s \ {Max(s)}], text[Max(s)])]
           iter == CHOOSE f : f = Fold(f)
           step == [x \in Reading \X (1 .. N) |-> Turn(x[1], text[x[2]])]
<1>1. N \in Nat /\ DOMAIN text = 1 .. N /\ \A i \in 1 .. N : text[i] \in Stored BY DEF Lines
<1>2. Pieces(text) = Whole(iter[1 .. N])
  BY <1>1 DEF Pieces, Whole, FoldLeft, MapThenFoldSet
<1>3. \A acc, c : Turn(acc, c) = Read(acc, c) BY DEF Read
<1> HIDE DEF Turn, N
<1>4. none \in Reading
  <2>1. MaxLine \in Nat /\ MaxLine >= 3 BY LineAssumption
  <2> QED BY <2>1 DEF Reading, Lines
<1>5. step \in [Reading \X (1 .. N) -> Reading] BY <1>1, <1>3, ReadTyped
<1> HIDE DEF none
<1>6. iter = Fold(iter)
  <2>1. PICK f : Turns!IsFold(f, Reading, none, step, N)
    <3> HIDE DEF step
    <3> QED BY <1>1, <1>4, <1>5, Turns!FoldExists
  <2>2. /\ f \in [SUBSET (1 .. N) -> Reading]
        /\ \A s \in SUBSET (1 .. N) :
             f[s] = IF s = {} THEN none ELSE step[<<f[s \ {Max(s)}], Max(s)>>]
    BY <2>1 DEF Turns!IsFold, Turns!Max, Max
  <2>3. ASSUME NEW s \in SUBSET (1 .. N), s # {}
        PROVE  step[<<f[s \ {Max(s)}], Max(s)>>] = Turn(f[s \ {Max(s)}], text[Max(s)])
    <3>1. Max(s) \in 1 .. N BY <1>1, <2>3, GreatestIs
    <3>2. f[s \ {Max(s)}] \in Reading BY <2>2
    <3> QED BY <3>1, <3>2
  <2>4. f = Fold(f) BY <2>2, <2>3
  <2> QED BY <2>4
<1> HIDE DEF iter
<1>7. iter[{}] = none BY <1>6
<1>8. ASSUME NEW i \in 1 .. N, iter[1 .. i - 1] \in Reading
      PROVE  iter[1 .. i] = step[<<iter[1 .. i - 1], i>>]
  <2>1. 1 .. i \in SUBSET (1 .. N) /\ 1 .. i # {} /\ Max(1 .. i) = i /\ (1 .. i) \ {i} = 1 .. i - 1
    BY <1>1, PlacesUpTo
  <2>2. iter[1 .. i] = Turn(iter[1 .. i - 1], text[i]) BY <1>6, <2>1
  <2> QED BY <1>8, <2>2
<1>9. PICK g : AfterTurns(g, Reading, none, step, N) /\ iter[1 .. N] = g[N]
  <2> HIDE DEF step
  <2>1. Folds(iter, Reading, none, step, N) BY <1>7, <1>8 DEF Folds
  <2> QED BY <1>1, <1>4, <1>5, <2>1, TurnsOfFold
<1>10. ASSUME NEW i \in 1 .. N PROVE g[i] = Read(g[i - 1], text[i])
  <2>1. i - 1 \in 0 .. N BY <1>1
  <2>2. g[i - 1] \in Reading /\ g[i] = step[<<g[i - 1], i>>]
    <3> HIDE DEF step
    <3> QED BY <1>9, <2>1 DEF AfterTurns
  <2>3. step[<<g[i - 1], i>>] = Turn(g[i - 1], text[i]) BY <2>2
  <2> QED BY <1>3, <2>2, <2>3
<1>11. g \in [0 .. N -> Reading] /\ g[0] = none
  <2> HIDE DEF step
  <2> QED BY <1>9 DEF AfterTurns
<1> QED BY <1>2, <1>9, <1>10, <1>11 DEF ReadTurns, N, none

(* A piece comes back without what ends it.                                *)
LEMMA PiecesTyped ==
  ASSUME NEW text \in Lines
  PROVE  Pieces(text) \in Seq(ShortLines)
<1>1. PICK g : ReadTurns(g, text) BY ReadTurnsExist
<1>2. g[Len(text)] \in Reading
  <2>1. Len(text) \in 0 .. Len(text) BY DEF Lines
  <2> QED BY <1>1, <2>1 DEF ReadTurns
<1>3. g[Len(text)].part \in ShortLines /\ g[Len(text)].done \in Seq(ShortLines)
  BY <1>2, LineAssumption DEF Reading, ShortLines, Lines
<1>4. Whole(g[Len(text)]) \in Seq(ShortLines) BY <1>3 DEF Whole
<1> QED BY <1>1, <1>4 DEF ReadTurns

LEMMA LineOfTyped ==
  ASSUME NEW piece \in ShortLines
  PROVE  LineOf(piece) \in ShortLines
<1>1. piece \in Seq(Stored) /\ Len(piece) < MaxLine BY DEF ShortLines, Lines
<1>2. PICK n \in 0 .. Len(piece) : UpTo(piece, Return) = SubSeq(piece, 1, n) BY <1>1, UpToIs
<1>3. SubSeq(piece, 1, n) \in Seq(Stored) /\ Len(SubSeq(piece, 1, n)) = n BY <1>1
<1>4. PICK k \in 0 .. n : UpTo(SubSeq(piece, 1, n), Newline) = SubSeq(SubSeq(piece, 1, n), 1, k)
  BY <1>3, UpToIs
<1> DEFINE t == SubSeq(piece, 1, n)
<1>5. t \in Seq(Stored) /\ Len(t) = n BY <1>3
<1>6. LineOf(piece) = SubSeq(t, 1, k) BY <1>2, <1>4 DEF LineOf
<1> HIDE DEF t
<1>7. SubSeq(t, 1, k) \in Seq(Stored) /\ Len(SubSeq(t, 1, k)) = k BY <1>4, <1>5
<1>8. k < MaxLine BY <1>1, <1>2, <1>4, LineAssumption
<1> QED BY <1>6, <1>7, <1>8 DEF ShortLines, Lines

(* The history after each piece.                                           *)
LoadTurns(g, text) ==
  LET pieces == Pieces(text)
  IN /\ g \in [0 .. Len(pieces) -> Seq(ShortLines)] /\ g[0] = <<>>
     /\ \A i \in 0 .. Len(pieces) : Len(g[i]) <= DefaultHistory
     /\ \A i \in 1 .. Len(pieces) :
          g[i] = HistoryAdd(g[i - 1], LineOf(pieces[i]), DefaultHistory)
     /\ Loaded(text) = g[Len(pieces)]

LEMMA LoadTurnsExist ==
  ASSUME NEW text \in Lines
  PROVE  \E g : LoadTurns(g, text)
<1> DEFINE X == {h \in Seq(ShortLines) : Len(h) <= DefaultHistory}
           pieces == Pieces(text)
           N == Len(pieces)
           Turn(h, piece) == HistoryAdd(h, LineOf(piece), DefaultHistory)
           Fold(f) == [s \in SUBSET (1 .. N) |->
                         IF s = {} THEN <<>> ELSE Turn(f[s \ {Max(s)}], pieces[Max(s)])]
           iter == CHOOSE f : f = Fold(f)
           step == [x \in X \X (1 .. N) |-> Turn(x[1], pieces[x[2]])]
<1>1. N \in Nat /\ DOMAIN pieces = 1 .. N /\ \A i \in 1 .. N : pieces[i] \in ShortLines
  <2> HIDE DEF pieces
  <2>1. pieces \in Seq(ShortLines) BY PiecesTyped DEF pieces
  <2> QED BY <2>1
<1>2. Loaded(text) = iter[1 .. N]
  <2>1. DOMAIN Pieces(text) = 1 .. N BY <1>1
  <2> QED BY <2>1 DEF Loaded, FoldLeft, MapThenFoldSet
<1> HIDE DEF Turn, N, pieces
<1>4. <<>> \in X BY HistoryAssumption
<1>5. step \in [X \X (1 .. N) -> X]
  <2>1. ASSUME NEW h \in X, NEW i \in 1 .. N PROVE Turn(h, pieces[i]) \in X
    <3>1. h \in Seq(ShortLines) /\ Len(h) <= DefaultHistory OBVIOUS
    <3>2. LineOf(pieces[i]) \in ShortLines BY <1>1, LineOfTyped
    <3>3. /\ Turn(h, pieces[i]) \in Seq(ShortLines)
          /\ Len(Turn(h, pieces[i])) \in 1 .. DefaultHistory
      BY <3>1, <3>2, HistoryAddIs, HistoryAssumption DEF Turn
    <3> QED BY <3>3, HistoryAssumption
  <2> HIDE DEF X
  <2> QED BY <2>1
<1> HIDE DEF X
<1>6. iter = Fold(iter)
  <2>1. PICK f : Turns!IsFold(f, X, <<>>, step, N)
    <3> HIDE DEF step
    <3> QED BY <1>1, <1>4, <1>5, Turns!FoldExists
  <2>2. /\ f \in [SUBSET (1 .. N) -> X]
        /\ \A s \in SUBSET (1 .. N) :
             f[s] = IF s = {} THEN <<>> ELSE step[<<f[s \ {Max(s)}], Max(s)>>]
    BY <2>1 DEF Turns!IsFold, Turns!Max, Max
  <2>3. ASSUME NEW s \in SUBSET (1 .. N), s # {}
        PROVE  step[<<f[s \ {Max(s)}], Max(s)>>] = Turn(f[s \ {Max(s)}], pieces[Max(s)])
    <3>1. Max(s) \in 1 .. N BY <1>1, <2>3, GreatestIs
    <3>2. f[s \ {Max(s)}] \in X BY <2>2
    <3> QED BY <3>1, <3>2
  <2>4. f = Fold(f) BY <2>2, <2>3
  <2> QED BY <2>4
<1> HIDE DEF iter
<1>7. iter[{}] = <<>> BY <1>6
<1>8. ASSUME NEW i \in 1 .. N, iter[1 .. i - 1] \in X
      PROVE  iter[1 .. i] = step[<<iter[1 .. i - 1], i>>]
  <2>1. 1 .. i \in SUBSET (1 .. N) /\ 1 .. i # {} /\ Max(1 .. i) = i /\ (1 .. i) \ {i} = 1 .. i - 1
    BY <1>1, PlacesUpTo
  <2>2. iter[1 .. i] = Turn(iter[1 .. i - 1], pieces[i]) BY <1>6, <2>1
  <2> QED BY <1>8, <2>2
<1>9. PICK g : AfterTurns(g, X, <<>>, step, N) /\ iter[1 .. N] = g[N]
  <2> HIDE DEF step
  <2>1. Folds(iter, X, <<>>, step, N) BY <1>7, <1>8 DEF Folds
  <2> QED BY <1>1, <1>4, <1>5, <2>1, TurnsOfFold
<1>10. ASSUME NEW i \in 1 .. N
       PROVE  g[i] = HistoryAdd(g[i - 1], LineOf(pieces[i]), DefaultHistory)
  <2>1. i - 1 \in 0 .. N BY <1>1
  <2>2. g[i - 1] \in X /\ g[i] = step[<<g[i - 1], i>>]
    <3> HIDE DEF step
    <3> QED BY <1>9, <2>1 DEF AfterTurns
  <2>3. step[<<g[i - 1], i>>] = Turn(g[i - 1], pieces[i]) BY <2>2
  <2> QED BY <2>2, <2>3 DEF Turn
<1>11. g \in [0 .. N -> X] /\ g[0] = <<>>
  <2> HIDE DEF step
  <2> QED BY <1>9 DEF AfterTurns
<1>12. g \in [0 .. N -> Seq(ShortLines)] /\ \A i \in 0 .. N : Len(g[i]) <= DefaultHistory
  BY <1>11 DEF X
<1> QED BY <1>2, <1>9, <1>10, <1>11, <1>12 DEF LoadTurns, N, pieces

LEMMA WrittenTyped ==
  ASSUME NEW h \in Seq(Lines)
  PROVE  WrittenOut(h) \in Lines
<1>1. PICK g : Written(g, h) BY WrittenExists
<1>2. Len(h) \in 0 .. Len(h) OBVIOUS
<1> QED BY <1>1, <1>2 DEF Written

LEMMA LoadedTyped ==
  ASSUME NEW text \in Lines
  PROVE  Loaded(text) \in Seq(ShortLines)
<1>1. PICK g : LoadTurns(g, text) BY LoadTurnsExist
<1>2. Len(Pieces(text)) \in 0 .. Len(Pieces(text)) BY PiecesTyped
<1> QED BY <1>1, <1>2 DEF LoadTurns

-----------------------------------------------------------------------------
(* The invariant                                                           *)

EditType == [buf : Seq(AllTyped), pos : Nat, cols : Nat, index : Nat]
ScreenType == [text : Seq(AllTyped), cursor : Int]

\* A line under way, next to a history of n entries.
EditOK(e, n) ==
  /\ e \in EditType /\ e.cols # 0
  /\ e.pos <= Len(e.buf) /\ Len(e.buf) < MaxLine
  /\ e.index < n

\* What ScreenShowsCursor says of a line and a screen.
Window(e, scr, skip) ==
  LET last == skip + Len(scr.text)
  IN /\ last <= Len(e.buf)
     /\ scr.text = SubSeq(e.buf, skip + 1, last)
     /\ scr.cursor = PromptLen + e.pos - skip
     /\ e.cols > PromptLen => scr.cursor < e.cols
     /\ skip > 0 => scr.cursor = e.cols - 1
     /\ last < Len(e.buf) => PromptLen + Len(scr.text) = e.cols

Drawn(e, scr) == scr \in ScreenType /\ \E skip \in 0 .. e.pos : Window(e, scr, skip)

\* While a line is edited its screen is drawn, the history is as long as when
\* it was begun and has nothing longer than the editor makes.
Editing ==
  /\ mode = "editor" /\ raw = TRUE
  /\ EditOK(edit, Len(history)) /\ Drawn(edit, screen)
  /\ history \in Seq(ShortLines) /\ before \in Seq(ShortLines)
  /\ Len(history) = Len(CurrentLine(before))

Stopped ==
  \/ raw = TRUE /\ edit.cols # 0 /\ edit.cols <= PromptLen
  \/ raw = FALSE /\ edit = NoEdit /\ TerminalFails = TRUE

Idle ==
  /\ raw = FALSE /\ edit = NoEdit
  /\ phase = "prompt" /\ mode = "editor" => history \in Seq(ShortLines)

HistoriesOK ==
  /\ history \in Seq(Lines) /\ Len(history) <= MaxHistory
  /\ before \in Seq(Lines) /\ Len(before) <= MaxHistory
  /\ saved \in Seq(Lines) /\ Len(saved) <= MaxHistory
  /\ file = WrittenOut(saved)

IInv ==
  /\ phase \in {"closed", "prompt", "editing", "undefined"}
  /\ mode \in Modes /\ browsed \in BOOLEAN
  /\ keys \in 0 .. MaxKeys /\ runs \in 0 .. MaxRuns
  /\ edit \in EditType /\ screen \in ScreenType
  /\ HistoriesOK
  /\ phase = "editing" => Editing
  /\ phase = "undefined" => Stopped
  /\ phase \in {"closed", "prompt"} => Idle

-----------------------------------------------------------------------------
(* The screen                                                              *)

\* A refresh draws the line, wherever it has room.
LEMMA ShownIsDrawn ==
  ASSUME NEW e, NEW n, EditOK(e, n), Fits(e)
  PROVE  Drawn(e, Shown(e))
<1> DEFINE skip == Skipped(e)
           width == Least(Len(e.buf) - skip, e.cols - PromptLen)
           scr == Shown(e)
<1>1. /\ PromptLen \in Nat \ {0} /\ MaxLine \in Nat
      /\ e.pos \in Nat /\ e.cols \in Nat /\ Len(e.buf) \in Nat /\ e.buf \in Seq(AllTyped)
      /\ e.pos <= Len(e.buf) /\ e.cols # 0
  BY PromptAssumption, LineAssumption DEF EditOK, EditType
<1>2. /\ skip \in 0 .. e.pos /\ e.cols > PromptLen
      /\ PromptLen + e.pos - skip < e.cols
      /\ skip > 0 => PromptLen + e.pos - skip = e.cols - 1
  BY <1>1 DEF Skipped, Fits
<1>3. /\ width \in Nat /\ skip + width <= Len(e.buf)
      /\ skip + width < Len(e.buf) => width = e.cols - PromptLen
  <2> HIDE DEF skip
  <2> QED BY <1>1, <1>2 DEF Least
<1>4. scr = [text |-> SubSeq(e.buf, skip + 1, skip + width), cursor |-> PromptLen + e.pos - skip]
  BY DEF Shown
<1> HIDE DEF skip, width, scr
<1>5. SubSeq(e.buf, skip + 1, skip + width) \in Seq(AllTyped)
      /\ Len(SubSeq(e.buf, skip + 1, skip + width)) = width
  BY <1>1, <1>2, <1>3
<1>6. scr.text = SubSeq(e.buf, skip + 1, skip + width) /\ Len(scr.text) = width
      /\ scr.cursor = PromptLen + e.pos - skip /\ scr.cursor \in Int
  BY <1>1, <1>2, <1>4, <1>5
<1>7. scr \in ScreenType BY <1>1, <1>2, <1>4, <1>5 DEF ScreenType
<1>8. Window(e, scr, skip)
  <2>1. scr.text = SubSeq(e.buf, skip + 1, skip + Len(scr.text)) BY <1>6
  <2>2. skip + Len(scr.text) <= Len(e.buf) BY <1>3, <1>6
  <2>3. skip + Len(scr.text) < Len(e.buf) => PromptLen + Len(scr.text) = e.cols
    <3>1. Len(scr.text) = width BY <1>6
    <3>2. width = e.cols - PromptLen => PromptLen + width = e.cols BY <1>1, <1>3
    <3> QED BY <1>3, <3>1, <3>2
  <2>4. scr.cursor < e.cols /\ (skip > 0 => scr.cursor = e.cols - 1) BY <1>2, <1>6
  <2> QED BY <1>6, <2>1, <2>2, <2>3, <2>4, Zenon DEF Window
<1> QED BY <1>2, <1>7, <1>8 DEF Drawn, scr

\* Where it has none, the terminal is no wider than the prompt.
LEMMA NoRoom ==
  ASSUME NEW e, NEW n, EditOK(e, n), ~Fits(e)
  PROVE  e.cols <= PromptLen
BY PromptAssumption DEF EditOK, EditType, Fits, Skipped

\* The character that is written alone is what a refresh would have shown.
LEMMA AppendedIsDrawn ==
  ASSUME NEW e, NEW n, EditOK(e, n), NEW scr, Drawn(e, scr), NEW c \in AllTyped,
         NEW f, f = [e EXCEPT !.buf = Append(@, c), !.pos = @ + 1],
         e.pos = Len(e.buf), PromptLen + Len(f.buf) < f.cols
  PROVE  Drawn(f, [text |-> Append(scr.text, c), cursor |-> Least(scr.cursor + 1, f.cols - 1)])
<1> DEFINE g == [text |-> Append(scr.text, c), cursor |-> Least(scr.cursor + 1, f.cols - 1)]
<1>1. /\ PromptLen \in Nat \ {0}
      /\ e.pos \in Nat /\ e.cols \in Nat /\ Len(e.buf) \in Nat /\ e.buf \in Seq(AllTyped)
      /\ e.pos = Len(e.buf)
  BY PromptAssumption DEF EditOK, EditType
<1>2. /\ f.buf = Append(e.buf, c) /\ f.pos = e.pos + 1 /\ f.cols = e.cols
      /\ Len(f.buf) = Len(e.buf) + 1 /\ f.buf \in Seq(AllTyped)
  BY <1>1 DEF EditOK, EditType
<1>3. PICK skip \in 0 .. e.pos : Window(e, scr, skip) BY DEF Drawn
<1> USE DEF Window
<1>4. scr.text \in Seq(AllTyped) /\ Len(scr.text) \in Nat BY DEF Drawn, ScreenType
<1>5. skip = 0 BY <1>1, <1>2, <1>3
<1>6. Len(scr.text) = Len(e.buf) BY <1>1, <1>2, <1>3, <1>4, <1>5
<1>7. SubSeq(e.buf, 1, Len(e.buf)) = e.buf BY <1>1
<1>8. scr.text = e.buf BY <1>3, <1>5, <1>6, <1>7
<1>9. scr.cursor = PromptLen + e.pos BY <1>1, <1>3, <1>5
<1>10. g.text = f.buf /\ g.cursor = PromptLen + f.pos /\ g \in ScreenType
  <2>1. scr.cursor + 1 = PromptLen + f.pos /\ ~(f.cols - 1 < scr.cursor + 1)
        /\ scr.cursor + 1 \in Int
    BY <1>1, <1>2, <1>9
  <2>2. Least(scr.cursor + 1, f.cols - 1) = PromptLen + f.pos
    BY <1>1, <1>2, <1>9 DEF Least
  <2>3. g = [text |-> f.buf, cursor |-> PromptLen + f.pos] BY <1>2, <1>8, <2>2
  <2> HIDE DEF g
  <2> QED BY <1>2, <2>1, <2>3 DEF ScreenType
<1> HIDE DEF g
<1>11. SubSeq(f.buf, 1, Len(f.buf)) = f.buf BY <1>2
<1>12. 0 \in 0 .. f.pos BY <1>1, <1>2
<1>13. Window(f, g, 0)
  BY <1>1, <1>2, <1>10, <1>11
<1>14. Drawn(f, g) BY <1>10, <1>12, <1>13 DEF Drawn
<1> QED BY <1>14 DEF g

-----------------------------------------------------------------------------
(* The keys                                                                *)

\* What a key leaves on the screen, unless there is no room for it.
Redrawn ==
  \/ phase' = "editing" /\ Drawn(edit', screen')
  \/ phase' = "undefined" /\ edit'.cols <= PromptLen /\ screen' = screen

LEMMA RefreshDraws ==
  ASSUME NEW e, NEW n, EditOK(e, n), Refresh(e), phase = "editing"
  PROVE  edit' = e /\ Redrawn
<1>1. edit' = e BY DEF Refresh
<1>2. CASE Fits(e)
  <2>1. screen' = Shown(e) /\ phase' = "editing" BY <1>2 DEF Refresh
  <2>2. Drawn(e, Shown(e)) BY <1>2, ShownIsDrawn
  <2> QED BY <1>1, <2>1, <2>2, Zenon DEF Redrawn
<1>3. CASE ~Fits(e)
  <2>1. screen' = screen /\ phase' = "undefined" BY <1>3 DEF Refresh
  <2>2. e.cols <= PromptLen BY <1>3, NoRoom
  <2> QED BY <1>1, <2>1, <2>2 DEF Redrawn
<1> QED BY <1>2, <1>3

LEMMA ShortAreLines ==
  ASSUME NEW h \in Seq(ShortLines)
  PROVE  h \in Seq(Lines)
BY DEF ShortLines

LEMMA KeyKeeps ==
  ASSUME IInv, Key, EditOK(edit', Len(history)), Redrawn, browsed' \in BOOLEAN,
         history' \in Seq(ShortLines), Len(history') = Len(history)
  PROVE  IInv'
<1>1. phase = "editing" /\ Editing /\ HistoriesOK BY DEF IInv, Key
<1>2. UNCHANGED <<mode, raw, file, saved, before, runs>> BY DEF Key
<1>3. keys' \in 0 .. MaxKeys BY InputAssumption DEF IInv, Key
<1>4. edit' \in EditType /\ edit'.cols # 0 BY DEF EditOK
<1>5. HistoriesOK'
  <2>1. history' \in Seq(Lines) BY ShortAreLines
  <2> QED BY <1>1, <1>2, <2>1 DEF HistoriesOK
<1>6. screen' \in ScreenType BY DEF IInv, Redrawn, Drawn
<1>7. phase' \in {"editing", "undefined"} BY DEF Redrawn
<1>8. phase' = "editing" => Editing'
  <2> SUFFICES ASSUME phase' = "editing" PROVE Editing' OBVIOUS
  <2>1. Drawn(edit', screen') BY DEF Redrawn
  <2>2. CurrentLine(before)' = CurrentLine(before) BY <1>2 DEF CurrentLine, HistoryAdd
  <2>3. EditOK(edit, Len(history))' /\ Drawn(edit, screen)' BY <2>1
  <2> HIDE DEF Redrawn
  <2> QED BY <1>1, <1>2, <2>2, <2>3 DEF Editing
<1>9. phase' = "undefined" => Stopped'
  <2> SUFFICES ASSUME phase' = "undefined" PROVE Stopped' OBVIOUS
  <2> QED BY <1>1, <1>2, <1>4 DEF Redrawn, Stopped, Editing
<1> QED BY <1>2, <1>3, <1>4, <1>5, <1>6, <1>7, <1>8, <1>9 DEF IInv

\* The line under way has room for what a handler makes of it.
LineFits(buf, pos) ==
  buf \in Seq(AllTyped) /\ pos \in 0 .. Len(buf) /\ Len(buf) < MaxLine

LEMMA LineUnderWay ==
  ASSUME IInv, Key
  PROVE  /\ phase = "editing" /\ Editing /\ edit \in EditType
         /\ LineFits(edit.buf, edit.pos) /\ Len(edit.buf) \in Nat
         /\ MaxLine \in Nat /\ browsed \in BOOLEAN
         /\ EditOK(edit, Len(history)) /\ history \in Seq(ShortLines)
<1>1. phase = "editing" /\ Editing /\ MaxLine \in Nat BY LineAssumption DEF IInv, Key
<1> QED BY <1>1 DEF IInv, Editing, EditOK, EditType, LineFits

LEMMA EditChanged ==
  ASSUME NEW e, NEW n, EditOK(e, n), NEW buf, NEW pos, LineFits(buf, pos),
         NEW f, f = [e EXCEPT !.buf = buf, !.pos = pos]
  PROVE  EditOK(f, n)
<1>1. e \in EditType /\ e.cols # 0 /\ e.index < n BY DEF EditOK
<1>2. buf \in Seq(AllTyped) /\ pos \in Nat /\ pos <= Len(buf) /\ Len(buf) < MaxLine
  BY DEF LineFits
<1>3. f \in EditType BY <1>1, <1>2 DEF EditType
<1>4. f.buf = buf /\ f.pos = pos /\ f.cols = e.cols /\ f.index = e.index BY <1>1 DEF EditType
<1> QED BY <1>1, <1>2, <1>3, <1>4 DEF EditOK

LEMMA MovedKeeps ==
  ASSUME IInv, Key, NEW pos \in 0 .. Len(edit.buf), Moved(pos)
  PROVE  IInv'
<1> DEFINE e == [edit EXCEPT !.pos = pos]
<1>1. phase = "editing" /\ EditOK(edit, Len(history)) /\ history \in Seq(ShortLines)
      /\ browsed \in BOOLEAN
  BY LineUnderWay
<1>2. EditOK(e, Len(history)) BY <1>1 DEF EditOK, EditType
<1>3. Refresh(e) /\ UNCHANGED <<history, browsed>> BY DEF Moved
<1> HIDE DEF e
<1>4. edit' = e /\ Redrawn BY <1>1, <1>2, <1>3, RefreshDraws
<1>5. EditOK(edit', Len(history)) BY <1>2, <1>4
<1> QED BY <1>1, <1>3, <1>4, <1>5, KeyKeeps

LEMMA ChangedKeeps ==
  ASSUME IInv, Key, NEW buf, NEW pos, LineFits(buf, pos), Changed(buf, pos)
  PROVE  IInv'
<1> DEFINE e == [edit EXCEPT !.buf = buf, !.pos = pos]
<1>1. phase = "editing" /\ EditOK(edit, Len(history)) /\ history \in Seq(ShortLines)
  BY LineUnderWay
<1>2. EditOK(e, Len(history)) BY <1>1, EditChanged
<1>3. Refresh(e) /\ browsed' = FALSE /\ UNCHANGED history BY DEF Changed
<1> HIDE DEF e
<1>4. edit' = e /\ Redrawn BY <1>1, <1>2, <1>3, RefreshDraws
<1>5. EditOK(edit', Len(history)) BY <1>2, <1>4
<1> QED BY <1>1, <1>3, <1>4, <1>5, KeyKeeps

LEMMA InsertKeeps ==
  ASSUME IInv, NEW c \in Typed, EditInsert(c)
  PROVE  IInv'
<1>1. Key /\ Len(edit.buf) < MaxLine - 1 /\ browsed' = FALSE /\ UNCHANGED history BY DEF EditInsert
<1>2. /\ phase = "editing" /\ EditOK(edit, Len(history)) /\ history \in Seq(ShortLines)
      /\ edit \in EditType /\ LineFits(edit.buf, edit.pos) /\ Len(edit.buf) \in Nat
      /\ MaxLine \in Nat /\ Drawn(edit, screen)
  BY <1>1, LineUnderWay DEF Editing
<1>3. c \in AllTyped BY DEF AllTyped
<1>4. CASE edit.pos = Len(edit.buf)
  <2> DEFINE e == [edit EXCEPT !.buf = Append(@, c), !.pos = @ + 1]
  <2>1. EditOK(e, Len(history))
    <3>1. edit.buf \in Seq(AllTyped) /\ edit.pos \in Nat BY <1>2 DEF EditType
    <3>2. LineFits(Append(edit.buf, c), edit.pos + 1)
      BY <1>1, <1>2, <1>3, <1>4, <3>1 DEF LineFits
    <3> QED BY <1>2, <3>2, EditChanged
  <2>2. Appended(c) BY <1>4 DEF EditInsert
  <2>3. CASE PromptLen + Len(e.buf) < e.cols
    <3> DEFINE scr == [text |-> Append(screen.text, c),
                       cursor |-> Least(screen.cursor + 1, e.cols - 1)]
    <3>1. edit' = e /\ screen' = scr /\ phase' = phase BY <2>2, <2>3 DEF Appended
    <3>2. e = [edit EXCEPT !.buf = Append(@, c), !.pos = @ + 1] OBVIOUS
    <3> HIDE DEF e
    <3>3. Drawn(e, scr) BY <1>2, <1>3, <1>4, <2>3, <3>2, AppendedIsDrawn
    <3> HIDE DEF scr
    <3>4. Redrawn BY <1>2, <3>1, <3>3 DEF Redrawn
    <3>5. EditOK(edit', Len(history)) BY <2>1, <3>1
    <3> QED BY <1>1, <1>2, <3>4, <3>5, KeyKeeps
  <2>4. CASE ~(PromptLen + Len(e.buf) < e.cols)
    <3>1. Refresh(e) BY <2>2, <2>4 DEF Appended
    <3> HIDE DEF e
    <3>2. edit' = e /\ Redrawn BY <1>2, <2>1, <3>1, RefreshDraws
    <3>3. EditOK(edit', Len(history)) BY <2>1, <3>2
    <3> QED BY <1>1, <1>2, <3>2, <3>3, KeyKeeps
  <2> QED BY <2>3, <2>4
<1>5. CASE edit.pos # Len(edit.buf)
  <2> DEFINE e == [edit EXCEPT !.buf = InsertAt(@, edit.pos + 1, c), !.pos = @ + 1]
             p == edit.pos
             b == edit.buf
  <2>1. Refresh(e) BY <1>5 DEF EditInsert
  <2>2. p \in Nat /\ p < Len(b) /\ b \in Seq(AllTyped)
    BY <1>2, <1>5 DEF LineFits, EditType
  <2>3. InsertAt(b, p + 1, c) \in Seq(AllTyped) /\ Len(InsertAt(b, p + 1, c)) = Len(b) + 1
    <3> HIDE DEF p, b
    <3>1. SubSeq(b, 1, p) \in Seq(AllTyped) /\ Len(SubSeq(b, 1, p)) = p BY <2>2
    <3>2. SubSeq(b, p + 1, Len(b)) \in Seq(AllTyped) /\ Len(SubSeq(b, p + 1, Len(b))) = Len(b) - p
      BY <2>2
    <3>3. <<c>> \in Seq(AllTyped) /\ Len(<<c>>) = 1 BY <1>3
    <3>4. (p + 1) - 1 = p BY <2>2
    <3>5. InsertAt(b, p + 1, c) = (SubSeq(b, 1, p) \o <<c>>) \o SubSeq(b, p + 1, Len(b))
      BY <3>4 DEF InsertAt
    <3> DEFINE u == SubSeq(b, 1, p)
               v == SubSeq(b, p + 1, Len(b))
    <3>6. u \in Seq(AllTyped) /\ Len(u) = p /\ v \in Seq(AllTyped) /\ Len(v) = Len(b) - p
      BY <3>1, <3>2
    <3> HIDE DEF u, v
    <3>7. u \o <<c>> \in Seq(AllTyped) /\ Len(u \o <<c>>) = p + 1 BY <3>3, <3>6, Joined
    <3>8. (u \o <<c>>) \o v \in Seq(AllTyped) /\ Len((u \o <<c>>) \o v) = (p + 1) + (Len(b) - p)
      BY <3>6, <3>7, Joined
    <3>9. (p + 1) + (Len(b) - p) = Len(b) + 1 BY <2>2
    <3>10. InsertAt(b, p + 1, c) = (u \o <<c>>) \o v BY <3>5 DEF u, v
    <3> QED BY <3>8, <3>9, <3>10
  <2>4. EditOK(e, Len(history))
    <3>1. LineFits(InsertAt(b, p + 1, c), p + 1)
      <4>1. p + 1 \in 0 .. Len(b) + 1 /\ Len(b) + 1 < MaxLine BY <1>1, <1>2, <2>2
      <4> QED BY <2>3, <4>1 DEF LineFits
    <3> QED BY <1>2, <3>1, EditChanged
  <2> HIDE DEF e
  <2>5. edit' = e /\ Redrawn BY <1>2, <2>1, <2>4, RefreshDraws
  <2>6. EditOK(edit', Len(history)) BY <2>4, <2>5
  <2> QED BY <1>1, <1>2, <2>5, <2>6, KeyKeeps
<1> QED BY <1>4, <1>5

LEMMA RemoveAtIs ==
  ASSUME NEW T, NEW s \in Seq(T), NEW i \in 1 .. Len(s)
  PROVE  RemoveAt(s, i) \in Seq(T) /\ Len(RemoveAt(s, i)) = Len(s) - 1
<1> DEFINE u == SubSeq(s, 1, i - 1)
           v == SubSeq(s, i + 1, Len(s))
<1>1. u \in Seq(T) /\ Len(u) = i - 1 OBVIOUS
<1>2. v \in Seq(T) /\ Len(v) = Len(s) - i OBVIOUS
<1>3. RemoveAt(s, i) = u \o v BY DEF RemoveAt
<1> HIDE DEF u, v
<1>4. u \o v \in Seq(T) /\ Len(u \o v) = Len(u) + Len(v) BY <1>1, <1>2, Joined
<1>5. Len(u \o v) = Len(s) - 1 BY <1>1, <1>2, <1>4
<1> QED BY <1>3, <1>4, <1>5

\* The greatest of some places, or 0 where there are none.
LEMMA GreatestOrZero ==
  ASSUME NEW k \in Nat, NEW S \in SUBSET (1 .. k)
  PROVE  /\ Max({0} \cup S) \in {0} \cup S /\ Max({0} \cup S) \in 0 .. k
         /\ \A y \in S : y <= Max({0} \cup S)
<1> DEFINE Z == {0} \cup S
<1>1. Z \in SUBSET (0 .. k) /\ Z # {} /\ \A y \in S : y \in Z OBVIOUS
<1> HIDE DEF Z
<1>2. Max(Z) \in Z /\ \A y \in Z : y <= Max(Z)
  BY <1>1, Turns!GreatestBelow DEF Turns!Max, Max
<1>3. Max(Z) \in 0 .. k BY <1>1, <1>2
<1>4. \A y \in S : y <= Max(Z) BY <1>1, <1>2
<1> QED BY <1>2, <1>3, <1>4 DEF Z

LEMMA WordStartIs ==
  ASSUME NEW buf, NEW pos \in Nat
  PROVE  WordStart(buf, pos) \in 0 .. pos
<1> DEFINE S == {i \in 1 .. pos : buf[i] # Blank}
           end == Max({0} \cup S)
           R == {i \in 1 .. end : buf[i] = Blank}
<1>1. S \in SUBSET (1 .. pos) OBVIOUS
<1>2. end \in 0 .. pos
  <2> HIDE DEF S
  <2> QED BY <1>1, GreatestOrZero
<1>3. WordStart(buf, pos) = Max({0} \cup R) BY DEF WordStart
<1> HIDE DEF end
<1>4. R \in SUBSET (1 .. end) /\ end \in Nat BY <1>2
<1> HIDE DEF R
<1>5. Max({0} \cup R) \in 0 .. end BY <1>4, GreatestOrZero
<1>6. \A x \in 0 .. end : x \in 0 .. pos BY <1>2
<1> QED BY <1>3, <1>5, <1>6

\* A first part of a sequence.
LEMMA FirstPart ==
  ASSUME NEW T, NEW s \in Seq(T), NEW k \in 0 .. Len(s)
  PROVE  SubSeq(s, 1, k) \in Seq(T) /\ Len(SubSeq(s, 1, k)) = k
         /\ \A i \in 1 .. k : SubSeq(s, 1, k)[i] = s[i]
<1>1. Len(s) \in Nat /\ k \in Nat /\ k <= Len(s) OBVIOUS
<1>2. SubSeq(s, 1, k) \in Seq(T) /\ Len(SubSeq(s, 1, k)) = k BY <1>1
<1>3. \A i \in 1 .. k : SubSeq(s, 1, k)[i] = s[i] BY <1>1
<1> QED BY <1>2, <1>3

\* Everything but what a terminal says, the characters typed and the history.
LEMMA EditsKeep ==
  ASSUME IInv,
         \/ EditMoveLeft \/ EditMoveRight \/ EditMoveHome \/ EditMoveEnd
         \/ EditDelete \/ EditBackspace \/ EditDeletePrevWord
         \/ Transpose \/ KillLine \/ KillEnd \/ ClearScreen
  PROVE  IInv'
<1> DEFINE b == edit.buf
           p == edit.pos
<1>1. Key
  BY DEF EditMoveLeft, EditMoveRight, EditMoveHome, EditMoveEnd, EditDelete, EditBackspace,
         EditDeletePrevWord, Transpose, KillLine, KillEnd, ClearScreen
<1>2. /\ b \in Seq(AllTyped) /\ Len(b) \in Nat /\ p \in 0 .. Len(b)
      /\ Len(b) < MaxLine /\ MaxLine \in Nat
  BY <1>1, LineUnderWay DEF LineFits
<1>3. ASSUME EditMoveLeft PROVE IInv'
  <2>1. p - 1 \in 0 .. Len(b) /\ Moved(p - 1) BY <1>2, <1>3 DEF EditMoveLeft
  <2> QED BY <1>1, <2>1, MovedKeeps
<1>4. ASSUME EditMoveRight PROVE IInv'
  <2>1. p + 1 \in 0 .. Len(b) /\ Moved(p + 1) BY <1>2, <1>4 DEF EditMoveRight
  <2> QED BY <1>1, <2>1, MovedKeeps
<1>5. ASSUME EditMoveHome PROVE IInv'
  <2>1. 0 \in 0 .. Len(b) /\ Moved(0) BY <1>2, <1>5 DEF EditMoveHome
  <2> QED BY <1>1, <2>1, MovedKeeps
<1>6. ASSUME EditMoveEnd PROVE IInv'
  <2>1. Len(b) \in 0 .. Len(b) /\ Moved(Len(b)) BY <1>2, <1>6 DEF EditMoveEnd
  <2> QED BY <1>1, <2>1, MovedKeeps
<1>7. ASSUME ClearScreen PROVE IInv'
  <2>1. p \in 0 .. Len(b) /\ Moved(p) BY <1>2, <1>7 DEF ClearScreen
  <2> QED BY <1>1, <2>1, MovedKeeps
<1>8. ASSUME EditDelete PROVE IInv'
  <2>1. p + 1 \in 1 .. Len(b) /\ Changed(RemoveAt(b, p + 1), p) BY <1>2, <1>8 DEF EditDelete
  <2>2. RemoveAt(b, p + 1) \in Seq(AllTyped) /\ Len(RemoveAt(b, p + 1)) = Len(b) - 1
    <3> HIDE DEF b, p
    <3> QED BY <1>2, <2>1, RemoveAtIs
  <2>3. LineFits(RemoveAt(b, p + 1), p)
    <3> HIDE DEF b, p
    <3> QED BY <1>2, <2>1, <2>2 DEF LineFits
  <2> QED BY <1>1, <2>1, <2>3, ChangedKeeps
<1>9. ASSUME EditBackspace PROVE IInv'
  <2>1. p \in 1 .. Len(b) /\ Changed(RemoveAt(b, p), p - 1) BY <1>2, <1>9 DEF EditBackspace
  <2>2. RemoveAt(b, p) \in Seq(AllTyped) /\ Len(RemoveAt(b, p)) = Len(b) - 1
    <3> HIDE DEF b, p
    <3> QED BY <1>2, <2>1, RemoveAtIs
  <2>3. LineFits(RemoveAt(b, p), p - 1)
    <3> HIDE DEF b, p
    <3> QED BY <1>2, <2>1, <2>2 DEF LineFits
  <2> QED BY <1>1, <2>1, <2>3, ChangedKeeps
<1>10. ASSUME EditDeletePrevWord PROVE IInv'
  <2> DEFINE start == WordStart(b, p)
             u == SubSeq(b, 1, start)
             v == SubSeq(b, p + 1, Len(b))
  <2>1. Changed(u \o v, start) BY <1>10 DEF EditDeletePrevWord
  <2> HIDE DEF b, p
  <2>2. start \in 0 .. p BY <1>2, WordStartIs
  <2> HIDE DEF start
  <2>3. /\ u \in Seq(AllTyped) /\ Len(u) = start
        /\ v \in Seq(AllTyped) /\ Len(v) = Len(b) - p
    BY <1>2, <2>2
  <2> HIDE DEF u, v
  <2>4. u \o v \in Seq(AllTyped) /\ Len(u \o v) = start + (Len(b) - p) BY <2>3, Joined
  <2>5. start \in 0 .. start + (Len(b) - p) /\ start + (Len(b) - p) < MaxLine BY <1>2, <2>2
  <2>6. LineFits(u \o v, start) BY <2>4, <2>5 DEF LineFits
  <2> QED BY <1>1, <2>1, <2>6, ChangedKeeps
<1>11. ASSUME Transpose PROVE IInv'
  <2> DEFINE t == [b EXCEPT ![p] = b[p + 1], ![p + 1] = b[p]]
             q == IF p # Len(b) - 1 THEN p + 1 ELSE p
  <2>1. p > 0 /\ p < Len(b) /\ Changed(t, q) BY <1>11 DEF Transpose
  <2> HIDE DEF b, p
  <2>2. p \in 1 .. Len(b) /\ p + 1 \in 1 .. Len(b) BY <1>2, <2>1
  <2>3. t \in Seq(AllTyped) /\ Len(t) = Len(b)
    <3>1. b[p] \in AllTyped /\ b[p + 1] \in AllTyped BY <1>2, <2>2
    <3>2. [b EXCEPT ![p] = b[p + 1]] \in Seq(AllTyped)
          /\ Len([b EXCEPT ![p] = b[p + 1]]) = Len(b)
      BY <1>2, <2>2, <3>1
    <3> DEFINE c == [b EXCEPT ![p] = b[p + 1]]
    <3>3. t = [c EXCEPT ![p + 1] = b[p]] OBVIOUS
    <3> HIDE DEF c, t
    <3>4. c \in Seq(AllTyped) /\ Len(c) = Len(b) BY <3>2 DEF c
    <3> QED BY <2>2, <3>1, <3>3, <3>4
  <2>4. q \in 0 .. Len(b) BY <1>2, <2>2
  <2> HIDE DEF t, q
  <2>5. LineFits(t, q) BY <1>2, <2>3, <2>4 DEF LineFits
  <2> QED BY <1>1, <2>1, <2>5, ChangedKeeps
<1>12. ASSUME KillLine PROVE IInv'
  <2>1. Changed(<<>>, 0) BY <1>12 DEF KillLine
  <2>2. LineFits(<<>>, 0) BY LineAssumption DEF LineFits
  <2> QED BY <1>1, <2>1, <2>2, ChangedKeeps
<1>13. ASSUME KillEnd PROVE IInv'
  <2>1. Changed(SubSeq(b, 1, p), p) BY <1>13 DEF KillEnd
  <2>2. LineFits(SubSeq(b, 1, p), p)
    <3> HIDE DEF b, p
    <3>1. SubSeq(b, 1, p) \in Seq(AllTyped) /\ Len(SubSeq(b, 1, p)) = p BY <1>2
    <3> QED BY <1>2, <3>1 DEF LineFits
  <2> QED BY <1>1, <2>1, <2>2, ChangedKeeps
<1> QED BY <1>3, <1>4, <1>5, <1>6, <1>7, <1>8, <1>9, <1>10, <1>11, <1>12, <1>13

\* The history with the line under way put back, and what is then taken.
Kept == [history EXCEPT ![Entry(edit.index)] = CString(edit.buf)]

LEMMA KeptIs ==
  ASSUME Editing
  PROVE  /\ Entry(edit.index) \in 1 .. Len(history) /\ CString(edit.buf) \in ShortLines
         /\ Kept \in Seq(ShortLines) /\ Len(Kept) = Len(history)
<1>1. /\ edit \in EditType /\ Len(edit.buf) < MaxLine /\ edit.index < Len(history)
      /\ history \in Seq(ShortLines)
  BY DEF Editing, EditOK
<1>2. edit.buf \in Seq(AllTyped) /\ edit.index \in Nat BY <1>1 DEF EditType
<1>3. Entry(edit.index) \in 1 .. Len(history) BY <1>1, <1>2 DEF Entry
<1>4. CString(edit.buf) \in Lines /\ Len(CString(edit.buf)) <= Len(edit.buf) BY <1>2, CStringIs
<1>5. Len(CString(edit.buf)) < MaxLine
  <2>1. Len(CString(edit.buf)) \in Nat BY <1>4 DEF Lines
  <2> QED BY <1>1, <1>2, <1>4, <2>1, LineAssumption
<1>6. CString(edit.buf) \in ShortLines BY <1>4, <1>5 DEF ShortLines
<1> QED BY <1>1, <1>3, <1>6 DEF Kept

LEMMA RecalledIs ==
  ASSUME NEW s \in ShortLines
  PROVE  /\ Recalled(s) \in Seq(AllTyped) /\ Recalled(s) \in Lines
         /\ Len(Recalled(s)) <= MaxLine - 2 /\ Len(Recalled(s)) \in Nat
         /\ Len(s) <= MaxLine - 2 => Recalled(s) = s
<1> DEFINE k == Least(Len(s), MaxLine - 2)
<1>1. s \in Seq(Stored) /\ Len(s) < MaxLine /\ MaxLine \in Nat /\ MaxLine >= 3
  BY LineAssumption DEF ShortLines, Lines
<1>2. k \in 0 .. Len(s) /\ k <= MaxLine - 2 /\ (Len(s) <= MaxLine - 2 => k = Len(s))
  BY <1>1 DEF Least
<1>3. Recalled(s) = SubSeq(s, 1, k) BY DEF Recalled
<1> HIDE DEF k
<1>4. SubSeq(s, 1, k) \in Seq(Stored) /\ Len(SubSeq(s, 1, k)) = k BY <1>1, <1>2
<1>5. SubSeq(s, 1, Len(s)) = s BY <1>1
<1>6. Recalled(s) \in Lines BY <1>3, <1>4 DEF Lines
<1>7. Recalled(s) \in Seq(AllTyped) BY <1>6, LinesTyped
<1>8. Len(Recalled(s)) = k BY <1>3, <1>4
<1>9. Len(s) <= MaxLine - 2 => Recalled(s) = s BY <1>2, <1>3, <1>5
<1> QED BY <1>2, <1>6, <1>7, <1>8, <1>9

LEMMA HistoryStepKeeps ==
  ASSUME IInv, Key, NEW step \in Int, HistoryStep(step), UNCHANGED browsed
  PROVE  IInv'
<1> DEFINE i == edit.index + step
<1>1. /\ phase = "editing" /\ Editing /\ EditOK(edit, Len(history)) /\ browsed \in BOOLEAN
      /\ history \in Seq(ShortLines) /\ MaxLine \in Nat
  BY LineUnderWay
<1>2. Kept \in Seq(ShortLines) /\ Len(Kept) = Len(history) BY <1>1, KeptIs
<1>3. history' = Kept BY DEF HistoryStep, Kept
<1>4. i \in Int BY <1>1 DEF EditOK, EditType
<1>5. CASE i < 0 \/ i >= Len(history)
  <2>1. UNCHANGED <<edit, screen, phase>> BY <1>5 DEF HistoryStep
  <2>2. Redrawn BY <1>1, <2>1 DEF Redrawn, Editing
  <2>3. EditOK(edit', Len(history)) BY <1>1, <2>1
  <2> QED BY <1>1, <1>2, <1>3, <2>2, <2>3, KeyKeeps
<1>6. CASE ~(i < 0 \/ i >= Len(history))
  <2> DEFINE line == Recalled(Kept[Entry(i)])
             e == [edit EXCEPT !.buf = line, !.pos = Len(line), !.index = i]
  <2>1. i \in Nat /\ i < Len(history) /\ Len(history) \in Nat BY <1>1, <1>4, <1>6
  <2>2. Entry(i) \in 1 .. Len(Kept) BY <1>2, <2>1 DEF Entry
  <2>3. Kept[Entry(i)] \in ShortLines BY <1>2, <2>2
  <2>4. /\ line \in Seq(AllTyped) /\ Len(line) <= MaxLine - 2 /\ Len(line) \in Nat
    BY <2>3, RecalledIs
  <2>5. Refresh(e) BY <1>6 DEF HistoryStep, Kept
  <2> HIDE DEF line, i
  <2>6. EditOK(e, Len(history))
    <3>1. edit \in EditType /\ edit.cols # 0 BY <1>1 DEF EditOK
    <3>2. e \in EditType BY <2>1, <2>4, <3>1 DEF EditType
    <3>3. e.buf = line /\ e.pos = Len(line) /\ e.cols = edit.cols /\ e.index = i
      BY <3>1 DEF EditType
    <3>4. Len(line) < MaxLine BY <1>1, <2>4
    <3> HIDE DEF e
    <3> QED BY <2>1, <2>4, <3>1, <3>2, <3>3, <3>4 DEF EditOK
  <2> HIDE DEF e
  <2>7. edit' = e /\ Redrawn BY <1>1, <2>5, <2>6, RefreshDraws
  <2>8. EditOK(edit', Len(history)) BY <2>6, <2>7
  <2> QED BY <1>1, <1>2, <1>3, <2>7, <2>8, KeyKeeps
<1> QED BY <1>5, <1>6

-----------------------------------------------------------------------------
(* The loop of main                                                        *)

LEMMA NothingTyped ==
  /\ <<>> \in Lines /\ <<>> \in ShortLines /\ <<>> \in Seq(Lines) /\ <<>> \in Seq(ShortLines)
  /\ NoEdit \in EditType /\ NoScreen \in ScreenType
<1>1. <<>> \in Lines BY DEF Lines
<1>2. <<>> \in ShortLines BY <1>1, LineAssumption DEF ShortLines
<1>3. NoEdit \in EditType /\ NoScreen \in ScreenType
  BY DEF NoEdit, NoScreen, EditType, ScreenType
<1> QED BY <1>1, <1>2, <1>3

LEMMA NothingWritten == WrittenOut(<<>>) = <<>>
<1>1. <<>> \in Seq(Lines) /\ Len(<<>>) = 0 BY NothingTyped
<1>2. PICK g : Written(g, <<>>) BY <1>1, WrittenExists
<1> QED BY <1>1, <1>2 DEF Written

\* A line enters the history h.
LEMMA AcceptIs ==
  ASSUME NEW X, NEW h \in Seq(X), Len(h) <= MaxHistory, NEW line \in X, Accept(line, h)
  PROVE  /\ history' \in Seq(X) /\ Len(history') <= MaxHistory
         /\ phase' \in {"closed", "prompt"} /\ UNCHANGED <<file, saved>>
<1>1. MaxHistory \in Nat \ {0} BY HistoryAssumption
<1>2. CASE line = <<>> BY <1>2 DEF Accept
<1>3. CASE line # <<>>
  <2>1. history' = HistoryAdd(h, line, MaxHistory) BY <1>3 DEF Accept
  <2>2. HistoryAdd(h, line, MaxHistory) \in Seq(X)
        /\ Len(HistoryAdd(h, line, MaxHistory)) \in 1 .. MaxHistory
    BY <1>1, HistoryAddIs
  <2>3. history' \in Seq(X) /\ Len(history') <= MaxHistory BY <1>1, <2>1, <2>2
  <2> QED BY <2>3 DEF Accept
<1> QED BY <1>2, <1>3

\* The line is dealt with: what is left is a history and where main goes on.
LEMMA ReturnKeeps ==
  ASSUME IInv, Returned, phase' \in {"closed", "prompt"}, keys' \in 0 .. MaxKeys,
         history' \in Seq(Lines), Len(history') <= MaxHistory,
         mode = "editor" /\ phase' = "prompt" => history' \in Seq(ShortLines),
         saved' \in Seq(Lines), Len(saved') <= MaxHistory, file' = WrittenOut(saved')
  PROVE  IInv'
<1>1. /\ edit' = NoEdit /\ screen' = NoScreen /\ raw' = FALSE /\ before' = <<>>
      /\ browsed' = TRUE /\ mode' = mode /\ runs' = runs
  BY DEF Returned
<1>2. edit' \in EditType /\ screen' \in ScreenType /\ before' \in Seq(Lines)
  BY <1>1, NothingTyped
<1>3. Len(before') <= MaxHistory BY <1>1, HistoryAssumption
<1>4. Idle' BY <1>1 DEF Idle
<1>5. HistoriesOK' BY <1>2, <1>3 DEF HistoriesOK
<1>6. phase' # "editing" /\ phase' # "undefined" OBVIOUS
<1> QED BY <1>1, <1>2, <1>4, <1>5, <1>6 DEF IInv

LEMMA LeaveKeeps ==
  ASSUME IInv, Returned, UNCHANGED keys, NEW h \in Seq(Lines), Len(h) <= MaxHistory, Leave(h)
  PROVE  IInv'
<1>1. history' = h /\ phase' = "closed" BY DEF Leave
<1>2. keys' \in 0 .. MaxKeys BY DEF IInv
<1>3. saved' \in Seq(Lines) /\ Len(saved') <= MaxHistory /\ file' = WrittenOut(saved')
  <2>1. CASE file' = WrittenOut(h) /\ saved' = h BY <2>1
  <2>2. CASE UNCHANGED <<file, saved>> BY <2>2 DEF IInv, HistoriesOK
  <2> QED BY <2>1, <2>2 DEF Leave
<1> QED BY <1>1, <1>2, <1>3, ReturnKeeps

\* The entries but the one that stands for the current line.
LEMMA PoppedIs ==
  ASSUME Editing
  PROVE  Popped \in Seq(ShortLines) /\ Len(Popped) = Len(history) - 1
<1>1. history \in Seq(ShortLines) /\ Len(history) \in Nat \ {0} BY DEF Editing, EditOK, EditType
<1>2. Len(history) - 1 \in 0 .. Len(history) BY <1>1
<1> QED BY <1>1, <1>2, FirstPart DEF Popped

LEMMA EnterKeeps ==
  ASSUME IInv, Enter
  PROVE  IInv'
<1>1. Editing /\ HistoriesOK BY DEF IInv, Enter
<1>2. Popped \in Seq(ShortLines) /\ Len(Popped) <= MaxHistory
  BY <1>1, PoppedIs, HistoryAssumption DEF HistoriesOK
<1>3. CString(edit.buf) \in ShortLines BY <1>1, KeptIs
<1>4. Accept(CString(edit.buf), Popped) /\ Returned BY DEF Enter
<1>5. /\ history' \in Seq(ShortLines) /\ Len(history') <= MaxHistory
      /\ phase' \in {"closed", "prompt"} /\ UNCHANGED <<file, saved>>
  BY <1>2, <1>3, <1>4, AcceptIs
<1>6. history' \in Seq(Lines) BY <1>5, ShortAreLines
<1>7. keys' \in 0 .. MaxKeys BY InputAssumption DEF IInv, Enter
<1>8. saved' \in Seq(Lines) /\ Len(saved') <= MaxHistory /\ file' = WrittenOut(saved')
  BY <1>1, <1>5 DEF HistoriesOK
<1> QED BY <1>4, <1>5, <1>6, <1>7, <1>8, ReturnKeeps

LEMMA StrippedIs ==
  ASSUME NEW line \in Seq(AllTyped)
  PROVE  Stripped(line) \in Seq(AllTyped)
<1> DEFINE k == Least(Len(line), MaxLine - 1)
           piece == SubSeq(line, 1, k)
           S == {i \in DOMAIN piece : piece[i] # Return}
<1>1. k \in 0 .. Len(line) BY LineAssumption DEF Least
<1>2. Stripped(line) = SubSeq(piece, 1, Max({0} \cup S)) BY DEF Stripped
<1> HIDE DEF k
<1>3. piece \in Seq(AllTyped) BY <1>1
<1> HIDE DEF piece
<1>4. S \in SUBSET (1 .. Len(piece)) /\ Len(piece) \in Nat BY <1>3
<1> HIDE DEF S
<1>5. Max({0} \cup S) \in 0 .. Len(piece) BY <1>4, GreatestOrZero
<1> HIDE DEF S
<1>6. SubSeq(piece, 1, Max({0} \cup S)) \in Seq(AllTyped) BY <1>3, <1>5, FirstPart
<1> QED BY <1>2, <1>6

LEMMA ReadLineKeeps ==
  ASSUME IInv, ReadLine
  PROVE  IInv'
<1>1. PICK line \in PipeLines :
        Accept(CString(IF mode = "pipe" THEN line ELSE Stripped(CString(line))), history)
  BY DEF ReadLine
<1> DEFINE given == IF mode = "pipe" THEN line ELSE Stripped(CString(line))
<1>2. given \in Seq(AllTyped)
  <2>1. line \in Seq(AllTyped) BY InputAssumption
  <2>2. CString(line) \in Seq(AllTyped) BY <2>1, CStringIs, LinesTyped
  <2>3. Stripped(CString(line)) \in Seq(AllTyped) BY <2>2, StrippedIs
  <2> QED BY <2>1, <2>3
<1>3. CString(given) \in Lines BY <1>2, CStringIs
<1>4. HistoriesOK /\ mode # "editor" /\ Returned /\ keys' \in 0 .. MaxKeys
  BY InputAssumption DEF IInv, ReadLine
<1>5. Accept(CString(given), history) BY <1>1
<1> HIDE DEF given
<1>6. history \in Seq(Lines) /\ Len(history) <= MaxHistory BY <1>4 DEF HistoriesOK
<1>7. /\ history' \in Seq(Lines) /\ Len(history') <= MaxHistory
      /\ phase' \in {"closed", "prompt"} /\ UNCHANGED <<file, saved>>
  BY <1>3, <1>5, <1>6, AcceptIs
<1>8. saved' \in Seq(Lines) /\ Len(saved') <= MaxHistory /\ file' = WrittenOut(saved')
  BY <1>4, <1>7 DEF HistoriesOK
<1> QED BY <1>4, <1>7, <1>8, ReturnKeeps

LEMMA EditStartKeeps ==
  ASSUME IInv, EditStart
  PROVE  IInv'
<1>1. /\ phase = "prompt" /\ mode = "editor" /\ history' = CurrentLine(history)
      /\ screen' = [text |-> <<>>, cursor |-> PromptLen]
      /\ phase' = "editing" /\ raw' = TRUE /\ before' = history /\ browsed' = TRUE
      /\ UNCHANGED <<mode, file, saved, keys, runs>>
  BY DEF EditStart
<1>2. PICK cols \in Widths : edit' = [NoEdit EXCEPT !.cols = cols] BY DEF EditStart
<1>3. cols \in Nat /\ cols # 0 BY PromptAssumption DEF Widths, Width
<1>4. edit' = [buf |-> <<>>, pos |-> 0, cols |-> cols, index |-> 0] BY <1>2 DEF NoEdit
<1>5. history \in Seq(ShortLines) /\ Len(history) <= MaxHistory /\ HistoriesOK
  BY <1>1 DEF IInv, Idle, HistoriesOK
<1>6. MaxHistory \in Nat \ {0} /\ MaxLine \in Nat /\ MaxLine >= 3 /\ PromptLen \in Nat
  BY HistoryAssumption, LineAssumption, PromptAssumption
<1>7. history' \in Seq(ShortLines) /\ Len(history') \in 1 .. MaxHistory
  BY <1>1, <1>5, <1>6, NothingTyped, HistoryAddIs DEF CurrentLine
<1>8. edit' \in EditType BY <1>3, <1>4 DEF EditType
<1>9. EditOK(edit', Len(history'))
  <2>1. edit'.buf = <<>> /\ edit'.pos = 0 /\ edit'.cols # 0 /\ edit'.index = 0 BY <1>3, <1>4
  <2> QED BY <1>6, <1>7, <1>8, <2>1 DEF EditOK
<1>10. Drawn(edit', screen')
  <2>1. screen' \in ScreenType BY <1>1, <1>6 DEF ScreenType
  <2>2. /\ edit'.buf = <<>> /\ edit'.pos = 0 /\ edit'.cols = cols
        /\ screen'.text = <<>> /\ screen'.cursor = PromptLen /\ Len(<<>>) = 0
        /\ SubSeq(<<>>, 1, 0) = <<>>
    BY <1>1, <1>4
  <2>3. Window(edit', screen', 0) BY <1>3, <1>6, <2>2 DEF Window
  <2>4. 0 \in 0 .. edit'.pos BY <2>2
  <2> QED BY <2>1, <2>3, <2>4 DEF Drawn
<1>11. Editing'
  <2>1. Len(history') = Len(CurrentLine(before)')
    <3>1. CurrentLine(before)' = CurrentLine(history)
      BY <1>1 DEF CurrentLine, HistoryAdd
    <3> QED BY <1>1, <3>1
  <2>2. before' \in Seq(ShortLines) BY <1>1, <1>5
  <2>3. mode' = "editor" /\ raw' = TRUE BY <1>1
  <2> QED BY <1>7, <1>9, <1>10, <2>1, <2>2, <2>3 DEF Editing
<1>12. HistoriesOK'
  <2>1. history' \in Seq(Lines) /\ before' \in Seq(Lines) BY <1>1, <1>5, <1>7, ShortAreLines
  <2> QED BY <1>1, <1>5, <1>7, <2>1 DEF HistoriesOK
<1>13. screen' \in ScreenType BY <1>10 DEF Drawn
<1> QED BY <1>1, <1>8, <1>11, <1>12, <1>13 DEF IInv

LEMMA OpenKeeps ==
  ASSUME IInv, Open
  PROVE  IInv'
<1>1. /\ phase = "closed" /\ runs < MaxRuns /\ runs' = runs + 1 /\ mode' \in Modes
      /\ history' = SetMaxLen(Loaded(file), MaxHistory) /\ phase' = "prompt"
      /\ UNCHANGED <<raw, edit, screen, file, saved, before, browsed, keys>>
  BY DEF Open
<1>2. HistoriesOK /\ Idle BY <1>1 DEF IInv
<1>3. file \in Lines BY <1>2, WrittenTyped DEF HistoriesOK
<1>4. Loaded(file) \in Seq(ShortLines) BY <1>3, LoadedTyped
<1>5. history' \in Seq(ShortLines) /\ Len(history') <= MaxHistory
  BY <1>1, <1>4, SetMaxLenIs, HistoryAssumption
<1>6. history' \in Seq(Lines) BY <1>5, ShortAreLines
<1>7. HistoriesOK'
  <2>1. WrittenOut(saved)' = WrittenOut(saved) BY <1>1 DEF WrittenOut
  <2> QED BY <1>1, <1>2, <1>5, <1>6, <2>1 DEF HistoriesOK
<1>8. Idle' BY <1>1, <1>2, <1>5 DEF Idle
<1>9. runs' \in 0 .. MaxRuns BY <1>1, InputAssumption DEF IInv
<1> QED BY <1>1, <1>7, <1>8, <1>9 DEF IInv

-----------------------------------------------------------------------------
(* Type correctness and the screen                                         *)

LEMMA InitHolds == Init => IInv
<1> SUFFICES ASSUME Init PROVE IInv OBVIOUS
<1>1. HistoriesOK
  BY NothingTyped, NothingWritten, HistoryAssumption DEF Init, HistoriesOK
<1>2. Idle BY DEF Init, Idle
<1> QED BY <1>1, <1>2, NothingTyped, InputAssumption DEF Init, IInv, Modes

LEMMA NextKeeps == IInv /\ [Next]_vars => IInv'
<1> SUFFICES ASSUME IInv, [Next]_vars PROVE IInv' OBVIOUS
<1>1. CASE Open BY <1>1, OpenKeeps
<1>2. CASE EditStart BY <1>2, EditStartKeeps
<1>3. CASE RawModeFails
  <2>1. /\ phase = "prompt" /\ phase' = "undefined" /\ TerminalFails
        /\ UNCHANGED <<mode, raw, edit, history, screen, file, saved, before, browsed, keys, runs>>
    BY <1>3 DEF RawModeFails
  <2>2. HistoriesOK /\ Idle BY <2>1 DEF IInv
  <2>3. Stopped' BY <2>1, <2>2, PromptAssumption DEF Stopped, Idle, NoEdit
  <2>4. HistoriesOK' BY <2>1, <2>2 DEF HistoriesOK, WrittenOut
  <2> QED BY <2>1, <2>3, <2>4 DEF IInv
<1>4. CASE ReadLine BY <1>4, ReadLineKeeps
<1>5. CASE EndOfInput
  <2>1. history \in Seq(Lines) /\ Len(history) <= MaxHistory BY DEF IInv, HistoriesOK
  <2> QED BY <1>5, <2>1, LeaveKeeps DEF EndOfInput
<1>6. ASSUME NEW c \in Typed, EditInsert(c) PROVE IInv' BY <1>6, InsertKeeps
<1>7. CASE \/ EditMoveLeft \/ EditMoveRight \/ EditMoveHome \/ EditMoveEnd
           \/ EditDelete \/ EditBackspace \/ EditDeletePrevWord
           \/ Transpose \/ KillLine \/ KillEnd \/ ClearScreen
  BY <1>7, EditsKeep
<1>8. CASE EditHistoryPrev
  <2>1. Key /\ HistoryStep(1) /\ UNCHANGED browsed /\ 1 \in Int BY <1>8 DEF EditHistoryPrev
  <2> QED BY <2>1, HistoryStepKeeps
<1>9. CASE EditHistoryNext
  <2>1. Key /\ HistoryStep(-1) /\ UNCHANGED browsed /\ -1 \in Int BY <1>9 DEF EditHistoryNext
  <2> QED BY <2>1, HistoryStepKeeps
<1>10. CASE Enter BY <1>10, EnterKeeps
<1>11. CASE EndOfFile
  <2>1. Leave(Popped) /\ Returned /\ UNCHANGED keys /\ Editing /\ HistoriesOK
    BY <1>11 DEF EndOfFile, IInv
  <2>2. Popped \in Seq(Lines) /\ Len(Popped) <= MaxHistory
    BY <2>1, PoppedIs, ShortAreLines, HistoryAssumption DEF HistoriesOK
  <2> QED BY <2>1, <2>2, LeaveKeeps
<1>12. CASE Interrupt
  <2>1. history \in Seq(Lines) /\ Len(history) <= MaxHistory BY DEF IInv, HistoriesOK
  <2> QED BY <1>12, <2>1, LeaveKeeps DEF Interrupt
<1>13. CASE UNCHANGED vars
  BY <1>13 DEF vars, IInv, HistoriesOK, WrittenOut, Editing, Idle, Stopped, EditOK, Drawn,
               Window, CurrentLine, HistoryAdd
<1> QED BY <1>1, <1>2, <1>3, <1>4, <1>5, <1>6, <1>7, <1>8, <1>9, <1>10, <1>11, <1>12, <1>13 DEF Next

\* What holds of line, screen and history at every key.
THEOREM Invariance == Spec => []IInv
<1>1. Init => IInv BY InitHolds
<1>2. IInv /\ [Next]_vars => IInv' BY NextKeeps
<1> QED BY <1>1, <1>2, PTL DEF Spec

LEMMA TypesFollow == IInv => TypeOK
<1> SUFFICES ASSUME IInv PROVE TypeOK OBVIOUS
<1>1. HistoriesOK BY DEF IInv
<1>2. ASSUME NEW h \in Seq(Lines) PROVE h \in Seq(Seq(AllTyped))
  <2>1. \A i \in 1 .. Len(h) : h[i] \in Seq(AllTyped) BY LinesTyped
  <2> QED BY <2>1
<1>3. file \in Seq(AllTyped) BY <1>1, WrittenTyped, LinesTyped DEF HistoriesOK
<1>4. raw \in BOOLEAN BY DEF IInv, Editing, Stopped, Idle
<1>5. Types
  BY <1>1, <1>2, <1>3, <1>4 DEF IInv, HistoriesOK, Types, EditType, ScreenType
<1>6. Bounds
  <2>1. phase = "editing" => raw = TRUE BY DEF IInv, Editing
  <2>2. phase = "undefined" => (raw = TRUE <=> edit.cols # 0)
    BY DEF IInv, Stopped, NoEdit
  <2>3. phase \in {"closed", "prompt"} => raw = FALSE BY DEF IInv, Idle
  <2>4. raw <=> phase = "editing" \/ (phase = "undefined" /\ edit.cols # 0)
    BY <1>4, <2>1, <2>2, <2>3 DEF IInv
  <2>5. phase = "editing" => /\ edit.pos <= Len(edit.buf)
                             /\ Len(edit.buf) < MaxLine
                             /\ edit.index < Len(history)
    BY DEF IInv, Editing, EditOK
  <2> QED BY <1>1, <2>4, <2>5 DEF Bounds, HistoriesOK
<1>7. UndefinedExplained BY DEF IInv, Stopped, UndefinedExplained
<1> QED BY <1>5, <1>6, <1>7 DEF TypeOK

\* Every variable has its type, no index the handlers compute is outside what
\* it indexes, and behaviour is undefined for two reasons only.
THEOREM TypeCorrect == Spec => []TypeOK
BY Invariance, TypesFollow, PTL

\* The screen is a window of the line with the cursor in it.
THEOREM ScreenIsWindow == Spec => []ScreenShowsCursor
<1>1. IInv => ScreenShowsCursor
  BY DEF IInv, Editing, Drawn, Window, ScreenShowsCursor
<1> QED BY <1>1, Invariance, PTL

-----------------------------------------------------------------------------
(* Looking through the history                                             *)

\* What BrowsingKeepsHistory says of an entry, of the history and of what they
\* were.
CutOff(line, begun) ==
  Len(begun) = MaxLine - 1 /\ line = SubSeq(begun, 1, MaxLine - 2)

Untouched(h, begun) ==
  \A i \in DOMAIN begun : h[i] = begun[i] \/ CutOff(h[i], begun[i])

\* As long as nothing is typed the line is what its entry was taken for: what
\* goes back into the entry is then what came from it.
Browsing ==
  phase = "editing" /\ browsed =>
    /\ edit.buf = Recalled(history[Entry(edit.index)])
    /\ Untouched(history, CurrentLine(before))

LEMMA BegunIs ==
  ASSUME Editing, HistoriesOK
  PROVE  CurrentLine(before) \in Seq(ShortLines) /\ Len(CurrentLine(before)) = Len(history)
<1>1. before \in Seq(ShortLines) /\ Len(before) <= MaxHistory BY DEF Editing, HistoriesOK
<1>2. CurrentLine(before) \in Seq(ShortLines)
  BY <1>1, NothingTyped, HistoryAddIs, HistoryAssumption DEF CurrentLine
<1> QED BY <1>2 DEF Editing

LEMMA StepLeaves ==
  ASSUME IInv, Browsing, Key, NEW step \in Int, HistoryStep(step), UNCHANGED browsed
  PROVE  Browsing'
<1> SUFFICES ASSUME phase' = "editing", browsed' = TRUE PROVE Browsing' BY DEF Browsing
<1> DEFINE k == Entry(edit.index)
           s == history[k]
           i == edit.index + step
           begun == CurrentLine(before)
<1>1. /\ phase = "editing" /\ Editing /\ HistoriesOK /\ edit \in EditType
      /\ history \in Seq(ShortLines) /\ MaxLine \in Nat /\ MaxLine >= 3
  BY LineUnderWay, LineAssumption DEF IInv
<1>2. edit.buf = Recalled(s) /\ Untouched(history, begun) BY <1>1 DEF Browsing
<1>3. k \in 1 .. Len(history) /\ Kept \in Seq(ShortLines) /\ Len(Kept) = Len(history)
  BY <1>1, KeptIs
<1>4. s \in ShortLines BY <1>1, <1>3
<1>5. /\ Recalled(s) \in Seq(AllTyped) /\ Recalled(s) \in Lines
      /\ Len(Recalled(s)) <= MaxLine - 2 /\ Len(Recalled(s)) \in Nat
      /\ Len(s) <= MaxLine - 2 => Recalled(s) = s
  BY <1>4, RecalledIs
<1>6. CString(edit.buf) = Recalled(s) BY <1>2, <1>5, CStringIs
<1>7. Kept[k] = Recalled(s) /\ \A j \in 1 .. Len(history) : j # k => Kept[j] = history[j]
  BY <1>1, <1>3, <1>6 DEF Kept
<1>8. history' = Kept /\ before' = before BY DEF HistoryStep, Kept, Key
<1>9. CurrentLine(before)' = begun BY <1>8 DEF CurrentLine, HistoryAdd
<1>10. Untouched(Kept, begun)
  <2>1. begun \in Seq(ShortLines) /\ Len(begun) = Len(history) BY <1>1, BegunIs
  <2> SUFFICES ASSUME NEW j \in 1 .. Len(begun)
               PROVE  Kept[j] = begun[j] \/ CutOff(Kept[j], begun[j])
    BY <2>1 DEF Untouched
  <2>2. history[j] = begun[j] \/ CutOff(history[j], begun[j]) BY <1>2, <2>1 DEF Untouched
  <2>3. CASE j # k BY <1>7, <2>1, <2>2, <2>3
  <2>4. CASE j = k /\ Len(s) <= MaxLine - 2 BY <1>5, <1>7, <2>2, <2>4
  <2>5. CASE j = k /\ ~(Len(s) <= MaxLine - 2)
    <3>1. Len(s) = MaxLine - 1
      <4> HIDE DEF s, k
      <4>1. Len(s) \in Nat /\ Len(s) < MaxLine BY <1>4 DEF ShortLines, Lines
      <4> QED BY <1>1, <2>5, <4>1
    <3>2. Recalled(s) = SubSeq(s, 1, MaxLine - 2) BY <1>1, <3>1 DEF Recalled, Least
    <3>3. begun[j] \in Seq(Stored) BY <2>1 DEF ShortLines, Lines
    <3>4. ~CutOff(s, begun[j])
      <4> SUFFICES ASSUME CutOff(s, begun[j]) PROVE FALSE OBVIOUS
      <4> HIDE DEF s, k, begun
      <4>1. Len(begun[j]) = MaxLine - 1 /\ s = SubSeq(begun[j], 1, MaxLine - 2) BY DEF CutOff
      <4>2. Len(s) = MaxLine - 2 BY <1>1, <3>3, <4>1
      <4> QED BY <1>1, <3>1, <4>2
    <3>5. s = begun[j] BY <2>2, <2>5, <3>4
    <3> QED BY <1>7, <2>5, <3>1, <3>2, <3>5 DEF CutOff
  <2> QED BY <2>3, <2>4, <2>5
<1>11. edit'.buf = Recalled(Kept[Len(Kept) - edit'.index])
  <2>1. CASE i < 0 \/ i >= Len(history)
    <3>1. edit' = edit BY <2>1 DEF HistoryStep
    <3>2. Recalled(s) \in ShortLines BY <1>1, <1>5 DEF ShortLines
    <3>3. Recalled(Recalled(s)) = Recalled(s) BY <1>5, <3>2, RecalledIs
    <3>4. Len(Kept) - edit'.index = k BY <1>3, <3>1 DEF Entry
    <3> QED BY <1>2, <1>7, <3>1, <3>3, <3>4
  <2>2. CASE ~(i < 0 \/ i >= Len(history))
    <3> DEFINE line == Recalled(Kept[Entry(i)])
    <3>1. Refresh([edit EXCEPT !.buf = line, !.pos = Len(line), !.index = i])
      BY <2>2 DEF HistoryStep, Kept
    <3>2. edit' = [edit EXCEPT !.buf = line, !.pos = Len(line), !.index = i]
      BY <3>1 DEF Refresh
    <3> HIDE DEF line, i
    <3>3. edit'.buf = line /\ edit'.index = i BY <1>1, <3>2 DEF EditType
    <3>4. Len(Kept) - i = Entry(i) BY <1>3 DEF Entry
    <3> QED BY <3>3, <3>4 DEF line
  <2> QED BY <2>1, <2>2
<1> HIDE DEF k, s, i, begun
<1>12. Entry(edit.index)' = Len(Kept) - edit'.index BY <1>8 DEF Entry
<1>13. edit'.buf = Recalled(history'[Entry(edit.index)']) BY <1>8, <1>11, <1>12
<1>14. Untouched(history', CurrentLine(before)') BY <1>8, <1>9, <1>10
<1> QED BY <1>13, <1>14 DEF Browsing, Recalled, Untouched, CutOff

LEMMA MovedLeaves ==
  ASSUME IInv, Browsing, Key, NEW pos, Moved(pos)
  PROVE  Browsing'
<1>1. /\ edit' = [edit EXCEPT !.pos = pos] /\ UNCHANGED <<history, browsed, before>>
      /\ phase = "editing"
  BY DEF Moved, Refresh, Key
<1>2. edit \in EditType BY DEF IInv
<1>3. edit'.buf = edit.buf /\ edit'.index = edit.index BY <1>1, <1>2 DEF EditType
<1>4. Entry(edit.index)' = Entry(edit.index) BY <1>1, <1>3 DEF Entry
<1>5. CurrentLine(before)' = CurrentLine(before) BY <1>1 DEF CurrentLine, HistoryAdd
<1> QED BY <1>1, <1>3, <1>4, <1>5 DEF Browsing, Recalled, Untouched, CutOff

LEMMA StartLeaves ==
  ASSUME IInv, EditStart
  PROVE  Browsing'
<1>1. phase = "prompt" /\ mode = "editor" /\ history' = CurrentLine(history) /\ before' = history
  BY DEF EditStart
<1>2. PICK cols : edit' = [NoEdit EXCEPT !.cols = cols] BY DEF EditStart
<1>3. edit'.buf = <<>> /\ edit'.index = 0 BY <1>2 DEF NoEdit
<1>4. history \in Seq(ShortLines) /\ Len(history) <= MaxHistory
  BY <1>1 DEF IInv, Idle, HistoriesOK
<1> DEFINE h == CurrentLine(history)
<1>5. h \in Seq(ShortLines) /\ Len(h) \in Nat /\ h[Len(h)] = <<>>
  BY <1>4, NothingTyped, HistoryAddIs, HistoryAssumption DEF CurrentLine
<1>6. Recalled(<<>>) = <<>>
  <2>1. Len(<<>>) <= MaxLine - 2 BY LineAssumption
  <2> QED BY <2>1, NothingTyped, RecalledIs
<1>7. CurrentLine(before)' = h BY <1>1 DEF CurrentLine, HistoryAdd
<1>8. history' = h BY <1>1
<1> HIDE DEF h
<1>9. Entry(edit.index)' = Len(h) BY <1>3, <1>5, <1>8 DEF Entry
<1>10. edit'.buf = Recalled(history'[Entry(edit.index)']) BY <1>3, <1>5, <1>6, <1>8, <1>9
<1>11. Untouched(history', CurrentLine(before)') BY <1>7, <1>8 DEF Untouched
<1> QED BY <1>10, <1>11 DEF Browsing, Recalled, Untouched, CutOff

LEMMA NextLeaves == IInv /\ Browsing /\ [Next]_vars => Browsing'
<1> SUFFICES ASSUME IInv, Browsing, [Next]_vars PROVE Browsing' OBVIOUS
<1>1. CASE Open \/ RawModeFails \/ EndOfInput \/ ReadLine \/ Enter \/ EndOfFile \/ Interrupt
  <2>1. phase' # "editing"
    BY <1>1 DEF Open, RawModeFails, EndOfInput, ReadLine, Enter, EndOfFile, Interrupt, Accept, Leave
  <2> QED BY <2>1 DEF Browsing
<1>2. CASE EditStart BY <1>2, StartLeaves
<1>3. CASE \/ \E c \in Typed : EditInsert(c)
           \/ EditDelete \/ EditBackspace \/ EditDeletePrevWord \/ Transpose \/ KillLine \/ KillEnd
  <2>1. browsed' = FALSE
    BY <1>3 DEF EditInsert, EditDelete, EditBackspace, EditDeletePrevWord, Transpose, KillLine,
                KillEnd, Changed
  <2> QED BY <2>1 DEF Browsing
<1>4. CASE EditMoveLeft \/ EditMoveRight \/ EditMoveHome \/ EditMoveEnd \/ ClearScreen
  <2>1. Key /\ \E pos : Moved(pos)
    BY <1>4 DEF EditMoveLeft, EditMoveRight, EditMoveHome, EditMoveEnd, ClearScreen
  <2> QED BY <2>1, MovedLeaves
<1>5. CASE EditHistoryPrev \/ EditHistoryNext
  <2>1. Key /\ UNCHANGED browsed /\ \E step \in Int : HistoryStep(step)
    BY <1>5 DEF EditHistoryPrev, EditHistoryNext
  <2> QED BY <2>1, StepLeaves
<1>6. CASE UNCHANGED vars
  BY <1>6 DEF vars, Browsing, Untouched, CutOff, Recalled, Entry, CurrentLine, HistoryAdd
<1> QED BY <1>1, <1>2, <1>3, <1>4, <1>5, <1>6 DEF Next

\* Looking through the history leaves every entry as it was, but for the last
\* character of one that fills the buffer.
THEOREM BrowsingIsHarmless == Spec => []BrowsingKeepsHistory
<1>1. Init => Browsing BY DEF Init, Browsing
<1>2. IInv /\ Browsing /\ [Next]_vars => Browsing' BY NextLeaves
<1>3. Spec => []IInv BY Invariance
<1>4. IInv /\ Browsing => BrowsingKeepsHistory
  BY DEF IInv, Browsing, Untouched, CutOff, Editing, BrowsingKeepsHistory
<1> QED BY <1>1, <1>2, <1>3, <1>4, PTL DEF Spec

-----------------------------------------------------------------------------
(* Entering a line                                                         *)

LEMMA SameParts ==
  ASSUME NEW T, NEW s \in Seq(T), NEW t \in Seq(T), NEW from \in Nat \ {0}, NEW n \in Nat,
         n <= Len(s), (from - 1) + n <= Len(t), \A i \in 1 .. n : s[i] = t[(from - 1) + i]
  PROVE  SubSeq(s, 1, n) = SubSeq(t, from, (from - 1) + n)
<1> DEFINE u == SubSeq(s, 1, n)
           v == SubSeq(t, from, (from - 1) + n)
<1>1. u \in Seq(T) /\ Len(u) = n /\ \A i \in 1 .. n : u[i] = s[i] OBVIOUS
<1>2. v \in Seq(T) /\ Len(v) = n /\ \A i \in 1 .. n : v[i] = t[(from - 1) + i] OBVIOUS
<1> HIDE DEF u, v
<1>3. \A i \in 1 .. n : u[i] = v[i] BY <1>1, <1>2
<1>4. u = [i \in 1 .. n |-> u[i]] /\ v = [i \in 1 .. n |-> v[i]] BY <1>1, <1>2
<1>5. u = v BY <1>3, <1>4
<1> QED BY <1>5 DEF u, v

\* Where the history was full the oldest entry is gone; an empty line at its
\* end has been taken for the current one.
Rest(lost) ==
  LET n == Len(before)
      last == IF n > 0 /\ before[n] = <<>> THEN n - 1 ELSE n
  IN SubSeq(before, lost + 1, last)

LEMMA PoppedWas ==
  ASSUME Editing, HistoriesOK, NoEntryEdited
  PROVE  \E lost \in {0, 1} : (lost = 1 => Len(before) = MaxHistory) /\ Popped = Rest(lost)
<1> DEFINE n == Len(before)
           begun == CurrentLine(before)
           top == Len(history)
<1>1. /\ before \in Seq(ShortLines) /\ n \in Nat /\ n <= MaxHistory
      /\ history \in Seq(ShortLines) /\ top \in Nat /\ top >= 1
      /\ MaxHistory \in Nat /\ MaxHistory >= 1
  BY HistoryAssumption DEF Editing, HistoriesOK, EditOK, EditType
<1>2. begun \in Seq(ShortLines) /\ Len(begun) = top /\ \A i \in 1 .. top - 1 : history[i] = begun[i]
  BY BegunIs DEF NoEntryEdited
<1>3. Popped = SubSeq(history, 1, top - 1) BY DEF Popped
<1>4. CASE before # <<>> /\ before[n] = <<>>
  <2>1. begun = before BY <1>4 DEF CurrentLine, HistoryAdd
  <2>2. n > 0 /\ top = n BY <1>1, <1>2, <1>4, <2>1
  <2>3. Rest(0) = SubSeq(before, 1, n - 1) BY <1>4, <2>2 DEF Rest
  <2>4. SubSeq(history, 1, n - 1) = SubSeq(before, 1, (1 - 1) + (n - 1))
    <3> HIDE DEF n, begun, top
    <3>1. \A i \in 1 .. n - 1 : history[i] = before[(1 - 1) + i] BY <1>1, <1>2, <2>1, <2>2
    <3>2. n - 1 \in Nat /\ n - 1 <= Len(history) /\ (1 - 1) + (n - 1) <= Len(before)
      BY <1>1, <2>2 DEF n, top
    <3> QED BY <1>1, <3>1, <3>2, SameParts
  <2>5. (1 - 1) + (n - 1) = n - 1 BY <1>1
  <2>6. Popped = Rest(0) BY <1>3, <2>2, <2>3, <2>4, <2>5
  <2> QED BY <2>6
<1>5. CASE ~(before # <<>> /\ before[n] = <<>>) /\ n = MaxHistory
  <2>1. begun = Append(Tail(before), <<>>) BY <1>5 DEF CurrentLine, HistoryAdd
  <2>2. /\ Tail(before) \in Seq(ShortLines) /\ Len(Tail(before)) = n - 1
        /\ \A i \in 1 .. n - 1 : Tail(before)[i] = before[i + 1]
    BY <1>1, <1>5
  <2>3. Len(begun) = n /\ \A i \in 1 .. n - 1 : begun[i] = before[i + 1]
    <3> DEFINE t == Tail(before)
    <3>1. t \in Seq(ShortLines) /\ Len(t) = n - 1 /\ \A i \in 1 .. n - 1 : t[i] = before[i + 1]
      BY <2>2
    <3> HIDE DEF t
    <3>2. Len(Append(t, <<>>)) = n /\ \A i \in 1 .. n - 1 : Append(t, <<>>)[i] = t[i]
      BY <1>1, <3>1, NothingTyped
    <3> QED BY <2>1, <3>1, <3>2 DEF t
  <2>4. Rest(1) = SubSeq(before, 2, n) BY <1>1, <1>5 DEF Rest
  <2>5. SubSeq(history, 1, n - 1) = SubSeq(before, 2, (2 - 1) + (n - 1))
    <3> HIDE DEF n, begun, top
    <3>1. \A i \in 1 .. n - 1 : history[i] = before[(2 - 1) + i]
      <4> TAKE i \in 1 .. n - 1
      <4>1. (2 - 1) + i = i + 1 OBVIOUS
      <4> QED BY <1>2, <2>3, <4>1
    <3>2. n - 1 \in Nat /\ n - 1 <= Len(history) /\ (2 - 1) + (n - 1) <= Len(before)
      BY <1>1, <1>2, <1>5, <2>3 DEF n, top
    <3> QED BY <1>1, <3>1, <3>2, SameParts
  <2>6. (2 - 1) + (n - 1) = n BY <1>1
  <2>7. Popped = Rest(1) BY <1>2, <1>3, <2>3, <2>4, <2>5, <2>6
  <2> QED BY <1>5, <2>7
<1>6. CASE ~(before # <<>> /\ before[n] = <<>>) /\ n # MaxHistory
  <2>1. begun = Append(before, <<>>) BY <1>6 DEF CurrentLine, HistoryAdd
  <2>2. Len(begun) = n + 1 /\ \A i \in 1 .. n : begun[i] = before[i] BY <1>1, <2>1, NothingTyped
  <2>3. Rest(0) = SubSeq(before, 1, n) BY <1>1, <1>6 DEF Rest
  <2>4. SubSeq(history, 1, n) = SubSeq(before, 1, (1 - 1) + n)
    <3> HIDE DEF n, begun, top
    <3>1. \A i \in 1 .. n : history[i] = before[(1 - 1) + i]
      <4> TAKE i \in 1 .. n
      <4>1. (1 - 1) + i = i /\ i \in 1 .. top - 1 BY <1>1, <1>2, <2>2
      <4> QED BY <1>2, <2>2, <4>1
    <3>2. n <= Len(history) /\ (1 - 1) + n <= Len(before) BY <1>1, <1>2, <2>2 DEF n, top
    <3> QED BY <1>1, <3>1, <3>2, SameParts
  <2>5. (1 - 1) + n = n /\ top - 1 = n BY <1>1, <1>2, <2>2
  <2>6. Popped = Rest(0) BY <1>3, <2>3, <2>4, <2>5
  <2> QED BY <2>6
<1> QED BY <1>4, <1>5, <1>6

\* What LineCostsAtMostOldest says of one step.
EnterCosts ==
  Enter /\ NoEntryEdited =>
    LET line == CString(edit.buf)
        n == Len(before)
        last == IF n > 0 /\ before[n] = <<>> THEN n - 1 ELSE n
    IN /\ line # <<>> => history'[Len(history')] = line
       /\ \E lost \in {0, 1} :
            LET rest == SubSeq(before, lost + 1, last)
            IN /\ lost = 1 => n = MaxHistory
               /\ history' \in {rest, Append(rest, line)}

LEMMA EnterIs == IInv => EnterCosts
<1> SUFFICES ASSUME IInv, Enter, NoEntryEdited PROVE EnterCosts BY DEF EnterCosts
<1> DEFINE line == CString(edit.buf)
<1>1. Editing /\ HistoriesOK /\ Accept(line, Popped) BY DEF IInv, Enter
<1>2. PICK lost \in {0, 1} : (lost = 1 => Len(before) = MaxHistory) /\ Popped = Rest(lost)
  BY <1>1, PoppedWas
<1>3. Popped \in Seq(ShortLines) /\ Len(Popped) \in Nat /\ Len(Popped) < MaxHistory
      /\ MaxHistory \in Nat \ {0}
  <2>1. Popped \in Seq(ShortLines) /\ Len(Popped) = Len(history) - 1 BY <1>1, PoppedIs
  <2>2. Len(history) \in Nat /\ Len(history) <= MaxHistory BY <1>1 DEF HistoriesOK
  <2>3. Len(Popped) \in Nat BY <2>1
  <2> QED BY <2>1, <2>2, <2>3, HistoryAssumption
<1>4. line \in ShortLines BY <1>1, KeptIs
<1>5. history' = IF line = <<>> THEN Popped ELSE HistoryAdd(Popped, line, MaxHistory)
  BY <1>1 DEF Accept
<1> HIDE DEF line
<1>6. /\ HistoryAdd(Popped, line, MaxHistory) \in {Popped, Append(Popped, line)}
      /\ LET h == HistoryAdd(Popped, line, MaxHistory) IN h[Len(h)] = line
  <2>1. Len(Popped) <= MaxHistory /\ Len(Popped) # MaxHistory BY <1>3
  <2> QED BY <1>3, <1>4, <2>1, HistoryAddIs
<1>7. line # <<>> => history'[Len(history')] = line BY <1>5, <1>6
<1>8. history' \in {Rest(lost), Append(Rest(lost), line)} BY <1>2, <1>5, <1>6
<1> QED BY <1>2, <1>7, <1>8 DEF EnterCosts, Rest, line

\* A line that is entered after no entry was edited becomes the newest entry
\* and costs the history at most its oldest one.
THEOREM EnteringCostsOldest == Spec => LineCostsAtMostOldest
<1>1. IInv /\ [Next]_vars => [EnterCosts]_vars BY EnterIs
<1>2. Spec => []IInv BY Invariance
<1>3. Spec => [][EnterCosts]_vars BY <1>1, <1>2, PTL DEF Spec
<1> QED BY <1>3 DEF LineCostsAtMostOldest, EnterCosts

-----------------------------------------------------------------------------
(* The history and its file                                                *)

Starts(s, t) == Len(s) <= Len(t) /\ \A i \in 1 .. Len(s) : t[i] = s[i]

\* What is written first stays at the start of the file.
LEMMA WrittenStarts ==
  ASSUME NEW h \in Seq(Lines), NEW g, Written(g, h)
  PROVE  \A n \in 0 .. Len(h) : \A m \in 0 .. n : Starts(g[m], g[n])
<1> DEFINE S == {n \in 0 .. Len(h) : \A m \in 0 .. n : Starts(g[m], g[n])}
<1>1. /\ \A n \in 0 .. Len(h) : g[n] \in Lines
      /\ \A i \in 1 .. Len(h) : g[i] = g[i - 1] \o Append(h[i], Newline)
  BY DEF Written
<1>2. Newline \in Stored BY DEF Stored, AllTyped, Newline, Nul
<1>3. 0 \in S
  <2>1. \A m \in 0 .. 0 : m = 0 OBVIOUS
  <2>2. Starts(g[0], g[0]) BY <1>1 DEF Starts, Lines
  <2> QED BY <2>1, <2>2
<1>4. ASSUME NEW n \in 0 .. Len(h) - 1, n \in S PROVE n + 1 \in S
  <2>1. n + 1 \in 1 .. Len(h) /\ n + 1 \in 0 .. Len(h) /\ n \in 0 .. Len(h) /\ (n + 1) - 1 = n
    OBVIOUS
  <2> SUFFICES ASSUME NEW m \in 0 .. n + 1 PROVE Starts(g[m], g[n + 1]) BY <2>1
  <2>2. g[n + 1] \in Lines /\ g[n] \in Lines BY <1>1, <2>1
  <2>3. CASE m = n + 1 BY <2>2, <2>3 DEF Starts, Lines
  <2>4. CASE m # n + 1
    <3>1. m \in 0 .. n /\ m \in 0 .. Len(h) BY <2>1, <2>4
    <3>2. Starts(g[m], g[n]) BY <1>4, <3>1
    <3>3. g[n + 1] = g[n] \o Append(h[n + 1], Newline) BY <1>1, <2>1
    <3> DEFINE t == Append(h[n + 1], Newline)
    <3>4. t \in Seq(Stored) BY <1>2, <2>1 DEF Lines
    <3> HIDE DEF t
    <3>5. /\ Len(g[n] \o t) = Len(g[n]) + Len(t) /\ Len(t) \in Nat /\ Len(g[n]) \in Nat
          /\ \A k \in 1 .. Len(g[n]) : (g[n] \o t)[k] = g[n][k]
      BY <2>2, <3>4, Joined DEF Lines
    <3>6. g[n + 1] = g[n] \o t BY <3>3 DEF t
    <3>7. Len(g[m]) \in Nat BY <1>1, <3>1 DEF Lines
    <3>8. Len(g[m]) <= Len(g[n + 1]) BY <3>2, <3>5, <3>6, <3>7 DEF Starts
    <3>9. \A i \in 1 .. Len(g[m]) : i \in 1 .. Len(g[n]) BY <3>2, <3>5, <3>7 DEF Starts
    <3> QED BY <3>2, <3>5, <3>6, <3>8, <3>9 DEF Starts
  <2> QED BY <2>3, <2>4
<1> HIDE DEF S
<1>5. \A n \in 0 .. Len(h) : n \in S BY <1>3, <1>4, Turns!UpTo
<1> QED BY <1>5 DEF S

\* A line that the buffer holds, with its newline, at some place of the text.
LineAt(line, text, start) ==
  /\ start + Len(line) + 1 <= Len(text)
  /\ \A k \in 1 .. Len(line) : text[start + k] = line[k]
  /\ text[start + Len(line) + 1] = Newline

LEMMA PlainIsRead ==
  ASSUME NEW text \in Lines, NEW r, ReadTurns(r, text), NEW line \in Lines, Plain(line),
         NEW start \in Nat, LineAt(line, text, start),
         NEW d, r[start] = [done |-> d, part |-> <<>>]
  PROVE  r[start + Len(line) + 1] = [done |-> Append(d, Append(line, Newline)), part |-> <<>>]
<1> DEFINE n == Len(line)
           S == {k \in 0 .. n : r[start + k] = [done |-> d, part |-> SubSeq(line, 1, k)]}
<1>1. n \in Nat /\ line \in Seq(Stored) /\ Len(text) \in Nat BY DEF Lines
<1>2. n < MaxLine - 1 /\ MaxLine \in Nat /\ \A i \in 1 .. n : line[i] # Newline
  BY <1>1, LineAssumption DEF Plain
<1>3. /\ start + n + 1 <= Len(text) /\ text[start + n + 1] = Newline
      /\ \A k \in 1 .. n : text[start + k] = line[k]
  BY DEF LineAt
<1>4. \A i \in 1 .. Len(text) : r[i] = Read(r[i - 1], text[i]) BY DEF ReadTurns
<1>5. 0 \in S
  <2>1. SubSeq(line, 1, 0) = <<>> /\ start + 0 = start BY <1>1
  <2> QED BY <1>1, <2>1
<1>6. ASSUME NEW k \in 0 .. n - 1, k \in S PROVE k + 1 \in S
  <2> DEFINE p == SubSeq(line, 1, k)
             acc == [done |-> d, part |-> p]
  <2>1. r[start + k] = acc BY <1>6
  <2>2. /\ k + 1 \in 1 .. n /\ start + (k + 1) \in 1 .. Len(text)
        /\ (start + (k + 1)) - 1 = start + k
    BY <1>1, <1>3
  <2>3. r[start + (k + 1)] = Read(acc, line[k + 1]) BY <1>3, <1>4, <2>1, <2>2
  <2>4. p \in Seq(Stored) /\ Len(p) = k BY <1>1, <2>2
  <2>5. line[k + 1] # Newline /\ k + 2 # MaxLine BY <1>1, <1>2, <2>2
  <2>6. Append(p, line[k + 1]) = SubSeq(line, 1, k + 1)
    <3> DEFINE u == Append(p, line[k + 1])
               v == SubSeq(line, 1, k + 1)
    <3>1. line[k + 1] \in Stored /\ \A i \in 1 .. k : p[i] = line[i] BY <1>1, <2>2
    <3>2. v \in Seq(Stored) /\ Len(v) = k + 1 /\ \A i \in 1 .. k + 1 : v[i] = line[i]
      BY <1>1, <2>2
    <3> HIDE DEF p
    <3>3. u \in Seq(Stored) /\ Len(u) = k + 1 /\ u[k + 1] = line[k + 1]
          /\ \A i \in 1 .. k : u[i] = line[i]
      BY <2>4, <3>1
    <3> HIDE DEF u, v
    <3>4. \A i \in 1 .. k + 1 : u[i] = v[i]
      <4> TAKE i \in 1 .. k + 1
      <4>1. i = k + 1 \/ i \in 1 .. k OBVIOUS
      <4> QED BY <3>2, <3>3, <4>1
    <3>5. u = [i \in 1 .. k + 1 |-> u[i]] /\ v = [i \in 1 .. k + 1 |-> v[i]] BY <3>2, <3>3
    <3>6. u = v BY <3>4, <3>5
    <3> QED BY <3>6 DEF u, v
  <2> HIDE DEF p
  <2>7. acc.part = p /\ acc = [done |-> d, part |-> p] OBVIOUS
  <2>8. Read(acc, line[k + 1]) = [acc EXCEPT !.part = Append(@, line[k + 1])]
    BY <2>4, <2>5, <2>7 DEF Read
  <2>9. [acc EXCEPT !.part = Append(@, line[k + 1])]
          = [done |-> d, part |-> Append(p, line[k + 1])]
    OBVIOUS
  <2> HIDE DEF acc
  <2>10. k + 1 \in 0 .. n BY <1>1
  <2> QED BY <2>3, <2>6, <2>8, <2>9, <2>10
<1>7. r[start + n] = [done |-> d, part |-> line]
  <2> HIDE DEF S, n
  <2>1. \A k \in 0 .. n : k \in S BY <1>1, <1>5, <1>6, Turns!UpTo
  <2>2. n \in 0 .. n BY <1>1
  <2>3. SubSeq(line, 1, n) = line BY <1>1 DEF n
  <2> QED BY <2>1, <2>2, <2>3 DEF S
<1>8. r[start + n + 1] = Read([done |-> d, part |-> line], Newline)
  <2>1. start + n + 1 \in 1 .. Len(text) /\ (start + n + 1) - 1 = start + n BY <1>1, <1>3
  <2> HIDE DEF n
  <2> QED BY <1>3, <1>4, <1>7, <2>1
<1> QED BY <1>8 DEF Read

\* The entries as the file has them.
Ended(h) == [m \in 1 .. Len(h) |-> Append(h[m], Newline)]

\* Each entry is in the file where those before it end.
LEMMA EntryAt ==
  ASSUME NEW h \in Seq(Lines), NEW g, Written(g, h), NEW m \in 0 .. Len(h) - 1
  PROVE  /\ LineAt(h[m + 1], WrittenOut(h), Len(g[m]))
         /\ Len(g[m + 1]) = Len(g[m]) + Len(h[m + 1]) + 1
<1> DEFINE line == h[m + 1]
           text == WrittenOut(h)
           front == g[m]
           piece == Append(line, Newline)
<1>1. /\ m + 1 \in 1 .. Len(h) /\ m \in 0 .. Len(h) /\ m + 1 \in 0 .. Len(h)
      /\ (m + 1) - 1 = m /\ Len(h) \in 0 .. Len(h)
  OBVIOUS
<1>2. line \in Seq(Stored) /\ Len(line) \in Nat BY <1>1 DEF Lines
<1>3. piece \in Seq(Stored) /\ Len(piece) = Len(line) + 1 /\ piece[Len(line) + 1] = Newline
      /\ \A k \in 1 .. Len(line) : piece[k] = line[k]
  <2>1. Newline \in Stored BY DEF Stored, AllTyped, Newline, Nul
  <2> HIDE DEF line
  <2> QED BY <1>2, <2>1
<1>4. front \in Seq(Stored) /\ Len(front) \in Nat BY <1>1 DEF Written, Lines
<1>5. g[m + 1] = front \o piece /\ text = g[Len(h)] /\ text \in Seq(Stored)
  BY <1>1 DEF Written, Lines
<1>6. Starts(g[m + 1], text) BY <1>1, <1>5, WrittenStarts
<1> HIDE DEF line, text, front, piece
<1>7. /\ Len(front \o piece) = Len(front) + Len(line) + 1
      /\ \A k \in 1 .. Len(piece) : (front \o piece)[Len(front) + k] = piece[k]
  <2>1. /\ Len(front \o piece) = Len(front) + Len(piece)
        /\ \A k \in 1 .. Len(piece) : (front \o piece)[Len(front) + k] = piece[k]
    <3>1. front \in Seq(Stored) /\ piece \in Seq(Stored) BY <1>3, <1>4
    <3> QED BY <3>1, Joined
  <2>2. Len(front) + (Len(line) + 1) = Len(front) + Len(line) + 1 BY <1>2, <1>4
  <2> QED BY <1>3, <2>1, <2>2
<1>8. ASSUME NEW k \in 1 .. Len(line) + 1 PROVE text[Len(front) + k] = piece[k]
  <2>1. Len(front) + k \in 1 .. Len(front \o piece) BY <1>2, <1>4, <1>7
  <2> QED BY <1>3, <1>5, <1>6, <1>7, <2>1 DEF Starts
<1>9. \A k \in 1 .. Len(line) : text[Len(front) + k] = line[k]
  <2> TAKE k \in 1 .. Len(line)
  <2>1. k \in 1 .. Len(line) + 1 BY <1>2
  <2> QED BY <1>3, <1>8, <2>1
<1>10. text[Len(front) + Len(line) + 1] = Newline
  <2>1. Len(line) + 1 \in 1 .. Len(line) + 1 BY <1>2
  <2>2. Len(front) + (Len(line) + 1) = Len(front) + Len(line) + 1 BY <1>2, <1>4
  <2>3. text[Len(front) + (Len(line) + 1)] = piece[Len(line) + 1] BY <1>8, <2>1
  <2> QED BY <1>3, <2>2, <2>3
<1>11. Len(front) + Len(line) + 1 <= Len(text) BY <1>5, <1>6, <1>7 DEF Starts
<1>12. LineAt(line, text, Len(front)) BY <1>9, <1>10, <1>11 DEF LineAt
<1>13. Len(g[m + 1]) = Len(front) + Len(line) + 1 BY <1>5, <1>7
<1> QED BY <1>12, <1>13 DEF line, text, front

\* Read back, a file of plain lines falls into its entries.
LEMMA PiecesOfPlain ==
  ASSUME NEW h \in Seq(Lines), \A i \in DOMAIN h : Plain(h[i])
  PROVE  Pieces(WrittenOut(h)) = Ended(h)
<1> DEFINE text == WrittenOut(h)
           N == Len(h)
           all == Ended(h)
<1>1. text \in Lines /\ N \in Nat BY WrittenTyped
<1>2. PICK g : Written(g, h) BY WrittenExists
<1>3. PICK r : ReadTurns(r, text)
  <2> HIDE DEF text
  <2> QED BY <1>1, ReadTurnsExist
<1>4. all \in Seq(Lines) /\ Len(all) = N /\ \A m \in 1 .. N : all[m] = Append(h[m], Newline)
  <2>1. \A m \in 1 .. N : Append(h[m], Newline) \in Lines
    <3>1. Newline \in Stored BY DEF Stored, AllTyped, Newline, Nul
    <3> QED BY <3>1 DEF Lines
  <2> QED BY <1>1, <2>1 DEF Ended
<1> DEFINE S == {m \in 0 .. N : r[Len(g[m])] = [done |-> SubSeq(all, 1, m), part |-> <<>>]}
<1>5. \A m \in 0 .. N : Len(g[m]) \in Nat BY <1>2 DEF Written, Lines
<1>6. 0 \in S
  <2>1. Len(g[0]) = 0 BY <1>2 DEF Written
  <2>2. SubSeq(all, 1, 0) = <<>>
    <3> HIDE DEF all
    <3> QED BY <1>4
  <2>3. r[0] = [done |-> <<>>, part |-> <<>>] BY <1>3 DEF ReadTurns
  <2> HIDE DEF all, text
  <2> QED BY <1>1, <2>1, <2>2, <2>3
<1>7. ASSUME NEW m \in 0 .. N - 1, m \in S PROVE m + 1 \in S
  <2> DEFINE line == h[m + 1]
             d == SubSeq(all, 1, m)
  <2>1. m + 1 \in 1 .. N /\ m \in 0 .. N /\ m + 1 \in 0 .. N /\ m + 1 \in DOMAIN h BY <1>1
  <2>2. LineAt(line, text, Len(g[m])) /\ Len(g[m + 1]) = Len(g[m]) + Len(line) + 1
    BY <1>2, EntryAt
  <2>3. line \in Lines /\ Plain(line) BY <2>1
  <2>4. r[Len(g[m])] = [done |-> d, part |-> <<>>] BY <1>7
  <2>5. Len(g[m]) \in Nat BY <1>5, <2>1
  <2>6. all[m + 1] = Append(line, Newline) BY <1>4, <2>1
  <2> HIDE DEF line, text, d, all
  <2>7. r[Len(g[m]) + Len(line) + 1] = [done |-> Append(d, Append(line, Newline)), part |-> <<>>]
    <3> DEFINE start == Len(g[m])
    <3>1. start \in Nat /\ LineAt(line, text, start) /\ r[start] = [done |-> d, part |-> <<>>]
      BY <2>2, <2>4, <2>5
    <3> HIDE DEF start
    <3>2. r[start + Len(line) + 1] = [done |-> Append(d, Append(line, Newline)), part |-> <<>>]
      BY <1>1, <1>3, <2>3, <3>1, PlainIsRead
    <3> QED BY <3>2 DEF start
  <2>8. Append(d, all[m + 1]) = SubSeq(all, 1, m + 1)
    <3> DEFINE u == Append(d, all[m + 1])
               v == SubSeq(all, 1, m + 1)
    <3>1. all[m + 1] \in Lines BY <1>4, <2>1
    <3>2. v \in Seq(Lines) /\ Len(v) = m + 1 /\ \A i \in 1 .. m + 1 : v[i] = all[i]
      BY <1>4, <2>1
    <3>3. d \in Seq(Lines) /\ Len(d) = m /\ \A i \in 1 .. m : d[i] = all[i]
      BY <1>4, <2>1 DEF d
    <3>4. u \in Seq(Lines) /\ Len(u) = m + 1 /\ u[m + 1] = all[m + 1]
          /\ \A i \in 1 .. m : u[i] = all[i]
      BY <3>1, <3>3
    <3> HIDE DEF u, v
    <3>5. \A i \in 1 .. m + 1 : u[i] = v[i]
      <4> TAKE i \in 1 .. m + 1
      <4>1. i = m + 1 \/ i \in 1 .. m OBVIOUS
      <4> QED BY <3>2, <3>4, <4>1
    <3>6. u = [i \in 1 .. m + 1 |-> u[i]] /\ v = [i \in 1 .. m + 1 |-> v[i]] BY <3>2, <3>4
    <3>7. u = v BY <3>5, <3>6
    <3> QED BY <3>7 DEF u, v
  <2> QED BY <2>1, <2>2, <2>6, <2>7, <2>8
<1> HIDE DEF S
<1>8. \A m \in 0 .. N : m \in S BY <1>1, <1>6, <1>7, Turns!UpTo
<1>9. r[Len(g[N])] = [done |-> SubSeq(all, 1, N), part |-> <<>>]
  <2>1. N \in S BY <1>1, <1>8
  <2> QED BY <2>1 DEF S
<1>10. text = g[N] BY <1>2 DEF Written
<1>11. SubSeq(all, 1, N) = all
  <2> HIDE DEF all
  <2> QED BY <1>4
<1>12. Whole(r[Len(text)]) = all
  <2> HIDE DEF all, text
  <2> QED BY <1>9, <1>10, <1>11 DEF Whole
<1> QED BY <1>3, <1>12 DEF ReadTurns

\* And a piece that is a plain line gives the line.
LEMMA LineOfPlain ==
  ASSUME NEW line \in Lines, Plain(line)
  PROVE  LineOf(Append(line, Newline)) = line
<1> DEFINE s == Append(line, Newline)
           n == Len(line)
<1>1. line \in Seq(Stored) /\ n \in Nat BY DEF Lines
<1>2. \A i \in 1 .. n : line[i] # Newline /\ line[i] # Return BY <1>1 DEF Plain
<1>3. s \in Seq(Stored) /\ Len(s) = n + 1 /\ s[n + 1] = Newline /\ \A i \in 1 .. n : s[i] = line[i]
  <2>1. Newline \in Stored BY DEF Stored, AllTyped, Newline, Nul
  <2> QED BY <1>1, <2>1
<1>4. SubSeq(s, 1, n) = line
  <2>1. SubSeq(s, 1, n) = SubSeq(line, 1, (1 - 1) + n)
    <3> HIDE DEF s, n
    <3>1. \A i \in 1 .. n : s[i] = line[(1 - 1) + i] BY <1>1, <1>3
    <3>2. n <= Len(s) /\ (1 - 1) + n <= Len(line) BY <1>1, <1>3 DEF n
    <3> QED BY <1>1, <1>3, <3>1, <3>2, SameParts
  <2>2. (1 - 1) + n = n /\ SubSeq(line, 1, n) = line BY <1>1
  <2> QED BY <2>1, <2>2
<1> HIDE DEF s, n
<1>5. UpTo(s, Return) = s
  <2>1. PICK k \in 0 .. Len(s) : /\ UpTo(s, Return) = SubSeq(s, 1, k)
                                 /\ k < Len(s) => s[k + 1] = Return
    BY <1>3, UpToIs
  <2>2. k = Len(s)
    <3> SUFFICES ASSUME k # Len(s) PROVE FALSE OBVIOUS
    <3>1. k \in 0 .. n /\ s[k + 1] = Return BY <1>1, <1>3, <2>1
    <3>2. k + 1 = n + 1 \/ k + 1 \in 1 .. n BY <1>1, <3>1
    <3> QED BY <1>2, <1>3, <3>1, <3>2 DEF Newline, Return
  <2>3. SubSeq(s, 1, Len(s)) = s BY <1>3
  <2> QED BY <2>1, <2>2, <2>3
<1>6. UpTo(s, Newline) = SubSeq(s, 1, n)
  <2>1. PICK k \in 0 .. Len(s) : /\ UpTo(s, Newline) = SubSeq(s, 1, k)
                                 /\ \A i \in 1 .. k : s[i] # Newline
                                 /\ k < Len(s) => s[k + 1] = Newline
    BY <1>3, UpToIs
  <2>2. k = n
    <3>1. ~(k = n + 1) BY <1>1, <1>3, <2>1
    <3>2. ~(k < n)
      <4> SUFFICES ASSUME k < n PROVE FALSE OBVIOUS
      <4>1. k + 1 \in 1 .. n /\ k < Len(s) BY <1>1, <1>3, <2>1
      <4> QED BY <1>2, <1>3, <2>1, <4>1
    <3> QED BY <1>1, <1>3, <3>1, <3>2
  <2> QED BY <2>1, <2>2
<1> QED BY <1>4, <1>5, <1>6 DEF LineOf, s

\* The entries that are not the same as the one before, of the first n.
News(h, n) == {i \in 1 .. n : i = 1 \/ h[i] # h[i - 1]}

LEMMA NewsCount ==
  ASSUME NEW h, NEW n \in Nat
  PROVE  /\ IsFiniteSet(News(h, n)) /\ Cardinality(News(h, n)) \in 0 .. n
         /\ \A i \in News(h, n) : Cardinality(News(h, i)) \in 1 .. Cardinality(News(h, n))
<1>1. IsFiniteSet(1 .. n) /\ Cardinality(1 .. n) = n BY FS_Interval
<1>2. News(h, n) \in SUBSET (1 .. n) BY DEF News
<1>3. IsFiniteSet(News(h, n)) /\ Cardinality(News(h, n)) <= n BY <1>1, <1>2, FS_Subset
<1>4. Cardinality(News(h, n)) \in Nat BY <1>3, FS_CardinalityType
<1>5. ASSUME NEW i \in News(h, n)
      PROVE  Cardinality(News(h, i)) \in 1 .. Cardinality(News(h, n))
  <2>1. i \in 1 .. n /\ i \in News(h, i) BY DEF News
  <2>2. News(h, i) \in SUBSET News(h, n) BY <2>1 DEF News
  <2>3. IsFiniteSet(News(h, i)) /\ Cardinality(News(h, i)) <= Cardinality(News(h, n))
    BY <1>3, <2>2, FS_Subset
  <2>4. Cardinality(News(h, i)) \in Nat BY <2>3, FS_CardinalityType
  <2>5. Cardinality(News(h, i)) # 0 BY <2>1, <2>3, FS_EmptySet
  <2> QED BY <1>4, <2>3, <2>4, <2>5
<1> QED BY <1>3, <1>4, <1>5

LEMMA NewsGrow ==
  ASSUME NEW h, NEW n \in Nat
  PROVE  IF n = 0 \/ h[n + 1] # h[n]
           THEN News(h, n + 1) = News(h, n) \cup {n + 1} /\ n + 1 \notin News(h, n)
           ELSE News(h, n + 1) = News(h, n)
<1>1. \A i : i \in 1 .. n + 1 <=> i \in 1 .. n \/ i = n + 1 OBVIOUS
<1>2. n + 1 \notin 1 .. n /\ (n + 1 = 1 <=> n = 0) /\ (n + 1) - 1 = n OBVIOUS
<1>3. n + 1 \in News(h, n + 1) <=> n = 0 \/ h[n + 1] # h[n] BY <1>1, <1>2 DEF News
<1>4. \A i : i \in News(h, n + 1) <=> i \in News(h, n) \/ (i = n + 1 /\ i \in News(h, n + 1))
  BY <1>1 DEF News
<1>5. n + 1 \notin News(h, n) BY <1>2 DEF News
<1> QED BY <1>3, <1>4, <1>5

\* The history read so far has the entries up to n, repetitions taken out.
Came(read, h, n) ==
  /\ Len(read) = Cardinality(News(h, n))
  /\ \A i \in News(h, n) : read[Cardinality(News(h, i))] = h[i]
  /\ n > 0 => read # <<>> /\ read[Len(read)] = h[n]

LEMMA OneMoreCame ==
  ASSUME NEW h \in Seq(Lines), NEW n \in 0 .. Len(h) - 1, Len(h) <= DefaultHistory,
         NEW read \in Seq(ShortLines), Came(read, h, n), h[n + 1] \in ShortLines
  PROVE  Came(HistoryAdd(read, h[n + 1], DefaultHistory), h, n + 1)
<1> DEFINE line == h[n + 1]
           count == Cardinality(News(h, n))
           more == HistoryAdd(read, line, DefaultHistory)
<1>1. n \in Nat /\ n + 1 > 0 /\ n + 1 \in Nat /\ n < DefaultHistory /\ DefaultHistory \in Nat
  BY HistoryAssumption
<1>2. /\ IsFiniteSet(News(h, n)) /\ count \in 0 .. n
      /\ \A i \in News(h, n) : Cardinality(News(h, i)) \in 1 .. count
  BY <1>1, NewsCount
<1>3. /\ Len(read) = count /\ \A i \in News(h, n) : read[Cardinality(News(h, i))] = h[i]
      /\ n > 0 => read # <<>> /\ read[Len(read)] = h[n]
  BY DEF Came
<1>4. CASE n = 0 \/ line # h[n]
  <2>1. News(h, n + 1) = News(h, n) \cup {n + 1} /\ n + 1 \notin News(h, n) BY <1>1, <1>4, NewsGrow
  <2>2. Cardinality(News(h, n + 1)) = count + 1 BY <1>2, <2>1, FS_AddElement
  <2>3. ~(read # <<>> /\ read[Len(read)] = line)
    <3>1. CASE n = 0
      <4>1. Len(read) = 0 BY <1>2, <1>3, <3>1
      <4> QED BY <4>1
    <3>2. CASE n # 0 BY <1>1, <1>3, <1>4, <3>2
    <3> QED BY <3>1, <3>2
  <2>4. Len(read) # DefaultHistory BY <1>1, <1>2, <1>3
  <2>5. more = Append(read, line) BY <2>3, <2>4 DEF HistoryAdd
  <2> HIDE DEF line, more, count
  <2>6. line \in ShortLines BY DEF line
  <2>7. /\ Len(more) = count + 1 /\ more[count + 1] = line
        /\ \A k \in 1 .. count : more[k] = read[k]
    BY <1>2, <1>3, <2>5, <2>6
  <2>8. ASSUME NEW i \in News(h, n + 1) PROVE more[Cardinality(News(h, i))] = h[i]
    <3>1. CASE i = n + 1 BY <2>2, <2>7, <3>1 DEF line
    <3>2. CASE i # n + 1
      <4>1. i \in News(h, n) BY <2>1, <3>2
      <4> QED BY <1>2, <1>3, <2>7, <4>1
    <3> QED BY <3>1, <3>2
  <2>9. more # <<>> /\ more[Len(more)] = h[n + 1] BY <1>2, <2>7 DEF line
  <2> QED BY <2>2, <2>7, <2>8, <2>9 DEF Came, more, line
<1>5. CASE ~(n = 0 \/ line # h[n])
  <2>1. News(h, n + 1) = News(h, n) BY <1>1, <1>5, NewsGrow
  <2>2. n > 0 /\ read # <<>> /\ read[Len(read)] = line BY <1>1, <1>3, <1>5
  <2>3. more = read BY <2>2 DEF HistoryAdd
  <2> HIDE DEF count, more
  <2>4. /\ Len(more) = Cardinality(News(h, n + 1))
        /\ \A i \in News(h, n + 1) : more[Cardinality(News(h, i))] = h[i]
        /\ more # <<>> /\ more[Len(more)] = h[n + 1]
    BY <1>3, <2>1, <2>2, <2>3 DEF count
  <2> QED BY <2>4 DEF Came, more
<1> QED BY <1>4, <1>5

LEMMA PlainComesBack ==
  ASSUME NEW h \in Seq(Lines), Len(h) <= MaxHistory, \A i \in DOMAIN h : Plain(h[i])
  PROVE  Came(SetMaxLen(Loaded(WrittenOut(h)), MaxHistory), h, Len(h))
<1> DEFINE text == WrittenOut(h)
           N == Len(h)
<1>1. text \in Lines /\ Pieces(text) = Ended(h) BY WrittenTyped, PiecesOfPlain
<1>2. N \in Nat /\ N <= DefaultHistory /\ MaxHistory \in Nat
  BY HistoryAssumption, LoadAssumption
<1>3. Len(Ended(h)) = N /\ \A i \in 1 .. N : Ended(h)[i] = Append(h[i], Newline) BY <1>2 DEF Ended
<1>4. PICK g : LoadTurns(g, text)
  <2> HIDE DEF text
  <2> QED BY <1>1, LoadTurnsExist
<1>5. /\ \A i \in 0 .. N : g[i] \in Seq(ShortLines)
      /\ g[0] = <<>> /\ Loaded(text) = g[N]
      /\ \A i \in 1 .. N :
           g[i] = HistoryAdd(g[i - 1], LineOf(Append(h[i], Newline)), DefaultHistory)
  <2> HIDE DEF text, N
  <2> QED BY <1>1, <1>3, <1>4 DEF LoadTurns
<1>6. \A i \in 1 .. N : h[i] \in ShortLines /\ LineOf(Append(h[i], Newline)) = h[i]
  <2> TAKE i \in 1 .. N
  <2>1. h[i] \in Lines /\ Plain(h[i]) OBVIOUS
  <2>2. Len(h[i]) \in Nat BY <2>1 DEF Lines
  <2>3. h[i] \in ShortLines BY <2>1, <2>2, LineAssumption DEF Plain, ShortLines
  <2> QED BY <2>1, <2>3, LineOfPlain
<1> HIDE DEF text
<1> DEFINE S == {n \in 0 .. N : Came(g[n], h, n)}
<1>7. 0 \in S
  <2>1. News(h, 0) = {} BY DEF News
  <2>2. Cardinality(News(h, 0)) = 0 BY <2>1, FS_EmptySet
  <2>3. Came(<<>>, h, 0) BY <2>1, <2>2 DEF Came
  <2> QED BY <1>2, <1>5, <2>3
<1>8. ASSUME NEW n \in 0 .. N - 1, n \in S PROVE n + 1 \in S
  <2>1. n + 1 \in 1 .. N /\ n + 1 \in 0 .. N /\ n \in 0 .. N /\ (n + 1) - 1 = n BY <1>2
  <2>2. Came(g[n], h, n) /\ g[n] \in Seq(ShortLines) /\ h[n + 1] \in ShortLines
    BY <1>5, <1>6, <1>8, <2>1
  <2>3. g[n + 1] = HistoryAdd(g[n], h[n + 1], DefaultHistory) BY <1>5, <1>6, <2>1
  <2>4. Came(HistoryAdd(g[n], h[n + 1], DefaultHistory), h, n + 1)
    BY <1>2, <2>2, OneMoreCame
  <2> QED BY <2>1, <2>3, <2>4
<1> HIDE DEF S
<1>9. \A n \in 0 .. N : n \in S BY <1>2, <1>7, <1>8, Turns!UpTo
<1>10. Came(g[N], h, N)
  <2>1. N \in S BY <1>2, <1>9
  <2> QED BY <2>1 DEF S
<1>11. SetMaxLen(Loaded(text), MaxHistory) = g[N]
  <2>1. g[N] \in Seq(ShortLines) BY <1>2, <1>5
  <2>2. Len(g[N]) <= MaxHistory
    <3>1. Len(g[N]) \in 0 .. N BY <1>2, <1>10, NewsCount DEF Came
    <3> HIDE DEF N
    <3>2. N <= MaxHistory BY DEF N
    <3> QED BY <1>2, <3>1, <3>2
  <2>3. SetMaxLen(g[N], MaxHistory) = g[N] BY <1>2, <2>1, <2>2, SetMaxLenIs
  <2> QED BY <1>5, <2>3
<1> QED BY <1>10, <1>11 DEF text

\* What HistorySurvivesRestart says of one step.
OpenBringsBack ==
  Open /\ (\A i \in DOMAIN saved : Plain(saved[i])) =>
    LET kept == {i \in DOMAIN saved : i = 1 \/ saved[i] # saved[i - 1]}
    IN /\ Len(history') = Cardinality(kept)
       /\ \A i \in kept :
            history'[Cardinality({j \in kept : j <= i})] = saved[i]

LEMMA OpenIs == IInv => OpenBringsBack
<1> SUFFICES ASSUME IInv, Open, \A i \in DOMAIN saved : Plain(saved[i]) PROVE OpenBringsBack
  BY DEF OpenBringsBack
<1> DEFINE kept == {i \in DOMAIN saved : i = 1 \/ saved[i] # saved[i - 1]}
<1>1. saved \in Seq(Lines) /\ Len(saved) <= MaxHistory /\ file = WrittenOut(saved)
  BY DEF IInv, HistoriesOK
<1>2. history' = SetMaxLen(Loaded(file), MaxHistory) BY DEF Open
<1>3. Came(history', saved, Len(saved)) BY <1>1, <1>2, PlainComesBack
<1>4. kept = News(saved, Len(saved)) BY <1>1 DEF News
<1>5. ASSUME NEW i \in kept PROVE {j \in kept : j <= i} = News(saved, i)
  <2>1. i \in 1 .. Len(saved) /\ Len(saved) \in Nat BY <1>1
  <2>2. \A j : j \in 1 .. i <=> j \in 1 .. Len(saved) /\ j <= i BY <2>1
  <2> QED BY <1>4, <2>2 DEF News
<1> HIDE DEF kept
<1>6. Len(history') = Cardinality(kept)
      /\ \A i \in kept : history'[Cardinality({j \in kept : j <= i})] = saved[i]
  BY <1>3, <1>4, <1>5 DEF Came
<1> QED BY <1>6 DEF OpenBringsBack, kept

\* A history of lines that the buffer of fgets holds and that are lines of a
\* file comes back from the file when the program is started again.
THEOREM RestartKeepsHistory == Spec => HistorySurvivesRestart
<1>1. IInv /\ [Next]_vars => [OpenBringsBack]_vars BY OpenIs
<1>2. Spec => []IInv BY Invariance
<1>3. Spec => [][OpenBringsBack]_vars BY <1>1, <1>2, PTL DEF Spec
<1> QED BY <1>3, PTL DEF HistorySurvivesRestart, OpenBringsBack
=============================================================================
