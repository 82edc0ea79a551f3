--------------------------- MODULE TableRowsProofs ---------------------------
(***************************************************************************)
(* Proofs about TableRows, for every page size, page count, row limit and  *)
(* set of values.                                                          *)
(***************************************************************************)
EXTENDS TableRows, TLAPS

-----------------------------------------------------------------------------
(* Slots and pages                                                         *)

\* Division of a slot number by a page size, in the terms of pages.
LEMMA InPages ==
  ASSUME NEW q \in Nat, NEW r \in Nat, NEW R \in Nat, NEW M \in Nat, r < R, q < M
  PROVE  q * R + r < M * R
  <1>1. (M - q - 1) * R >= 0
    OBVIOUS
  <1>2. (M - q - 1) * R = M * R - q * R - R
    OBVIOUS
  <1>3. q * R \in Nat /\ M * R \in Nat
    OBVIOUS
  <1> QED BY <1>1, <1>2, <1>3

\* A slot is where its page number and its place in the page say.
LEMMA PageDivision ==
  ASSUME NEW s \in Nat
  PROVE  /\ PageOf(s) \in Nat
         /\ \E r \in Nat : r < RowsPerPage /\ s = PageOf(s) * RowsPerPage + r
  <1>1. s % RowsPerPage \in Nat /\ s % RowsPerPage < RowsPerPage
    BY ParamAssumption
  <1>2. s = PageOf(s) * RowsPerPage + (s % RowsPerPage)
    BY ParamAssumption DEF PageOf
  <1>3. PageOf(s) \in Nat
    BY ParamAssumption DEF PageOf
  <1> QED BY <1>1, <1>2, <1>3

\* The pages of the table hold exactly the slots of the table.
LEMMA SlotOfPage ==
  ASSUME NEW s \in Nat, PageOf(s) \in PageNums
  PROVE  s \in Slots
  <1>1. PICK r \in Nat : r < RowsPerPage /\ s = PageOf(s) * RowsPerPage + r
    BY PageDivision
  <1>2. PageOf(s) \in Nat /\ PageOf(s) < MaxPages
    BY ParamAssumption DEF PageNums
  <1>3. RowsPerPage \in Nat /\ MaxPages \in Nat
    BY ParamAssumption
  <1>4. s < MaxPages * RowsPerPage
    BY <1>1, <1>2, <1>3, InPages
  <1> QED BY <1>3, <1>4 DEF Slots

\* A page number never exceeds the slot number.
LEMMA PageAtMostSlot ==
  ASSUME NEW s \in Nat
  PROVE  PageOf(s) \in Nat /\ PageOf(s) <= s
  <1>1. PICK r \in Nat : r < RowsPerPage /\ s = PageOf(s) * RowsPerPage + r
    BY PageDivision
  <1>2. PageOf(s) \in Nat
    BY PageDivision
  <1>3. PageOf(s) * RowsPerPage >= PageOf(s)
    <2>1. RowsPerPage \in Nat /\ RowsPerPage >= 1
      BY ParamAssumption
    <2>2. (RowsPerPage - 1) * PageOf(s) >= 0
      BY <2>1, <1>2
    <2> QED BY <2>1, <2>2, <1>2
  <1>4. PageOf(s) * RowsPerPage \in Nat
    BY <1>2, ParamAssumption
  <1> QED BY <1>1, <1>2, <1>3, <1>4

-----------------------------------------------------------------------------
(* The operators on slot contents                                          *)

\* Pages that are cached are loaded as they are.
LEMMA LoadCached ==
  ASSUME NEW P, P \subseteq cached, pages \in [Slots -> Row]
  PROVE  Load(P) = pages
  BY DEF Load

\* Overlay and Load keep the type of slot contents.
LEMMA ContentsType ==
  ASSUME NEW f \in [Slots -> Row], NEW g \in [Slots -> Row], NEW p
  PROVE  Overlay(f, g, p) \in [Slots -> Row]
  BY DEF Overlay

LEMMA BlankType == BlankRow \in Row /\ Blank \in [Slots -> Row]
  BY ParamAssumption DEF BlankRow, Blank, Row

LEMMA PrefixType ==
  ASSUME NEW f \in [Slots -> Row], NEW n \in Nat
  PROVE  Prefix(f, n) \in [Slots -> Row]
  BY BlankType DEF Prefix, Slots

-----------------------------------------------------------------------------
(* Types and pages: CoreInv                                                *)

\* The live slots are slots of the table, on cached pages.
LEMMA LiveInSlots ==
  ASSUME CoreInv, session = "open", NEW s \in Nat, s < num_rows
  PROVE  s \in Slots /\ PageOf(s) \in cached
  <1>1. num_rows \in Nat /\ cached \subseteq PageNums
    BY DEF CoreInv, TypeOK
  <1>2. PageOf(s) \in cached
    BY <1>1 DEF CoreInv, LivePagesCached
  <1> QED BY <1>1, <1>2, SlotOfPage

\* In the loop of a DELETE, both rows it looks at are in cached pages, and
\* nothing is loaded.
LEMMA LoopSlots ==
  ASSUME CoreInv, InLoop
  PROVE  /\ session = "open" /\ stmt \in Deleting
         /\ num_rows \in Nat /\ Last \in Nat /\ stmt.index \in Nat /\ stmt.index <= Last
         /\ stmt.index \in Slots /\ PageOf(stmt.index) \in cached
         /\ Last \in Slots /\ PageOf(Last) \in cached
         /\ Load({PageOf(stmt.index)}) = pages
         /\ Load({PageOf(stmt.index), PageOf(Last)}) = pages
  <1>1. session = "open" /\ stmt \in Deleting /\ num_rows \in Nat /\ stmt.index < num_rows
    BY DEF CoreInv, TypeOK, InLoop
  <1>2. stmt.index \in Nat
    BY <1>1 DEF Deleting
  <1>3. Last \in Nat /\ Last < num_rows /\ stmt.index <= Last
    BY <1>1, <1>2 DEF Last
  <1>4. /\ stmt.index \in Slots /\ PageOf(stmt.index) \in cached
        /\ Last \in Slots /\ PageOf(Last) \in cached
    BY <1>1, <1>2, <1>3, LiveInSlots
  <1>5. pages \in [Slots -> Row]
    BY DEF CoreInv, TypeOK
  <1> QED BY <1>1, <1>2, <1>3, <1>4, <1>5, LoadCached

\* What the steps of the loop do to the pages, given that nothing is loaded.
LEMMA SkipEffect ==
  ASSUME CoreInv, DeleteSkip
  PROVE  /\ pages[stmt.index].val \notin stmt.where
         /\ pages' = pages /\ cached' = cached
  <1>1. InLoop /\ ~Matches /\ LoopLoads({stmt.index})
    BY DEF DeleteSkip
  <1>2. {PageOf(s) : s \in {stmt.index}} = {PageOf(stmt.index)}
    OBVIOUS
  <1>3. pages' = Load({PageOf(stmt.index)}) /\ cached' = cached \cup {PageOf(stmt.index)}
    BY <1>1, <1>2 DEF LoopLoads
  <1> QED BY <1>1, <1>3, LoopSlots DEF Matches

LEMMA LastEffect ==
  ASSUME CoreInv, DeleteLast
  PROVE  /\ stmt.index = Last /\ pages[stmt.index].val \in stmt.where
         /\ pages' = pages /\ cached' = cached
  <1>1. InLoop /\ Matches /\ LoopLoads({stmt.index})
    BY DEF DeleteLast
  <1>2. {PageOf(s) : s \in {stmt.index}} = {PageOf(stmt.index)}
    OBVIOUS
  <1>3. pages' = Load({PageOf(stmt.index)}) /\ cached' = cached \cup {PageOf(stmt.index)}
    BY <1>1, <1>2 DEF LoopLoads
  <1> QED BY <1>1, <1>3, LoopSlots DEF Matches, DeleteLast

LEMMA MoveEffect ==
  ASSUME CoreInv, MoveLast
  PROVE  /\ stmt.index < Last /\ pages[stmt.index].val \in stmt.where
         /\ pages' = [pages EXCEPT ![stmt.index] = pages[Last]]
         /\ cached' = cached
  <1>1. InLoop /\ Matches /\ stmt.index # Last
    BY DEF MoveLast
  <1>2. /\ pages' = [Load({PageOf(stmt.index), PageOf(Last)}) EXCEPT
                       ![stmt.index] = Load({PageOf(stmt.index), PageOf(Last)})[Last]]
        /\ cached' = cached \cup {PageOf(stmt.index), PageOf(Last)}
    BY DEF MoveLast
  <1>3. /\ stmt.index \in Nat /\ Last \in Nat /\ stmt.index <= Last
        /\ PageOf(stmt.index) \in cached /\ PageOf(Last) \in cached
        /\ Load({PageOf(stmt.index)}) = pages
        /\ Load({PageOf(stmt.index), PageOf(Last)}) = pages
    BY <1>1, LoopSlots
  <1>4. stmt.index < Last
    BY <1>1, <1>3
  <1>5. pages[stmt.index].val \in stmt.where
    BY <1>1, <1>3 DEF Matches
  <1>6. pages' = [pages EXCEPT ![stmt.index] = pages[Last]]
    BY <1>2, <1>3
  <1>7. cached' = cached
    BY <1>2, <1>3
  <1> QED BY <1>4, <1>5, <1>6, <1>7

\* An insert writes slot num_rows, which is a slot of the table; it leaves
\* the slots of the live rows alone.
LEMMA InsertEffect ==
  ASSUME CoreInv, NEW v \in Values, InsertRow(v)
  PROVE  /\ num_rows \in Slots
         /\ pages' \in [Slots -> Row]
         /\ pages'[num_rows] = [id |-> next_id, val |-> v]
         /\ \A s \in LiveSlots : pages'[s] = pages[s]
  <1> DEFINE p == PageOf(num_rows)
             row == [id |-> next_id, val |-> v]
  <1>1. /\ Ready /\ next_id <= MaxId /\ p \in PageNums
        /\ pages' = [InsertPages(p) EXCEPT ![num_rows] = row]
    BY DEF InsertRow
  <1>2. /\ num_rows \in Nat /\ next_id \in 1 .. MaxId + 1
        /\ pages \in [Slots -> Row] /\ file \in [Slots -> Row]
    BY DEF CoreInv, TypeOK
  <1>3. num_rows \in Slots
    BY <1>1, <1>2, SlotOfPage
  <1>4. row \in Row
    BY <1>1, <1>2, ParamAssumption DEF Row
  <1>5. InsertPages(p) \in [Slots -> Row]
    BY <1>2, BlankType, ContentsType DEF InsertPages, Load
  <1>6. ASSUME NEW s \in LiveSlots
        PROVE  InsertPages(p)[s] = pages[s] /\ s # num_rows
    <2>1. s \in Slots /\ s \in Nat /\ s < num_rows
      BY <1>2, ParamAssumption DEF LiveSlots, Slots
    <2>2. PageOf(s) \in cached
      BY <1>1, <2>1, LiveInSlots DEF Ready
    <2>3. s # num_rows
      BY <2>1, <1>2
    <2> QED BY <2>1, <2>2, <2>3 DEF InsertPages, Overlay, Load
  <1> QED BY <1>1, <1>3, <1>4, <1>5, <1>6 DEF LiveSlots

\* A table that is still sound after a step was so before it.
LEMMA SoundEffect ==
  ASSUME TypeOK, NEW kept, NEW rows, rows \in SUBSET Row, Sound(kept, rows)
  PROVE  /\ sound' \in BOOLEAN /\ doubled' \in SUBSET Row
         /\ sound' => sound /\ kept /\ doubled' = rows
  <1>1. sound' = (sound /\ kept)
    BY DEF Sound
  <1>2. sound' \in BOOLEAN
    BY <1>1
  <1>3. doubled' = IF sound /\ kept THEN rows ELSE {}
    BY DEF Sound
  <1>4. CASE sound /\ kept
    BY <1>1, <1>2, <1>3, <1>4
  <1>5. CASE ~(sound /\ kept)
    BY <1>1, <1>2, <1>3, <1>5
  <1> QED BY <1>4, <1>5

LEMMA CloseBeginSound ==
  ASSUME TypeOK, CloseBegin, sound'
  PROVE  /\ sound /\ doubled' = doubled
         /\ \/ /\ header' = [num_rows |-> num_rows, next_id |-> next_id]
               /\ saved' = Prefix(pages, num_rows)
            \/ header' = header /\ saved' = saved /\ ~touched
  <1>1. doubled \in SUBSET Row
    BY DEF TypeOK
  <1>2. CASE Sound(TRUE, doubled) /\ header' = [num_rows |-> num_rows, next_id |-> next_id]
             /\ saved' = Prefix(pages, num_rows)
    BY <1>1, <1>2, SoundEffect
  <1>3. CASE Sound(~touched, doubled) /\ header' = header /\ saved' = saved
    BY <1>1, <1>3, SoundEffect
  <1> QED BY <1>2, <1>3 DEF CloseBegin

LEMMA LeaveSound ==
  ASSUME TypeOK, Leave, sound'
  PROVE  sound /\ ~touched /\ doubled' = doubled
  <1>1. doubled \in SUBSET Row /\ Sound(~touched, doubled)
    BY DEF TypeOK, Leave
  <1> QED BY <1>1, SoundEffect

\* The row that a failed DELETE leaves twice.
LEMMA AbortEffect ==
  ASSUME CoreInv, DeleteAborts
  PROVE  /\ pages'[Last] = pages[Last] /\ pages[Last] \in Row
         /\ sound' = sound /\ doubled' \in SUBSET Row
         /\ sound => doubled' = doubled \cup {pages[Last]}
  <1>1. MoveLast /\ Sound(TRUE, doubled \cup {pages'[Last]})
    BY DEF DeleteAborts
  <1>2. InLoop /\ stmt.index < Last /\ pages' = [pages EXCEPT ![stmt.index] = pages[Last]]
    BY <1>1, MoveEffect DEF MoveLast
  <1>3. Last \in Slots /\ Last \in Nat /\ stmt.index \in Nat
    BY <1>2, LoopSlots
  <1>4. pages \in [Slots -> Row] /\ doubled \in SUBSET Row /\ sound \in BOOLEAN
    BY DEF CoreInv, TypeOK
  <1>5. pages'[Last] = pages[Last] /\ pages[Last] \in Row
    BY <1>2, <1>3, <1>4
  <1> QED BY <1>1, <1>4, <1>5 DEF Sound

LEMMA CoreInit == Init => CoreInv
  <1> SUFFICES ASSUME Init PROVE CoreInv
    OBVIOUS
  <1>1. TypeOK
    <2>1. 1 \in 1 .. MaxId + 1
      BY ParamAssumption
    <2>2. header \in [num_rows : Nat, next_id : 1 .. MaxId + 1]
      BY <2>1 DEF Init
    <2>3. pages \in [Slots -> Row] /\ file \in [Slots -> Row] /\ saved \in [Slots -> Row]
      BY BlankType DEF Init
    <2> QED BY <2>1, <2>2, <2>3 DEF Init, TypeOK, Results
  <1>2. StmtInSession /\ LivePagesCached
    BY DEF Init, StmtInSession, LivePagesCached
  <1> QED BY <1>1, <1>2 DEF CoreInv

\* Nothing is said of what follows undefined behaviour.
LEMMA UndefinedStays == Undefined => UNCHANGED vars
  BY DEF Undefined

LEMMA CoreNext == CoreInv /\ [Next]_vars => CoreInv'
  <1> SUFFICES ASSUME CoreInv, [Next]_vars PROVE CoreInv'
    OBVIOUS
  <1> USE DEF CoreInv
  <1>1. CASE InsertRefused
    BY <1>1 DEF InsertRefused, Unsaved, TypeOK, StmtInSession, LivePagesCached, Results
  <1>2. CASE InsertNoPage
    BY <1>2, ParamAssumption DEF InsertNoPage, Unsaved, TypeOK, StmtInSession,
         LivePagesCached, Results
  <1>3. ASSUME NEW v \in Values, InsertRow(v)
        PROVE  CoreInv'
    <2>1. num_rows \in Nat /\ next_id \in 1 .. MaxId + 1 /\ MaxId \in Nat
      BY ParamAssumption DEF TypeOK
    <2>2. TypeOK'
      <3>1. pages' \in [Slots -> Row]
        BY <1>3, InsertEffect
      <3>2. file' \in [Slots -> Row]
        <4>1. file' = file \/ file' = Overlay(file, pages', PageOf(num_rows))
          BY <1>3 DEF InsertRow
        <4> QED BY <3>1, <4>1, ContentsType DEF TypeOK
      <3>3. num_rows' \in Nat /\ next_id' \in 1 .. MaxId + 1 /\ cached' \in SUBSET PageNums
        BY <1>3, <2>1 DEF InsertRow, TypeOK
      <3>4. result' \in Results /\ touched' \in BOOLEAN
        BY <1>3 DEF InsertRow, TypeOK, Results
      <3> QED BY <1>3, <3>1, <3>2, <3>3, <3>4 DEF InsertRow, Unsaved, TypeOK
    <2>3. StmtInSession'
      BY <1>3 DEF InsertRow, Unsaved, StmtInSession
    <2>4. LivePagesCached'
      <3>1. SUFFICES ASSUME NEW s \in 0 .. num_rows
                     PROVE  PageOf(s) \in cached'
        BY <1>3, <2>1 DEF InsertRow, LivePagesCached
      <3>2. s \in 0 .. num_rows - 1 \/ s = num_rows
        BY <2>1
      <3> QED BY <1>3, <3>2 DEF InsertRow, Ready, LivePagesCached
    <2> QED BY <2>2, <2>3, <2>4
  <1>4. ASSUME NEW w \in SUBSET (Values \cup {NoValue}), BeginDelete(w)
        PROVE  CoreInv'
    <2>1. stmt' \in Deleting
      BY <1>4 DEF BeginDelete, Deleting
    <2> QED BY <1>4, <2>1 DEF BeginDelete, Ready, Unsaved, TypeOK, StmtInSession,
                 LivePagesCached, Results
  <1>5. CASE DeleteSkip
    <2>1. InLoop /\ pages' = pages /\ cached' = cached
      BY <1>5, SkipEffect DEF DeleteSkip
    <2>2. session = "open" /\ stmt \in Deleting
      BY <2>1, LoopSlots
    <2>3. stmt' \in Deleting
      BY <1>5, <2>2 DEF DeleteSkip, Deleting
    <2> QED BY <1>5, <2>1, <2>2, <2>3 DEF DeleteSkip, Unsaved, TypeOK, StmtInSession,
                 LivePagesCached
  <1>6. CASE DeleteLast
    <2>1. InLoop /\ pages' = pages /\ cached' = cached
      BY <1>6, LastEffect DEF DeleteLast
    <2>2. session = "open" /\ stmt \in Deleting /\ num_rows - 1 \in Nat /\ num_rows \in Nat
      BY <2>1, LoopSlots DEF Last
    <2>3. stmt' \in Deleting
      BY <1>6, <2>2 DEF DeleteLast, Deleting
    <2>4. TypeOK' /\ StmtInSession'
      BY <1>6, <2>1, <2>2, <2>3 DEF DeleteLast, Unsaved, TypeOK, StmtInSession
    <2>5. LivePagesCached'
      BY <1>6, <2>1, <2>2 DEF DeleteLast, Unsaved, LivePagesCached
    <2> QED BY <2>4, <2>5
  <1>7. ASSUME MoveLast
        PROVE  /\ pages' \in [Slots -> Row] /\ cached' = cached
               /\ session = "open" /\ stmt \in Deleting
               /\ num_rows - 1 \in Nat /\ num_rows \in Nat
    <2>1. InLoop /\ pages' = [pages EXCEPT ![stmt.index] = pages[Last]] /\ cached' = cached
      BY <1>7, MoveEffect DEF MoveLast
    <2>2. /\ session = "open" /\ stmt \in Deleting /\ Last \in Slots
          /\ num_rows - 1 \in Nat /\ num_rows \in Nat
      BY <2>1, LoopSlots DEF Last
    <2>3. pages' \in [Slots -> Row]
      BY <2>1, <2>2 DEF TypeOK
    <2> QED BY <2>1, <2>2, <2>3
  <1>8. CASE DeleteMove
    <2>1. MoveLast
      BY <1>8 DEF DeleteMove
    <2>2. stmt' \in Deleting
      BY <1>7, <1>8, <2>1 DEF DeleteMove, Deleting
    <2>3. file' \in [Slots -> Row] /\ touched' \in BOOLEAN
      BY <1>7, <1>8, <2>1, ContentsType DEF DeleteMove, MoveLast, TypeOK
    <2>4. TypeOK' /\ StmtInSession'
      BY <1>7, <1>8, <2>1, <2>2, <2>3 DEF DeleteMove, Unsaved, TypeOK, StmtInSession
    <2>5. LivePagesCached'
      BY <1>7, <1>8, <2>1 DEF DeleteMove, Unsaved, LivePagesCached
    <2> QED BY <2>4, <2>5
  <1>9. CASE DeleteAborts
    <2>1. MoveLast
      BY <1>9 DEF DeleteAborts
    <2>2. sound' \in BOOLEAN /\ doubled' \in SUBSET Row
      BY <1>9, AbortEffect DEF TypeOK
    <2> QED BY <1>7, <1>9, <2>1, <2>2 DEF DeleteAborts, MoveLast, TypeOK, StmtInSession,
                 LivePagesCached, Results
  <1>10. CASE DeleteEnd
    <2>1. file' \in [Slots -> Row]
      BY <1>10, ContentsType DEF DeleteEnd, TypeOK
    <2> QED BY <1>10, <2>1 DEF DeleteEnd, Unsaved, TypeOK, StmtInSession,
                 LivePagesCached, Results
  <1>11. CASE CloseBegin
    <2>1. saved' \in [Slots -> Row] /\ header' \in [num_rows : Nat, next_id : 1 .. MaxId + 1]
      <3>1. CASE /\ header' = [num_rows |-> num_rows, next_id |-> next_id]
                 /\ saved' = Prefix(pages, num_rows)
        BY <3>1, PrefixType DEF TypeOK
      <3>2. CASE header' = header /\ saved' = saved
        BY <3>2 DEF TypeOK
      <3> QED BY <1>11, <3>1, <3>2 DEF CloseBegin
    <2>2. sound' \in BOOLEAN /\ doubled' \in SUBSET Row
      <3>1. Sound(TRUE, doubled) \/ Sound(~touched, doubled)
        BY <1>11 DEF CloseBegin
      <3>2. doubled \in SUBSET Row
        BY DEF TypeOK
      <3> QED BY <3>1, <3>2, SoundEffect
    <2> QED BY <1>11, <2>1, <2>2 DEF CloseBegin, Ready, TypeOK, StmtInSession, LivePagesCached
  <1>12. CASE CloseFlush
    <2>1. PICK p \in cached : /\ file' = Overlay(file, pages, p)
                              /\ pages' = Overlay(pages, Blank, p)
                              /\ cached' = cached \ {p}
      BY <1>12 DEF CloseFlush
    <2>2. file' \in [Slots -> Row] /\ pages' \in [Slots -> Row]
      BY <2>1, BlankType, ContentsType DEF TypeOK
    <2> QED BY <1>12, <2>1, <2>2 DEF CloseFlush, TypeOK, StmtInSession, LivePagesCached
  <1>13. CASE CloseEnd
    BY <1>13 DEF CloseEnd, TypeOK, StmtInSession, LivePagesCached
  <1>14. ASSUME Leave PROVE CoreInv'
    <2>1. doubled \in SUBSET Row /\ Sound(~touched, doubled)
      BY <1>14 DEF Leave, TypeOK
    <2>2. sound' \in BOOLEAN /\ doubled' \in SUBSET Row
      BY <2>1, SoundEffect
    <2> QED BY <1>14, <2>2, BlankType DEF Leave, TypeOK, StmtInSession, LivePagesCached
  <1>15. CASE OpenRestores
    <2>1. header.num_rows \in Nat /\ header.next_id \in 1 .. MaxId + 1
      BY DEF TypeOK
    <2>2. pages' \in [Slots -> Row]
      BY <1>15, BlankType DEF OpenRestores, TypeOK
    <2>3. TypeOK' /\ StmtInSession'
      BY <1>15, <2>1, <2>2 DEF OpenRestores, OpenedPages, TypeOK, StmtInSession, Results
    <2>4. LivePagesCached'
      <3>1. SUFFICES ASSUME NEW s \in 0 .. header.num_rows - 1
                     PROVE  PageOf(s) \in 0 .. header.num_rows - 1
        BY <1>15 DEF OpenRestores, OpenedPages, LivePagesCached
      <3>2. PageOf(s) \in Nat /\ PageOf(s) <= s
        BY <2>1, PageAtMostSlot
      <3> QED BY <2>1, <3>2
    <2> QED BY <2>3, <2>4
  <1>16. CASE OpenDangles
    BY <1>16 DEF OpenDangles, TypeOK, StmtInSession, LivePagesCached, Results
  <1>17. CASE UNCHANGED vars
    BY <1>17 DEF vars, TypeOK, StmtInSession, LivePagesCached
  <1>18. CASE UseFreed
    <2>1. sound' \in BOOLEAN /\ doubled' \in SUBSET Row
      BY <1>18 DEF UseFreed, Sound
    <2> QED BY <1>18, <2>1 DEF UseFreed, TypeOK, StmtInSession, LivePagesCached
  <1> QED BY <1>1, <1>2, <1>3, <1>4, <1>5, <1>6, <1>8, <1>9, <1>10, <1>11, <1>12,
             <1>13, <1>14, <1>15, <1>16, <1>17, <1>18, UndefinedStays
          DEF Next, DeleteStep, CloseStep, CloseAborts, MetaExit, Crash

\* In every state the variables have their types and the pages of all live
\* rows are cached, however large the pages and the table.
THEOREM TypeCorrect == Spec => [](TypeOK /\ LivePagesCached)
  <1>1. CoreInv => TypeOK /\ LivePagesCached
    BY DEF CoreInv
  <1> QED BY CoreInit, CoreNext, <1>1, PTL DEF Spec

-----------------------------------------------------------------------------
(* The loop of DELETE: FinalFlushHasPage and DeleteScanned                 *)

LoopInv == FinalFlushHasPage /\ DeleteScanned

LEMMA LoopInit == Init => LoopInv
  BY DEF Init, LoopInv, FinalFlushHasPage, DeleteScanned

LEMMA LoopNext == CoreInv /\ LoopInv /\ [Next]_vars => LoopInv'
  <1> SUFFICES ASSUME CoreInv, LoopInv, [Next]_vars PROVE LoopInv'
    OBVIOUS
  <1> USE DEF LoopInv
  <1>1. CASE stmt' = Idle
    BY <1>1 DEF FinalFlushHasPage, DeleteScanned, Idle
  <1>2. ASSUME NEW w \in SUBSET (Values \cup {NoValue}), BeginDelete(w)
        PROVE  LoopInv'
    <2>1. stmt'.deleted_any = FALSE /\ stmt'.index = 0
      BY <1>2 DEF BeginDelete
    <2>2. \A s \in Slots : ~(s < 0)
      BY ParamAssumption DEF Slots
    <2> QED BY <2>1, <2>2 DEF FinalFlushHasPage, DeleteScanned, LiveSlots
  <1>3. CASE DeleteSkip
    <2>1. /\ session = "open" /\ stmt \in Deleting /\ stmt # Idle
          /\ stmt.index \in Nat /\ num_rows \in Nat
      BY <1>3, LoopSlots DEF DeleteSkip, InLoop
    <2>2. /\ pages[stmt.index].val \notin stmt.where
          /\ pages' = pages /\ cached' = cached /\ num_rows' = num_rows
      BY <1>3, SkipEffect DEF DeleteSkip
    <2>3. /\ stmt'.index = stmt.index + 1 /\ stmt'.where = stmt.where
          /\ stmt'.deleted_any = stmt.deleted_any
      BY <1>3, <2>1 DEF DeleteSkip, Deleting
    <2>4. FinalFlushHasPage'
      BY <2>1, <2>2, <2>3 DEF FinalFlushHasPage
    <2>5. ASSUME NEW s \in LiveSlots, s < stmt.index + 1
          PROVE  pages[s].val \notin stmt.where
      <3>1. s < stmt.index \/ s = stmt.index
        BY <2>1, <2>5, ParamAssumption DEF LiveSlots, Slots
      <3> QED BY <2>1, <2>2, <3>1 DEF DeleteScanned
    <2> QED BY <2>2, <2>3, <2>4, <2>5 DEF DeleteScanned, LiveSlots
  <1>4. CASE DeleteLast
    <2>1. /\ session = "open" /\ stmt \in Deleting /\ stmt # Idle /\ num_rows \in Nat
          /\ PageOf(Last) \in cached
      BY <1>4, LoopSlots DEF DeleteLast, InLoop
    <2>2. pages' = pages /\ cached' = cached /\ num_rows' = Last
      BY <1>4, LastEffect DEF DeleteLast, Last
    <2>3. stmt'.index = stmt.index /\ stmt'.where = stmt.where
      BY <1>4, <2>1 DEF DeleteLast, Deleting
    <2>4. LiveSlots' \subseteq LiveSlots
      BY <2>1, <2>2, ParamAssumption DEF LiveSlots, Last, Slots
    <2> QED BY <2>1, <2>2, <2>3, <2>4 DEF FinalFlushHasPage, DeleteScanned
  <1>5. CASE DeleteMove
    <2>1. /\ session = "open" /\ stmt \in Deleting /\ stmt # Idle /\ num_rows \in Nat
          /\ PageOf(Last) \in cached
      BY <1>5, LoopSlots DEF DeleteMove, MoveLast, InLoop
    <2>2. /\ pages' = [pages EXCEPT ![stmt.index] = pages[Last]]
          /\ cached' = cached /\ num_rows' = Last
      BY <1>5, MoveEffect DEF DeleteMove, Last
    <2>3. stmt'.index = stmt.index /\ stmt'.where = stmt.where
      BY <1>5, <2>1 DEF DeleteMove, Deleting
    <2>4. LiveSlots' \subseteq LiveSlots
      BY <2>1, <2>2, ParamAssumption DEF LiveSlots, Last, Slots
    <2>5. ASSUME NEW s \in LiveSlots, s < stmt.index
          PROVE  pages'[s] = pages[s]
      <3>1. s # stmt.index /\ s \in Slots /\ pages \in [Slots -> Row]
        BY <2>1, <2>5, ParamAssumption DEF LiveSlots, Slots, Deleting, CoreInv, TypeOK
      <3> QED BY <2>2, <3>1
    <2> QED BY <2>1, <2>2, <2>3, <2>4, <2>5 DEF FinalFlushHasPage, DeleteScanned
  <1>6. CASE UNCHANGED vars
    BY <1>6 DEF vars, FinalFlushHasPage, DeleteScanned, LiveSlots
  <1>7. ASSUME NEW v \in Values, InsertRow(v)
        PROVE  stmt' = Idle
    BY <1>7 DEF InsertRow, Ready
  <1>8. InsertRefused \/ InsertNoPage \/ DeleteAborts \/ DeleteEnd \/ CloseBegin \/ Leave
          => stmt' = Idle
    BY DEF InsertRefused, InsertNoPage, DeleteAborts, DeleteEnd, CloseBegin, Leave, Ready
  <1>9. CloseFlush \/ CloseEnd \/ OpenRestores \/ OpenDangles \/ UseFreed => stmt' = Idle
    BY DEF CloseFlush, CloseEnd, OpenRestores, OpenDangles, UseFreed, CoreInv, StmtInSession
  <1> QED BY <1>1, <1>2, <1>3, <1>4, <1>5, <1>6, <1>7, <1>8, <1>9, UndefinedStays
          DEF Next, DeleteStep, CloseStep, CloseAborts, MetaExit, Crash

\* A DELETE that removed rows does not fail for want of a page to flush, and
\* what it has passed does not match its condition.
THEOREM DeleteLoopCorrect == Spec => [](FinalFlushHasPage /\ DeleteScanned)
  <1>1. CoreInv /\ LoopInv /\ [Next]_vars => (CoreInv /\ LoopInv)'
    BY CoreNext, LoopNext
  <1>2. LoopInv => FinalFlushHasPage /\ DeleteScanned
    BY DEF LoopInv
  <1> QED BY CoreInit, LoopInit, <1>1, <1>2, PTL DEF Spec

-----------------------------------------------------------------------------
(* What survives the end of a session: SavedKept                           *)

LEMMA SavedInit == Init => SavedKept
  <1> SUFFICES ASSUME Init PROVE SavedKept
    OBVIOUS
  <1>1. Blank = Prefix(Blank, 0)
    BY DEF Blank, Prefix
  <1> QED BY <1>1, ParamAssumption DEF Init, SavedKept, LiveSlots, SavedSlots, Slots

\* A step that leaves the session open or not, the file, the rows and what
\* was saved, and that may only make the session touched, keeps SavedKept.
LEMMA SavedUnmoved ==
  ASSUME SavedKept, UNCHANGED <<header, session, saved, sound, num_rows, file, pages, cached>>,
         touched => touched'
  PROVE  SavedKept'
  BY DEF SavedKept, SavedSlots, LiveSlots, Prefix, PageOf, Slots

LEMMA SavedAreLive ==
  ASSUME CoreInv, header.num_rows <= num_rows
  PROVE  SavedSlots \subseteq LiveSlots
  <1>1. SUFFICES ASSUME NEW s \in Slots, s < header.num_rows
                 PROVE  s < num_rows
    BY DEF SavedSlots, LiveSlots
  <1>2. s \in Int /\ num_rows \in Nat /\ header.num_rows \in Nat
    BY ParamAssumption DEF Slots, CoreInv, TypeOK
  <1> QED BY <1>1, <1>2

LEMMA SavedNext == CoreInv /\ SavedKept /\ [Next]_vars => SavedKept'
  <1> SUFFICES ASSUME CoreInv, SavedKept, [Next]_vars PROVE SavedKept'
    OBVIOUS
  <1>0. /\ num_rows \in Nat /\ header.num_rows \in Nat /\ touched \in BOOLEAN
        /\ pages \in [Slots -> Row] /\ file \in [Slots -> Row] /\ saved \in [Slots -> Row]
        /\ Slots \subseteq Nat
    BY ParamAssumption DEF CoreInv, TypeOK, Slots
  <1>1. CASE ~sound'
    BY <1>1 DEF SavedKept
  <1>2. CASE InsertRefused \/ InsertNoPage
    BY <1>2, SavedUnmoved DEF InsertRefused, InsertNoPage, Unsaved
  <1>3. ASSUME NEW v \in Values, InsertRow(v), sound'
        PROVE  SavedKept'
    <2>1. /\ session = "open" /\ session' = "open" /\ num_rows' = num_rows + 1
          /\ header' = header /\ saved' = saved /\ sound
          /\ touched' \/ (~touched /\ file' = Overlay(file, pages', PageOf(num_rows)))
      BY <1>3, <1>0 DEF InsertRow, Ready, Unsaved
    <2>2. CASE touched'
      BY <2>1, <2>2 DEF SavedKept, SavedSlots
    <2>3. CASE ~touched'
      <3>1. /\ header.num_rows <= num_rows
            /\ \A s \in LiveSlots : file[s] = pages[s]
            /\ \A s \in SavedSlots : file[s] = saved[s]
            /\ file' = Overlay(file, pages', PageOf(num_rows))
        BY <2>1, <2>3 DEF SavedKept
      <3>2. \A s \in LiveSlots : pages'[s] = pages[s]
        BY <1>3, InsertEffect
      <3>3. \A s \in LiveSlots : file'[s] = pages'[s] /\ file'[s] = file[s]
        BY <3>1, <3>2 DEF Overlay, LiveSlots
      <3>4. SavedSlots \subseteq LiveSlots
        BY <3>1, SavedAreLive
      <3>5. \A s \in LiveSlots' : s \in LiveSlots \/ s = num_rows
        BY <1>0, <2>1 DEF LiveSlots
      <3>6. num_rows \in Slots
        BY <1>3, InsertEffect
      <3>7. file'[num_rows] = pages'[num_rows]
        BY <3>1, <3>6 DEF Overlay
      <3>8. header'.num_rows <= num_rows'
        BY <1>0, <2>1, <3>1
      <3>9. saved' = Prefix(saved', header'.num_rows)
        BY <2>1 DEF SavedKept, Prefix
      <3> QED BY <2>1, <3>1, <3>3, <3>4, <3>5, <3>7, <3>8, <3>9 DEF SavedKept, SavedSlots
    <2> QED BY <2>2, <2>3
  <1>4. ASSUME NEW w \in SUBSET (Values \cup {NoValue}), BeginDelete(w)
        PROVE  SavedKept'
    BY <1>4, SavedUnmoved DEF BeginDelete, Unsaved
  <1>5. CASE DeleteSkip
    <2>1. pages' = pages /\ cached' = cached
      BY <1>5, SkipEffect
    <2> QED BY <1>5, <2>1, SavedUnmoved DEF DeleteSkip, Unsaved
  <1>6. CASE DeleteLast \/ DeleteMove
    BY <1>6 DEF DeleteLast, DeleteMove, MoveLast, InLoop, Unsaved, SavedKept, SavedSlots
  <1>7. CASE DeleteEnd
    <2>1. /\ session = "open" /\ session' = "open"
          /\ UNCHANGED <<num_rows, pages, cached, header, saved, sound>>
          /\ touched' \/ touched' = touched
          /\ file' = file \/ file' = Overlay(file, pages, PageOf(num_rows))
      BY <1>7, <1>0 DEF DeleteEnd, AfterLoop, Unsaved
    <2>2. CASE touched'
      BY <2>1, <2>2 DEF SavedKept, SavedSlots
    <2>3. CASE ~touched'
      <3>1. sound => /\ header.num_rows <= num_rows
                     /\ \A s \in LiveSlots : file[s] = pages[s]
                     /\ \A s \in SavedSlots : file[s] = saved[s]
        BY <2>1, <2>3 DEF SavedKept
      <3>2. sound => \A s \in LiveSlots : file'[s] = file[s]
        BY <2>1, <3>1 DEF Overlay, LiveSlots
      <3>3. sound => SavedSlots \subseteq LiveSlots
        BY <3>1, SavedAreLive
      <3> QED BY <2>1, <2>3, <3>1, <3>2, <3>3 DEF SavedKept, SavedSlots, LiveSlots, Prefix
    <2> QED BY <2>2, <2>3
  <1>8. CASE CloseBegin /\ sound'
    <2>1. /\ session = "open" /\ session' = "closing" /\ sound
          /\ UNCHANGED <<num_rows, pages, cached, file, touched>>
      BY <1>8, CloseBeginSound DEF CloseBegin, Ready, CoreInv
    <2>2. CASE header' = [num_rows |-> num_rows, next_id |-> next_id]
               /\ saved' = Prefix(pages, num_rows)
      <3>1. header'.num_rows = num_rows /\ SavedSlots' = LiveSlots
        BY <2>2 DEF SavedSlots, LiveSlots
      <3>2. saved' = Prefix(saved', num_rows) /\ \A s \in LiveSlots : saved'[s] = pages[s]
        BY <2>2 DEF Prefix, LiveSlots
      <3>3. \A s \in LiveSlots : PageOf(s) \in cached
        BY <1>0, <2>1, LiveInSlots DEF LiveSlots
      <3>4. ~touched => \A s \in LiveSlots : file[s] = pages[s]
        BY <2>1 DEF SavedKept
      <3> QED BY <2>1, <3>1, <3>2, <3>3, <3>4 DEF SavedKept
    <2>3. CASE header' = header /\ saved' = saved /\ ~touched
      <3>1. /\ header.num_rows <= num_rows
            /\ \A s \in LiveSlots : file[s] = pages[s]
            /\ \A s \in SavedSlots : file[s] = saved[s]
        BY <2>1, <2>3 DEF SavedKept
      <3>2. \A s \in SavedSlots : pages[s] = saved[s]
        BY <1>0, <3>1 DEF SavedSlots, LiveSlots
      <3> QED BY <2>1, <2>3, <3>1, <3>2 DEF SavedKept, SavedSlots
    <2> QED BY <1>8, <2>2, <2>3, CloseBeginSound DEF CloseBegin, CoreInv
  <1>9. CASE CloseFlush
    <2>1. PICK p \in cached : /\ file' = Overlay(file, pages, p)
                              /\ cached' = cached \ {p}
                              /\ pages' = Overlay(pages, Blank, p)
      BY <1>9 DEF CloseFlush
    <2>2. /\ session = "closing" /\ session' = "closing"
          /\ UNCHANGED <<num_rows, header, saved, touched, sound>>
      BY <1>9 DEF CloseFlush
    <2>3. ASSUME sound, NEW s \in SavedSlots
          PROVE  /\ IF PageOf(s) \in cached' THEN pages'[s] = saved[s]
                                             ELSE file'[s] = saved[s]
                 /\ ~touched => file'[s] = saved[s]
      <3>1. /\ s \in Slots
            /\ IF PageOf(s) \in cached THEN pages[s] = saved[s] ELSE file[s] = saved[s]
            /\ ~touched => file[s] = saved[s]
        BY <2>2, <2>3 DEF SavedKept, SavedSlots
      <3>2. CASE PageOf(s) = p
        BY <2>1, <3>1, <3>2 DEF Overlay
      <3>3. CASE PageOf(s) # p
        BY <2>1, <3>1, <3>3 DEF Overlay
      <3> QED BY <3>2, <3>3
    <2> QED BY <2>2, <2>3 DEF SavedKept, SavedSlots, Prefix
  <1>10. CASE CloseEnd
    BY <1>10 DEF CloseEnd, SavedKept, SavedSlots, Prefix
  <1>11. ASSUME Leave, sound' PROVE SavedKept'
    <2>1. sound /\ ~touched
      BY <1>11, LeaveSound DEF CoreInv
    <2> QED BY <1>11, <2>1 DEF Leave, SavedKept, SavedSlots, Prefix
  <1>12. CASE OpenRestores
    <2>1. /\ session = "closed" /\ session' = "open" /\ num_rows' = header.num_rows
          /\ UNCHANGED <<file, header, saved, touched, sound>>
          /\ pages' = [s \in Slots |-> IF PageOf(s) \in cached' THEN file[s] ELSE BlankRow]
      BY <1>12 DEF OpenRestores
    <2>2. \A s \in LiveSlots' : PageOf(s) \in cached'
      BY <1>0, <2>1, CoreNext, LiveInSlots DEF LiveSlots, CoreInv, LivePagesCached
    <2>3. \A s \in LiveSlots' : file'[s] = pages'[s]
      BY <2>1, <2>2 DEF LiveSlots
    <2> QED BY <1>0, <2>1, <2>3 DEF SavedKept, SavedSlots, Prefix
  <1>13. CASE OpenDangles
    BY <1>13 DEF OpenDangles, SavedKept, SavedSlots, Prefix
  <1>14. CASE UNCHANGED vars
    BY <1>14, SavedUnmoved DEF vars
  <1>15. CASE DeleteAborts
    <2>1. session = "open" /\ session' = "open" /\ touched' /\ UNCHANGED <<header, saved>>
      BY <1>15 DEF DeleteAborts, MoveLast, InLoop
    <2>2. sound' = sound
      BY <1>15, AbortEffect
    <2> QED BY <2>1, <2>2 DEF SavedKept, SavedSlots
  <1>16. UseFreed => ~sound'
    BY DEF UseFreed, Sound
  <1> QED BY <1>1, <1>2, <1>3, <1>4, <1>5, <1>6, <1>7, <1>8, <1>9, <1>10, <1>11,
             <1>12, <1>13, <1>14, <1>15, <1>16, UndefinedStays
          DEF Next, DeleteStep, CloseStep, CloseAborts, MetaExit, Crash

-----------------------------------------------------------------------------
(* Row ids: IdsUnique, with SavedIdsUnique                                 *)

IdsInv == IdsUnique /\ SavedIdsUnique

LEMMA IdsInit == Init => IdsInv
  BY ParamAssumption
     DEF Init, IdsInv, IdsUnique, SavedIdsUnique, Distinct, LiveSlots, SavedSlots, Slots

\* Different rows stay different when ids are spent, and rows are taken away
\* or known to be there twice.
LEMMA StillDistinct ==
  ASSUME NEW f, NEW g, NEW S, NEW T \in SUBSET S, NEW n \in Nat, NEW m \in Nat, n <= m,
         NEW D, NEW E, D \subseteq E, \A s \in T : f[s].id \in Nat /\ g[s] = f[s],
         Distinct(f, S, n, D)
  PROVE  Distinct(g, T, m, E)
  BY DEF Distinct

\* The row moved in stands for one that is gone, or is known to be there twice.
Moved(f, g, S, i, j) == \A s \in S : g[s] = IF s = i THEN f[j] ELSE f[s]

LEMMA MovedDistinct ==
  ASSUME NEW f, NEW g, NEW S, NEW T, T \subseteq S, NEW n, NEW i, NEW j, j \in S,
         NEW D, NEW E, D \subseteq E, Moved(f, g, S, i, j),
         Distinct(f, S, n, D), j \notin T \/ f[j] \in E
  PROVE  Distinct(g, T, n, E)
  <1> USE DEF Moved
  <1>1. ASSUME NEW s \in T, NEW t \in T, s # t, g[s].id = g[t].id
        PROVE  g[s] = g[t] /\ g[s] \in E
    BY <1>1 DEF Distinct
  <1>2. \A s \in T : g[s].id < n
    BY DEF Distinct
  <1> QED BY <1>1, <1>2 DEF Distinct

\* The same with a row of id n added in slot k.
LEMMA AddedDistinct ==
  ASSUME NEW f, NEW g, NEW S, NEW T, NEW k, NEW n \in Nat, NEW D,
         T \subseteq S \cup {k}, \A s \in S : g[s] = f[s] /\ f[s].id \in Nat,
         g[k].id = n, Distinct(f, S, n, D)
  PROVE  Distinct(g, T, n + 1, D)
  <1>1. \A s \in S : g[s].id < n /\ g[s].id \in Nat
    BY DEF Distinct
  <1>2. \A s \in T : g[s].id < n + 1
    BY <1>1
  <1>3. ASSUME NEW s \in T, NEW t \in T, s # t, g[s].id = g[t].id
        PROVE  g[s] = g[t] /\ g[s] \in D
    <2>1. s \in S /\ t \in S
      BY <1>1, <1>3
    <2> QED BY <1>3, <2>1 DEF Distinct
  <1> QED BY <1>2, <1>3 DEF Distinct

LEMMA IdsNext == CoreInv /\ SavedKept /\ IdsInv /\ [Next]_vars => IdsInv'
  <1> SUFFICES ASSUME CoreInv, SavedKept, IdsInv, [Next]_vars, sound' PROVE IdsInv'
    BY DEF IdsInv, IdsUnique, SavedIdsUnique
  <1>0. /\ num_rows \in Nat /\ header.num_rows \in Nat /\ next_id \in Nat
        /\ pages \in [Slots -> Row] /\ saved \in [Slots -> Row] /\ Slots \subseteq Nat
        /\ TypeOK /\ next_id + 1 \in Nat /\ next_id <= next_id + 1
    BY ParamAssumption DEF CoreInv, TypeOK, Slots
  <1>r. /\ \A s \in LiveSlots : s \in Slots /\ pages[s].id \in Nat
        /\ \A s \in SavedSlots : s \in Slots /\ saved[s].id \in Nat
    BY <1>0, ParamAssumption DEF LiveSlots, SavedSlots, Row
  <1>i. /\ sound /\ session = "open" => Distinct(pages, LiveSlots, next_id, doubled)
        /\ sound => Distinct(saved, SavedSlots, header.next_id, doubled)
    BY DEF IdsInv, IdsUnique, SavedIdsUnique
  <1>s. ASSUME sound, header' = header, saved' = saved, doubled' = doubled
        PROVE  SavedIdsUnique'
    BY <1>i, <1>s DEF SavedIdsUnique, SavedSlots
  <1>l. ASSUME sound, session = "open", UNCHANGED <<header, saved, doubled, num_rows, pages, next_id>>
        PROVE  IdsInv'
    <2>1. IdsUnique'
      BY <1>i, <1>l DEF IdsUnique, LiveSlots
    <2> QED BY <1>s, <1>l, <2>1 DEF IdsInv
  <1>2. CASE InsertRefused
    BY <1>2, <1>l DEF InsertRefused, Ready, Unsaved
  <1>4. CASE InsertNoPage
    <2>1. /\ session = "open" /\ next_id' = next_id + 1 /\ sound
          /\ UNCHANGED <<num_rows, pages, session, sound, header, saved, doubled>>
      BY <1>4 DEF InsertNoPage, Ready, Unsaved
    <2>2. Distinct(pages, LiveSlots, next_id + 1, doubled)
      BY <1>0, <1>r, <1>i, <2>1, StillDistinct
    <2>3. LiveSlots' = LiveSlots
      BY <2>1 DEF LiveSlots
    <2> QED BY <1>s, <2>1, <2>2, <2>3 DEF IdsInv, IdsUnique
  <1>5. ASSUME NEW v \in Values, InsertRow(v)
        PROVE  IdsInv'
    <2>1. /\ session = "open" /\ sound /\ num_rows' = num_rows + 1 /\ next_id' = next_id + 1
          /\ UNCHANGED <<session, sound, header, saved, doubled>>
      BY <1>5 DEF InsertRow, Ready, Unsaved
    <2>2. /\ \A s \in LiveSlots : pages'[s] = pages[s]
          /\ pages'[num_rows].id = next_id
      <3>1. /\ \A s \in LiveSlots : pages'[s] = pages[s]
            /\ pages'[num_rows] = [id |-> next_id, val |-> v]
        BY <1>5, InsertEffect
      <3> QED BY <3>1
    <2>3. LiveSlots' \subseteq LiveSlots \cup {num_rows}
      <3>1. ASSUME NEW s \in Slots, s < num_rows + 1
            PROVE  s < num_rows \/ s = num_rows
        <4>1. s \in Nat /\ num_rows \in Nat
          BY <1>0
        <4> QED BY <3>1, <4>1
      <3> QED BY <2>1, <3>1 DEF LiveSlots
    <2>4. Distinct(pages', LiveSlots', next_id + 1, doubled)
      BY <1>0, <1>r, <1>i, <2>1, <2>2, <2>3, AddedDistinct
    <2> QED BY <1>s, <2>1, <2>4 DEF IdsInv, IdsUnique
  <1>6. ASSUME NEW w \in SUBSET (Values \cup {NoValue}), BeginDelete(w)
        PROVE  IdsInv'
    BY <1>6, <1>l DEF BeginDelete, Ready, Unsaved
  <1>7. CASE DeleteSkip
    <2>1. pages' = pages /\ cached' = cached /\ session = "open"
      BY <1>7, SkipEffect, LoopSlots DEF DeleteSkip
    <2> QED BY <1>7, <1>l, <2>1 DEF DeleteSkip, Unsaved
  <1>8. CASE DeleteLast
    <2>1. pages' = pages /\ num_rows' = num_rows - 1 /\ session = "open"
      BY <1>8, LastEffect, LoopSlots DEF DeleteLast
    <2>2. sound /\ UNCHANGED <<next_id, session, sound, header, saved, doubled>>
      BY <1>8 DEF DeleteLast, Unsaved
    <2>3. LiveSlots' \in SUBSET LiveSlots
      BY <1>0, <2>1, ParamAssumption DEF LiveSlots, Slots
    <2>4. Distinct(pages, LiveSlots', next_id, doubled)
      BY <1>0, <1>r, <1>i, <2>1, <2>2, <2>3, StillDistinct
    <2> QED BY <1>s, <2>1, <2>2, <2>4 DEF IdsInv, IdsUnique
  <1>m. ASSUME MoveLast
        PROVE  /\ session = "open" /\ Last \in LiveSlots /\ Last = num_rows - 1
               /\ Moved(pages, pages', LiveSlots, stmt.index, Last)
    <2>1. /\ pages' = [pages EXCEPT ![stmt.index] = pages[Last]] /\ InLoop
      BY <1>m, MoveEffect DEF MoveLast
    <2>2. session = "open" /\ Last \in Slots
      BY <2>1, LoopSlots
    <2> QED BY <1>0, <1>r, <2>1, <2>2 DEF LiveSlots, Last, Moved
  <1>9. CASE DeleteMove
    <2>1. /\ MoveLast /\ num_rows' = num_rows - 1 /\ sound
          /\ UNCHANGED <<next_id, session, sound, header, saved, doubled>>
      BY <1>9 DEF DeleteMove, Unsaved, MoveLast
    <2>2. LiveSlots' \subseteq LiveSlots /\ Last \notin LiveSlots'
      <3>1. ASSUME NEW s \in Slots, s < num_rows - 1
            PROVE  s < num_rows
        <4>1. s \in Nat /\ num_rows \in Nat
          BY <1>0
        <4> QED BY <3>1, <4>1
      <3>2. Last = num_rows - 1 /\ ~(Last < Last)
        BY <1>0, <1>m, <2>1
      <3> QED BY <2>1, <3>1, <3>2 DEF LiveSlots
    <2>3. Distinct(pages, LiveSlots, next_id, doubled) /\ doubled \subseteq doubled
      BY <1>i, <1>m, <2>1
    <2>5. Last \in LiveSlots /\ Moved(pages, pages', LiveSlots, stmt.index, Last)
      BY <1>m, <2>1
    <2> DEFINE T == LiveSlots'
               next == pages'
    <2> HIDE DEF T, next
    <2>6. T \subseteq LiveSlots /\ Moved(pages, next, LiveSlots, stmt.index, Last)
          /\ (Last \notin T \/ pages[Last] \in doubled)
      BY <2>2, <2>5 DEF T, next
    <2>7. Distinct(next, T, next_id, doubled)
      BY <2>3, <2>5, <2>6, MovedDistinct
    <2>4. Distinct(pages', LiveSlots', next_id, doubled)
      BY <2>7 DEF T, next
    <2> QED BY <1>s, <2>1, <2>4 DEF IdsInv, IdsUnique
  <1>15. CASE DeleteAborts
    <2>1. /\ MoveLast
          /\ UNCHANGED <<num_rows, next_id, session, header, saved>>
      BY <1>15 DEF DeleteAborts
    <2>2. sound /\ doubled' = doubled \cup {pages[Last]}
      BY <1>15, AbortEffect
    <2>3. LiveSlots' = LiveSlots /\ doubled \subseteq doubled' /\ pages[Last] \in doubled'
      BY <2>1, <2>2 DEF LiveSlots
    <2>7. Distinct(pages, LiveSlots, next_id, doubled) /\ Last \in LiveSlots
          /\ Moved(pages, pages', LiveSlots, stmt.index, Last)
      BY <1>i, <1>m, <2>1, <2>2
    <2> DEFINE E == doubled'
               next == pages'
    <2> HIDE DEF E, next
    <2>8. /\ LiveSlots \subseteq LiveSlots /\ doubled \subseteq E
          /\ Moved(pages, next, LiveSlots, stmt.index, Last)
          /\ (Last \notin LiveSlots \/ pages[Last] \in E)
      BY <2>3, <2>7 DEF E, next
    <2>9. Distinct(next, LiveSlots, next_id, E)
      BY <2>7, <2>8, MovedDistinct
    <2>4. Distinct(pages', LiveSlots, next_id, doubled')
      BY <2>9 DEF E, next
    <2>5. Distinct(saved, SavedSlots, header.next_id, doubled')
      BY <1>i, <2>2, <2>3 DEF Distinct
    <2>6. SavedSlots' = SavedSlots
      BY <2>1 DEF SavedSlots
    <2> QED BY <2>1, <2>3, <2>4, <2>5, <2>6 DEF IdsInv, IdsUnique, SavedIdsUnique
  <1>10. CASE DeleteEnd
    BY <1>10, <1>l DEF DeleteEnd, AfterLoop, Unsaved
  <1>11. CASE CloseBegin
    <2>1. session = "open" /\ session' = "closing" /\ sound /\ doubled' = doubled
      BY <1>0, <1>11, CloseBeginSound DEF CloseBegin, Ready
    <2>2. CASE header' = [num_rows |-> num_rows, next_id |-> next_id]
               /\ saved' = Prefix(pages, num_rows)
      <3>1. SavedSlots' = LiveSlots /\ header'.next_id = next_id
        BY <2>2 DEF SavedSlots, LiveSlots
      <3>2. \A s \in LiveSlots : saved'[s] = pages[s]
        BY <2>2 DEF LiveSlots, Prefix
      <3>3. Distinct(saved', LiveSlots, next_id, doubled)
        BY <1>i, <2>1, <3>2 DEF Distinct
      <3> QED BY <2>1, <3>1, <3>3 DEF IdsInv, IdsUnique, SavedIdsUnique
    <2>3. CASE header' = header /\ saved' = saved
      BY <1>s, <2>1, <2>3 DEF IdsInv, IdsUnique
    <2> QED BY <1>0, <1>11, <2>2, <2>3, CloseBeginSound
  <1>12. CASE CloseFlush \/ CloseEnd \/ Leave \/ OpenDangles
    <2>1. session' # "open" /\ sound /\ UNCHANGED <<header, saved, doubled>>
      <3>1. CASE CloseFlush
        BY <3>1 DEF CloseFlush
      <3>2. CASE CloseEnd
        BY <3>2 DEF CloseEnd
      <3>3. CASE Leave
        BY <1>0, <3>3, LeaveSound DEF Leave
      <3>4. CASE OpenDangles
        BY <3>4 DEF OpenDangles
      <3> QED BY <1>12, <3>1, <3>2, <3>3, <3>4
    <2> QED BY <1>s, <2>1 DEF IdsInv, IdsUnique
  <1>13. CASE OpenRestores
    <2>1. /\ session = "closed" /\ session' = "open" /\ num_rows' = header.num_rows
          /\ next_id' = header.next_id /\ sound
          /\ UNCHANGED <<file, header, saved, sound, doubled>>
          /\ pages' = [s \in Slots |-> IF PageOf(s) \in cached' THEN file[s] ELSE BlankRow]
      BY <1>13 DEF OpenRestores
    <2>2. LiveSlots' = SavedSlots
      BY <2>1 DEF LiveSlots, SavedSlots
    <2>3. \A s \in SavedSlots : PageOf(s) \in cached'
      BY <1>0, <2>1, CoreNext DEF SavedSlots, CoreInv, LivePagesCached
    <2>4. \A s \in SavedSlots : pages'[s] = saved[s]
      BY <2>1, <2>3 DEF SavedKept, SavedSlots
    <2>5. Distinct(pages', SavedSlots, header.next_id, doubled)
      BY <1>i, <2>1, <2>4 DEF Distinct
    <2> QED BY <1>s, <2>1, <2>2, <2>5 DEF IdsInv, IdsUnique
  <1>14. CASE UNCHANGED vars
    <2>1. LiveSlots' = LiveSlots /\ sound
      BY <1>14 DEF vars, LiveSlots
    <2> QED BY <1>14, <1>i, <1>s, <2>1 DEF vars, IdsInv, IdsUnique
  <1>16. ~UseFreed
    BY DEF UseFreed, Sound
  <1> QED BY <1>2, <1>4, <1>5, <1>6, <1>7, <1>8, <1>9, <1>10, <1>11, <1>12,
             <1>13, <1>14, <1>15, <1>16, UndefinedStays
          DEF Next, DeleteStep, CloseStep, CloseAborts, MetaExit, Crash

\* The inductive invariant of TableRows.
THEOREM InvariantHolds == Spec => []IInv
  <1>1. Init => IInv
    BY CoreInit, LoopInit, SavedInit, IdsInit DEF IInv, LoopInv, IdsInv
  <1>2. IInv /\ [Next]_vars => IInv'
    BY CoreNext, LoopNext, SavedNext, IdsNext DEF IInv, LoopInv, IdsInv
  <1> QED BY <1>1, <1>2, PTL DEF Spec

\* Rows of a table have different ids, through any number of sessions.
THEOREM IdsAreUnique == Spec => []IdsUnique
  <1>1. IInv => IdsUnique
    BY DEF IInv
  <1> QED BY <1>1, InvariantHolds, PTL

\* Between sessions the file holds the rows of the last header store.
THEOREM SavedIsInFile == Spec => []SavedInFile
  <1>1. IInv => SavedInFile
    <2> SUFFICES ASSUME IInv, session = "closed", sound
                 PROVE  Prefix(file, header.num_rows) = saved
      BY DEF SavedInFile
    <2>1. /\ saved = Prefix(saved, header.num_rows)
          /\ \A s \in SavedSlots : file[s] = saved[s]
      BY DEF IInv, SavedKept
    <2>2. Prefix(file, header.num_rows) = Prefix(saved, header.num_rows)
      BY <2>1 DEF Prefix, SavedSlots
    <2> QED BY <2>1, <2>2
  <1> QED BY <1>1, InvariantHolds, PTL

-----------------------------------------------------------------------------
(* What a step may take away: NoCollateralLoss                             *)

KeepsOthers ==
  session = "open" /\ session' = "open" =>
    \A s \in LiveSlots : pages[s] \in LiveRows' \/
      (stmt # Idle /\ pages[s].val \in stmt.where)

LEMMA RowsKept ==
  ASSUME LiveSlots \subseteq LiveSlots', \A s \in LiveSlots : pages'[s] = pages[s]
  PROVE  \A s \in LiveSlots : pages[s] \in LiveRows'
  BY DEF LiveRows

LEMMA KeepsOthersNext == CoreInv /\ [Next]_vars => KeepsOthers
  <1> SUFFICES ASSUME CoreInv, [Next]_vars, session = "open", session' = "open"
               PROVE  KeepsOthers
    BY DEF KeepsOthers
  <1>0. num_rows \in Nat /\ pages \in [Slots -> Row]
    BY DEF CoreInv, TypeOK
  <1>1. CASE UNCHANGED <<num_rows, pages>>
    BY <1>1, RowsKept DEF KeepsOthers, LiveSlots
  <1>2. ASSUME NEW v \in Values, InsertRow(v)
        PROVE  KeepsOthers
    <2>1. \A s \in LiveSlots : pages'[s] = pages[s]
      BY <1>2, InsertEffect
    <2>2. LiveSlots \subseteq LiveSlots'
      BY <1>0, <1>2, ParamAssumption DEF InsertRow, LiveSlots, Slots
    <2> QED BY <2>1, <2>2, RowsKept DEF KeepsOthers
  <1>3. CASE DeleteSkip
    <2>1. UNCHANGED <<num_rows, pages>>
      BY <1>3, SkipEffect DEF DeleteSkip
    <2> QED BY <1>1, <2>1
  <1>4. CASE DeleteLast
    <2>1. /\ stmt # Idle /\ stmt.index = Last /\ pages[stmt.index].val \in stmt.where
          /\ pages' = pages /\ num_rows' = Last
      BY <1>4, LastEffect DEF DeleteLast, InLoop, Last
    <2>2. \A s \in LiveSlots : s = Last \/ s \in LiveSlots'
      BY <1>0, <2>1, ParamAssumption DEF LiveSlots, Last, Slots
    <2> QED BY <2>1, <2>2 DEF KeepsOthers, LiveRows
  <1>5. CASE MoveLast /\ num_rows' \in {num_rows, Last}
    <2>1. /\ stmt # Idle /\ stmt.index < Last /\ pages[stmt.index].val \in stmt.where
          /\ pages' = [pages EXCEPT ![stmt.index] = pages[Last]]
      BY <1>5, MoveEffect DEF MoveLast, InLoop
    <2>2. stmt.index \in Slots /\ stmt.index \in Nat /\ Last \in Nat
      BY <1>5, LoopSlots DEF MoveLast
    <2>3. stmt.index \in LiveSlots'
      BY <1>0, <1>5, <2>1, <2>2 DEF LiveSlots, Last
    <2>4. pages'[stmt.index] = pages[Last]
      BY <1>0, <2>1, <2>2
    <2>5. pages[Last] \in LiveRows'
      BY <2>3, <2>4 DEF LiveRows
    <2>6. ASSUME NEW s \in LiveSlots, s # stmt.index, s # Last
          PROVE  pages[s] \in LiveRows'
      <3>1. s \in LiveSlots'
        BY <1>0, <1>5, <2>6, ParamAssumption DEF LiveSlots, Last, Slots
      <3>2. pages'[s] = pages[s]
        BY <1>0, <2>1, <2>6 DEF LiveSlots
      <3> QED BY <3>1, <3>2 DEF LiveRows
    <2> QED BY <2>1, <2>5, <2>6 DEF KeepsOthers
  <1>6. DeleteMove \/ DeleteAborts => MoveLast /\ num_rows' \in {num_rows, Last}
    BY DEF DeleteMove, DeleteAborts, Last
  <1>7. InsertRefused \/ InsertNoPage \/ DeleteEnd => UNCHANGED <<num_rows, pages>>
    BY DEF InsertRefused, InsertNoPage, DeleteEnd
  <1>8. ASSUME NEW w \in SUBSET (Values \cup {NoValue}), BeginDelete(w)
        PROVE  UNCHANGED <<num_rows, pages>>
    BY <1>8 DEF BeginDelete
  <1>9. /\ ~CloseBegin /\ ~CloseFlush /\ ~CloseEnd /\ ~Leave
        /\ ~OpenRestores /\ ~OpenDangles /\ ~UseFreed /\ ~Undefined
    BY DEF CloseBegin, CloseFlush, CloseEnd, Leave, OpenRestores, OpenDangles, UseFreed, Undefined
  <1>10. UNCHANGED vars => UNCHANGED <<num_rows, pages>>
    BY DEF vars
  <1> QED BY <1>1, <1>2, <1>3, <1>4, <1>5, <1>6, <1>7, <1>8, <1>9, <1>10
          DEF Next, DeleteStep, CloseStep, CloseAborts, MetaExit, Crash

\* A statement loses only rows that match the DELETE it carries out, also
\* when it fails half-way.
THEOREM NothingElseLost == Spec => NoCollateralLoss
  <1>1. CoreInv /\ [Next]_vars =>
          [session = "open" /\ session' = "open" =>
             \A s \in LiveSlots : pages[s] \in LiveRows' \/
               (stmt # Idle /\ pages[s].val \in stmt.where)]_vars
    BY KeepsOthersNext DEF KeepsOthers
  <1> QED BY CoreInit, CoreNext, <1>1, PTL DEF Spec, NoCollateralLoss

-----------------------------------------------------------------------------

-----------------------------------------------------------------------------
(* The promise of RowSet: RefinesRowSet                                    *)

\* Between sessions nothing is left to be made good by a close.
Quiet == session \in {"closed", "dangling"} => ~touched

LEMMA QuietNext == CoreInv /\ Quiet /\ [Next]_vars => Quiet'
  BY DEF Quiet, CoreInv, StmtInSession, Next, vars, Unsaved, Ready, InLoop, AfterLoop,
         InsertRefused, InsertNoPage, InsertRow, BeginDelete, DeleteStep, DeleteSkip,
         DeleteLast, MoveLast, DeleteMove, DeleteAborts, DeleteEnd, CloseBegin, CloseStep,
         CloseFlush, CloseEnd, CloseAborts, MetaExit, Crash, Leave, OpenRestores, OpenDangles,
         UseFreed, Undefined

\* What RowSet sees of a sound table while a session is open, and otherwise.
LEMMA StoredStays ==
  ASSUME UNCHANGED <<header, saved>>
  PROVE  Stored' = Stored
  BY DEF Stored, SavedRows, SavedSlots

LEMMA LiveStays ==
  ASSUME UNCHANGED <<num_rows, pages>>
  PROVE  LiveRows' = LiveRows
  BY DEF LiveRows, LiveSlots

\* The table seen by RowSet depends on these parts of the state; outside
\* open sessions on the last ones alone.
LEMMA SameView ==
  ASSUME UNCHANGED <<header, saved, doubled, sound>>,
         \/ UNCHANGED <<num_rows, next_id, pages, session, stmt, touched>>
         \/ /\ session \in {"closing", "closed"} /\ session' \in {"closing", "closed"}
            /\ UNCHANGED <<stmt, touched>>
  PROVE  UNCHANGED Promise!vars
  <1>1. Stored' = Stored
    BY StoredStays
  <1>2. CASE UNCHANGED <<num_rows, next_id, pages, session, stmt, touched>>
    <2>1. Shown' = Shown
      BY <1>1, <1>2, LiveStays DEF Shown
    <2> QED BY <1>1, <1>2, <2>1 DEF Promise!vars, Nothing
  <1>3. CASE /\ session \in {"closing", "closed"} /\ session' \in {"closing", "closed"}
             /\ UNCHANGED <<stmt, touched>>
    <2>1. Shown' = Shown
      BY <1>1, <1>3 DEF Shown
    <2> QED BY <1>1, <1>3, <2>1 DEF Promise!vars, Nothing
  <1> QED BY <1>2, <1>3

\* A step that leaves the table without its promise is Damage, or comes after.
LEMMA DamageStep ==
  ASSUME TypeOK, TypeOK', ~sound',
         sound => touched \/ stmt # Idle \/ session = "dangling"
  PROVE  Promise!Next \/ UNCHANGED Promise!vars
  <1>1. CASE sound
    <2>1. Promise!Damage
      BY <1>1 DEF Promise!Damage, Promise!NoDelete, Promise!Empty, Nothing
    <2> QED BY <2>1 DEF Promise!Next
  <1>2. CASE ~sound
    <2>1. sound = FALSE /\ sound' = FALSE
      BY <1>2 DEF TypeOK
    <2>2. ~(sound /\ session = "open") /\ ~(sound /\ session = "open")'
          /\ ~(sound /\ session = "dangling") /\ ~(sound /\ session = "dangling")'
      BY <2>1
    <2>3. (sound => touched) /\ (sound => touched)'
      BY <2>1
    <2> QED BY <2>1, <2>2, <2>3 DEF Promise!vars, Nothing
  <1> QED BY <1>1, <1>2

\* The rows in the slots other than the one a DELETE looks at.
Others == {pages[t] : t \in LiveSlots \ {stmt.index}}

\* Taking out the row of that slot leaves the table without the row, or with
\* the other copy of it, if it was there twice.
LEMMA TakenOut ==
  ASSUME IInv, sound, InLoop, Matches
  PROVE  /\ pages[stmt.index] \in LiveRows /\ pages[stmt.index].val \in stmt.where
         /\ \/ Others = LiveRows \ {pages[stmt.index]}
            \/ Others = LiveRows /\ pages[stmt.index] \in doubled
  <1>1. /\ session = "open" /\ stmt.index \in Slots
        /\ Load({PageOf(stmt.index)}) = pages
    BY LoopSlots DEF IInv
  <1>2. stmt.index \in LiveSlots
    BY <1>1 DEF InLoop, LiveSlots
  <1>3. \A s, t \in LiveSlots : s # t /\ pages[s].id = pages[t].id => pages[s] \in doubled
    BY <1>1 DEF IInv, IdsUnique, Distinct
  <1>4. CASE \E t \in LiveSlots : t # stmt.index /\ pages[t] = pages[stmt.index]
    <2>1. PICK t \in LiveSlots : t # stmt.index /\ pages[t] = pages[stmt.index]
      BY <1>4
    <2>2. pages[stmt.index] \in doubled
      BY <1>2, <1>3, <2>1
    <2>3. Others = LiveRows
      BY <1>2, <2>1 DEF Others, LiveRows
    <2> QED BY <1>1, <1>2, <2>2, <2>3 DEF Matches, LiveRows
  <1>5. CASE \A t \in LiveSlots : t # stmt.index => pages[t] # pages[stmt.index]
    <2>1. Others = LiveRows \ {pages[stmt.index]}
      BY <1>2, <1>5 DEF Others, LiveRows
    <2> QED BY <1>1, <1>2, <2>1 DEF Matches, LiveRows
  <1> QED BY <1>4, <1>5

\* The last row is cut off, or moved into the slot.
LEMMA RemovesOne ==
  ASSUME IInv, InLoop, num_rows' = Last,
         \/ stmt.index = Last /\ pages' = pages
         \/ stmt.index < Last /\ pages' = [pages EXCEPT ![stmt.index] = pages[Last]]
  PROVE  LiveRows' = Others
  <1>1. /\ stmt.index \in Nat /\ Last \in Nat /\ stmt.index \in Slots /\ Last \in Slots
    BY LoopSlots DEF IInv
  <1>2. num_rows \in Nat /\ pages \in [Slots -> Row] /\ Slots \subseteq Nat
    BY ParamAssumption DEF IInv, CoreInv, TypeOK, Slots
  <1>3. stmt.index \in LiveSlots /\ Last \in LiveSlots
    BY <1>1, <1>2 DEF InLoop, LiveSlots, Last
  <1>5. LiveSlots' = LiveSlots \ {Last}
    <2>1. \A s \in Slots : s < Last <=> s < num_rows /\ s # Last
      BY <1>1, <1>2 DEF Last
    <2>2. LiveSlots' = {s \in Slots : s < Last}
      BY DEF LiveSlots
    <2> QED BY <2>1, <2>2 DEF LiveSlots
  <1>6. \A s \in LiveSlots' : pages'[s] = IF s = stmt.index THEN pages[Last] ELSE pages[s]
    BY <1>1, <1>2, <1>5 DEF LiveSlots
  <1>7. ASSUME NEW r PROVE r \in LiveRows' <=> r \in Others
    <2>1. ASSUME r \in LiveRows'
          PROVE  r \in Others
      <3>1. PICK s \in LiveSlots' : r = pages'[s]
        BY <2>1 DEF LiveRows
      <3>2. s \in LiveSlots /\ s # Last
        BY <3>1, <1>5
      <3> QED BY <3>1, <3>2, <1>3, <1>6 DEF Others
    <2>2. ASSUME r \in Others
          PROVE  r \in LiveRows'
      <3>1. PICK s \in LiveSlots : s # stmt.index /\ r = pages[s]
        BY <2>2 DEF Others
      <3>3. CASE s = Last
        <4>1. stmt.index \in LiveSlots' /\ pages'[stmt.index] = r
          BY <1>3, <1>5, <1>6, <3>1, <3>3
        <4> QED BY <4>1 DEF LiveRows
      <3>4. CASE s # Last
        <4>1. s \in LiveSlots' /\ pages'[s] = r
          BY <1>5, <1>6, <3>1, <3>4
        <4> QED BY <4>1 DEF LiveRows
      <3> QED BY <3>3, <3>4
    <2> QED BY <2>1, <2>2
  <1> QED BY <1>7

\* When the DELETE fails there, the last row stays as well.
LEMMA LeavesTwice ==
  ASSUME IInv, DeleteAborts
  PROVE  LiveRows' = Others /\ pages[Last] \in Others
  <1>1. /\ MoveLast /\ num_rows' = num_rows
        /\ stmt.index < Last /\ pages' = [pages EXCEPT ![stmt.index] = pages[Last]]
    BY MoveEffect DEF DeleteAborts, IInv
  <1>2. /\ stmt.index \in Nat /\ Last \in Nat /\ stmt.index \in Slots /\ Last \in Slots
    BY <1>1, LoopSlots DEF IInv, MoveLast
  <1>3. num_rows \in Nat /\ pages \in [Slots -> Row] /\ Slots \subseteq Nat
    BY ParamAssumption DEF IInv, CoreInv, TypeOK, Slots
  <1>4. stmt.index \in LiveSlots /\ Last \in LiveSlots /\ Last # stmt.index
    BY <1>1, <1>2, <1>3 DEF LiveSlots, Last
  <1>5. LiveSlots' = LiveSlots
    BY <1>1 DEF LiveSlots
  <1>6. \A s \in LiveSlots : pages'[s] = IF s = stmt.index THEN pages[Last] ELSE pages[s]
    BY <1>1, <1>2, <1>3 DEF LiveSlots
  <1>7. pages[Last] \in Others
    BY <1>4 DEF Others
  <1>8. LiveRows' = Others
    BY <1>4, <1>5, <1>6 DEF LiveRows, Others
  <1> QED BY <1>7, <1>8

\* What has to be known of a state for its steps to be steps of RowSet.
PromiseInv == IInv /\ Quiet

LEMMA PromiseInit == Init => Promise!Init
  <1> SUFFICES ASSUME Init PROVE Promise!Init
    OBVIOUS
  <1>1. LiveSlots = {} /\ SavedSlots = {}
    BY ParamAssumption DEF Init, LiveSlots, SavedSlots, Slots
  <1>2. LiveRows = {} /\ SavedRows = {}
    BY <1>1 DEF LiveRows, SavedRows
  <1> QED BY <1>2 DEF Init, Shown, Stored, Promise!Init, Promise!NoDelete, Promise!Empty

\* The steps that keep the promise, one after the other.
LEMMA PromiseKept ==
  ASSUME PromiseInv, PromiseInv', Next, sound, sound'
  PROVE  Promise!Next \/ UNCHANGED Promise!vars
  <1>0. /\ CoreInv /\ TypeOK /\ TypeOK'
        /\ num_rows \in Nat /\ header.num_rows \in Nat /\ pages \in [Slots -> Row]
        /\ touched \in BOOLEAN /\ touched' \in BOOLEAN /\ Slots \subseteq Nat
    BY ParamAssumption DEF PromiseInv, IInv, CoreInv, TypeOK, Slots
  <1>b. sound = TRUE /\ sound' = TRUE
    BY <1>0 DEF TypeOK
  <1>1. UNCHANGED <<header, saved>> => Stored' = Stored
    BY StoredStays
  <1>2. UNCHANGED <<num_rows, pages>> => LiveRows' = LiveRows
    BY LiveStays
  <1>3. CASE InsertRefused
    BY <1>3, SameView DEF InsertRefused, Unsaved
  <1>a. ASSUME touched' \in {touched, TRUE}
        PROVE  (sound => touched)' \in {sound => touched, TRUE}
    <2>1. CASE touched' = TRUE
      BY <2>1
    <2>2. CASE touched = FALSE /\ touched' = FALSE
      <3>1. ~(sound => touched) /\ ~(sound => touched)'
        BY <2>2
      <3>2. (sound => touched)' = (sound => touched)
        BY <3>1
      <3> QED BY <3>2
    <2> QED BY <1>0, <1>a, <2>1, <2>2
  <1>4. CASE InsertNoPage
    <2>1. Promise!SpendId
      BY <1>1, <1>2, <1>4
         DEF InsertNoPage, Ready, Unsaved, Shown, Promise!SpendId, Promise!Ready, Promise!NoDelete
    <2> QED BY <2>1 DEF Promise!Next
  <1>5. ASSUME NEW v \in Values, InsertRow(v)
        PROVE  Promise!Next
    <2> DEFINE row == [id |-> next_id, val |-> v]
    <2>1. /\ num_rows \in Slots /\ pages'[num_rows] = row
          /\ \A s \in LiveSlots : pages'[s] = pages[s]
      BY <1>0, <1>5, InsertEffect
    <2>2. num_rows' = num_rows + 1
      BY <1>5 DEF InsertRow
    <2>3. LiveSlots' = LiveSlots \cup {num_rows}
      <3>1. \A s \in Slots : s < num_rows + 1 <=> s < num_rows \/ s = num_rows
        BY <1>0
      <3>2. LiveSlots' = {s \in Slots : s < num_rows + 1}
        BY <2>2 DEF LiveSlots
      <3> QED BY <2>1, <3>1, <3>2 DEF LiveSlots
    <2>4. LiveRows' = LiveRows \cup {row}
      BY <2>1, <2>3 DEF LiveRows
    <2>5. /\ Ready /\ next_id' = next_id + 1 /\ touched' \in {touched, TRUE}
          /\ UNCHANGED <<stmt, header, session, saved, sound, doubled>>
      BY <1>5 DEF InsertRow, Unsaved
    <2>6. Promise!Insert(v)
      BY <1>1, <1>a, <2>2, <2>4, <2>5
         DEF Ready, Shown, Promise!Insert, Promise!Ready, Promise!NoDelete
    <2> QED BY <2>6 DEF Promise!Next
  <1>6. ASSUME NEW w \in SUBSET (Values \cup {NoValue}), BeginDelete(w)
        PROVE  Promise!Next
    <2>1. stmt' # Idle /\ stmt'.where = w
      BY <1>6 DEF BeginDelete, Idle
    <2>2. Promise!BeginDelete(w)
      BY <1>1, <1>2, <1>6, <2>1
         DEF BeginDelete, Ready, Unsaved, Shown, Promise!BeginDelete, Promise!Ready,
             Promise!NoDelete, Promise!Condition
    <2> QED BY <2>2 DEF Promise!Next
  <1>7. CASE DeleteSkip
    <2>1. /\ session = "open" /\ stmt \in Deleting /\ pages' = pages
          /\ UNCHANGED <<num_rows, next_id, touched, header, session, saved, sound, doubled>>
          /\ stmt' = [stmt EXCEPT !.index = @ + 1]
      BY <1>0, <1>7, LoopSlots, SkipEffect DEF DeleteSkip, Unsaved
    <2>2. stmt' # Idle /\ stmt # Idle /\ stmt'.where = stmt.where
      BY <2>1 DEF Deleting, Idle
    <2> QED BY <1>1, <1>2, <2>1, <2>2 DEF Shown, Promise!vars
  <1>w. ASSUME InLoop, Matches, session = "open", stmt \in Deleting
        PROVE  Others \in Promise!Without
    <2>1. stmt # Idle
      BY <1>w DEF Deleting, Idle
    <2>2. /\ pages[stmt.index] \in LiveRows /\ pages[stmt.index].val \in stmt.where
          /\ \/ Others = LiveRows \ {pages[stmt.index]}
             \/ Others = LiveRows /\ pages[stmt.index] \in doubled
      BY <1>w, TakenOut DEF PromiseInv
    <2> QED BY <1>w, <2>1, <2>2 DEF Promise!Without, Shown
  <1>8. ASSUME InLoop, Matches, LiveRows' = Others, num_rows' = num_rows - 1,
               session = "open", stmt \in Deleting, touched' = TRUE,
               stmt' = [stmt EXCEPT !.deleted_any = TRUE],
               UNCHANGED <<next_id, header, session, saved, doubled>>
        PROVE  Promise!Next
    <2>1. stmt' # Idle /\ stmt # Idle /\ stmt'.where = stmt.where
      BY <1>8 DEF Deleting, Idle
    <2>2. Others \in Promise!Without
      BY <1>8, <1>w
    <2>3. Promise!Remove
      BY <1>1, <1>8, <2>1, <2>2
         DEF Promise!Remove, Promise!InDelete, Promise!NoDelete, Shown
    <2> QED BY <2>3 DEF Promise!Next
  <1>9. CASE DeleteLast
    <2>1. /\ InLoop /\ Matches /\ num_rows' = Last /\ pages' = pages /\ stmt.index = Last
          /\ session = "open" /\ stmt \in Deleting /\ Last = num_rows - 1
      BY <1>0, <1>9, LastEffect, LoopSlots DEF DeleteLast, Last
    <2>2. LiveRows' = Others
      BY <2>1, RemovesOne DEF PromiseInv
    <2> QED BY <1>8, <1>9, <2>1, <2>2 DEF DeleteLast, Unsaved
  <1>10. CASE DeleteMove
    <2>1. /\ InLoop /\ Matches /\ num_rows' = Last /\ stmt.index < Last
          /\ pages' = [pages EXCEPT ![stmt.index] = pages[Last]]
          /\ session = "open" /\ stmt \in Deleting /\ Last = num_rows - 1
      BY <1>0, <1>10, MoveEffect, LoopSlots DEF DeleteMove, MoveLast, Last
    <2>2. LiveRows' = Others
      BY <2>1, RemovesOne DEF PromiseInv
    <2> QED BY <1>8, <1>10, <2>1, <2>2 DEF DeleteMove, MoveLast, Unsaved
  <1>18. CASE DeleteAborts
    <2>1. /\ InLoop /\ Matches /\ session = "open" /\ stmt \in Deleting
          /\ stmt' = Idle /\ touched' = TRUE
          /\ UNCHANGED <<num_rows, next_id, header, session, saved>>
      BY <1>0, <1>18, LoopSlots DEF DeleteAborts, MoveLast
    <2>2. stmt # Idle
      BY <2>1 DEF Deleting, Idle
    <2>3. LiveRows' = Others /\ pages[Last] \in Others /\ doubled' = doubled \cup {pages[Last]}
      BY <1>0, <1>18, AbortEffect, LeavesTwice DEF PromiseInv
    <2>4. Others \in Promise!Without
      BY <1>w, <2>1
    <2>5. Promise!FailDelete
      BY <1>1, <2>1, <2>2, <2>3, <2>4
         DEF Promise!FailDelete, Promise!InDelete, Promise!NoDelete, Shown
    <2> QED BY <2>5 DEF Promise!Next
  <1>11. CASE DeleteEnd
    <2>1. /\ session = "open" /\ stmt \in Deleting /\ stmt # Idle /\ stmt.index >= num_rows
          /\ stmt' = Idle
      BY <1>0, <1>11 DEF DeleteEnd, AfterLoop, TypeOK
    <2>2. /\ touched' \in {touched, TRUE}
          /\ UNCHANGED <<num_rows, next_id, pages, header, session, saved, sound, doubled>>
      BY <1>0, <1>11 DEF DeleteEnd, Unsaved
    <2>3. \A s \in LiveSlots : pages[s].val \notin stmt.where
      <3>1. stmt.index \in Nat
        BY <2>1 DEF Deleting
      <3>2. \A s \in LiveSlots : s < stmt.index
        BY <1>0, <2>1, <3>1 DEF LiveSlots
      <3> QED BY <2>1, <3>2 DEF PromiseInv, IInv, DeleteScanned
    <2>4. \A r \in LiveRows : r.val \notin stmt.where
      BY <2>3 DEF LiveRows
    <2>5. Promise!EndDelete
      BY <1>1, <1>2, <1>a, <2>1, <2>2, <2>4
         DEF Promise!EndDelete, Promise!InDelete, Promise!NoDelete, Shown
    <2> QED BY <2>5 DEF Promise!Next
  <1>12. CASE CloseBegin
    <2>1. /\ session = "open" /\ session' = "closing" /\ stmt = Idle
          /\ UNCHANGED <<num_rows, next_id, pages, stmt, touched, doubled>>
      BY <1>0, <1>12, CloseBeginSound DEF CloseBegin, Ready
    <2>2. CASE header' = [num_rows |-> num_rows, next_id |-> next_id]
               /\ saved' = Prefix(pages, num_rows)
      <3>1. header'.num_rows = num_rows /\ header'.next_id = next_id
        BY <2>2
      <3>2. \A s \in LiveSlots : saved'[s] = pages[s]
        BY <2>2 DEF LiveSlots, Prefix
      <3>3. SavedSlots' = LiveSlots
        BY <3>1 DEF SavedSlots, LiveSlots
      <3>4. SavedRows' = LiveRows
        BY <3>2, <3>3 DEF SavedRows, LiveRows
      <3>5. Stored' = [rows |-> LiveRows, size |-> num_rows, next |-> next_id]
        BY <3>1, <3>4 DEF Stored
      <3>6. Promise!Close
        BY <2>1, <3>5 DEF Promise!Close, Promise!Ready, Promise!NoDelete, Shown
      <3> QED BY <3>6 DEF Promise!Next
    <2>3. CASE header' = header /\ saved' = saved /\ ~touched
      <3>1. Promise!Lose
        BY <1>1, <2>1, <2>3 DEF Promise!Lose, Promise!NoDelete, Shown
      <3> QED BY <3>1 DEF Promise!Next
    <2> QED BY <1>0, <1>12, <2>2, <2>3, CloseBeginSound
  <1>13. CASE CloseFlush
    BY <1>13, SameView DEF CloseFlush
  <1>14. CASE CloseEnd
    <2>1. Promise!Closed
      BY <1>1, <1>14 DEF CloseEnd, Promise!Closed, Promise!NoDelete, Shown
    <2> QED BY <2>1 DEF Promise!Next
  <1>15. CASE Leave
    <2>1. /\ session' = "closed" /\ stmt' = Idle /\ touched' = FALSE /\ touched = FALSE
          /\ UNCHANGED <<header, saved, doubled>>
      BY <1>0, <1>15, LeaveSound DEF Leave
    <2>2. Promise!Lose
      BY <1>1, <2>1 DEF Promise!Lose, Promise!NoDelete, Shown
    <2> QED BY <2>2 DEF Promise!Next
  <1>16. CASE OpenRestores
    <2>1. /\ session = "closed" /\ session' = "open" /\ num_rows' = header.num_rows
          /\ next_id' = header.next_id
          /\ UNCHANGED <<file, header, stmt, saved, touched, doubled>>
          /\ pages' = [s \in Slots |-> IF PageOf(s) \in cached' THEN file[s] ELSE BlankRow]
      BY <1>16 DEF OpenRestores
    <2>2. stmt = Idle /\ touched = FALSE
      BY <1>0, <2>1 DEF PromiseInv, Quiet, CoreInv, StmtInSession
    <2>3. LiveSlots' = SavedSlots
      BY <2>1 DEF LiveSlots, SavedSlots
    <2>4. \A s \in SavedSlots : PageOf(s) \in cached'
      BY <1>0, <2>1 DEF SavedSlots, PromiseInv, IInv, CoreInv, LivePagesCached
    <2>5. \A s \in SavedSlots : pages'[s] = saved[s]
      BY <2>1, <2>4 DEF PromiseInv, IInv, SavedKept, SavedSlots
    <2>6. LiveRows' = SavedRows
      BY <2>3, <2>5 DEF LiveRows, SavedRows
    <2>7. Promise!Open
      BY <1>1, <2>1, <2>2, <2>6 DEF Promise!Open, Shown, Stored
    <2> QED BY <2>7 DEF Promise!Next
  <1>17. CASE OpenDangles
    <2>1. /\ session = "closed" /\ session' = "dangling"
          /\ UNCHANGED <<header, saved, doubled, stmt, touched>>
      BY <1>17 DEF OpenDangles
    <2>2. stmt = Idle /\ touched = FALSE
      BY <1>0, <2>1 DEF PromiseInv, Quiet, CoreInv, StmtInSession
    <2>3. Promise!Open
      BY <1>1, <2>1, <2>2 DEF Promise!Open, Shown
    <2> QED BY <2>3 DEF Promise!Next
  <1>19. UseFreed => ~sound'
    BY DEF UseFreed, Sound
  <1>20. CASE Undefined
    BY <1>20, SameView DEF Undefined, vars
  <1> QED BY <1>3, <1>4, <1>5, <1>6, <1>7, <1>9, <1>10, <1>11, <1>12, <1>13, <1>14,
             <1>15, <1>16, <1>17, <1>18, <1>19, <1>20
          DEF Next, DeleteStep, CloseStep, CloseAborts, MetaExit, Crash

\* The steps that may end the promise, and what goes before them.
LEMMA SoundStays ==
  ASSUME PromiseInv, Next
  PROVE  /\ ~sound => ~sound'
         /\ sound /\ ~sound' => touched \/ stmt # Idle \/ session = "dangling"
  <1>1. TypeOK
    BY DEF PromiseInv, IInv, CoreInv
  <1>2. CASE CloseBegin \/ Leave \/ UseFreed
    <2>1. \E rows : Sound(TRUE, rows) \/ Sound(~touched, rows)
                    \/ (session = "dangling" /\ Sound(FALSE, rows))
      BY <1>2 DEF CloseBegin, Leave, UseFreed
    <2> QED BY <1>1, <2>1 DEF Sound, TypeOK
  <1>3. CASE DeleteAborts
    <2>1. \E rows : Sound(TRUE, rows)
      BY <1>3 DEF DeleteAborts
    <2> QED BY <1>1, <2>1 DEF Sound, TypeOK
  <1>4. CASE ~(CloseBegin \/ Leave \/ UseFreed \/ DeleteAborts)
    <2>1. sound' = sound
      BY <1>4 DEF Next, InsertRefused, InsertNoPage, InsertRow, BeginDelete, DeleteStep,
         DeleteSkip, DeleteLast, DeleteMove, DeleteEnd, CloseStep, CloseFlush, CloseEnd,
         CloseAborts, MetaExit, Crash, OpenRestores, OpenDangles, Unsaved, Undefined, vars
    <2> QED BY <2>1
  <1> QED BY <1>2, <1>3, <1>4

\* A table keeps the promise of RowSet: whatever statements, failures and
\* endings a session has, its rows grow by fresh ids, lose what a DELETE asks
\* for, and come back as the last close stored them; a DELETE whose flush
\* fails leaves one row twice and nothing else, also for the close after it.
THEOREM ImplementsRowSet == Spec => RefinesRowSet
  <1>1. Init => PromiseInv /\ Promise!Init
    BY CoreInit, LoopInit, SavedInit, IdsInit, PromiseInit
       DEF PromiseInv, IInv, LoopInv, IdsInv, Quiet, Init
  <1>2. PromiseInv /\ [Next]_vars => PromiseInv'
    BY CoreNext, LoopNext, SavedNext, IdsNext, QuietNext DEF PromiseInv, IInv, LoopInv, IdsInv
  <1>3. PromiseInv /\ PromiseInv' /\ [Next]_vars => [Promise!Next]_(Promise!vars)
    <2> SUFFICES ASSUME PromiseInv, PromiseInv', [Next]_vars
                 PROVE  Promise!Next \/ UNCHANGED Promise!vars
      OBVIOUS
    <2>1. CASE UNCHANGED vars
      BY <2>1, SameView DEF vars
    <2>2. CASE Next /\ sound'
      BY <2>2, SoundStays, PromiseKept
    <2>3. CASE Next /\ ~sound'
      <3>1. TypeOK /\ TypeOK'
        BY DEF PromiseInv, IInv, CoreInv
      <3> QED BY <2>3, <3>1, SoundStays, DamageStep
    <2> QED BY <2>1, <2>2, <2>3
  <1> QED BY <1>1, <1>2, <1>3, PTL DEF Spec, RefinesRowSet, Promise!Spec
=============================================================================
