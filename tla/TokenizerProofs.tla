--------------------------- MODULE TokenizerProofs ---------------------------
(***************************************************************************)
(* What is proved of the scanner for every alphabet, length of line and    *)
(* first capacity of at least 2: it reads inside its line and writes       *)
(* inside its buffer, nothing it allocated survives a line, the parser     *)
(* gets one semicolon, at the end, and the tokens account for the line.    *)
(***************************************************************************)
EXTENDS Tokenizer, FiniteSetTheorems, TLAPS

(* Places from which the character at position is the next one read. *)
Reading == {"idle", "init_query", "init_tokens", "scan", "word", "number", "string"}

(* A position that may be read when the characters of q were: not behind   *)
(* them, nor behind a NUL that ends them.                                  *)
Fits(q, p) ==
  /\ p \in Nat /\ p <= Len(q)
  /\ (\E i \in 1..Len(q) : q[i] = NUL) => p < Len(q)

PositionOK ==
  /\ pc \in Reading => Fits(query, position)
  /\ pc = "minus" => Fits(query, position + 1)
  /\ pc \in {"word", "number", "string"} => start <= position

(* The buffer has room for the terminator behind what is in it. *)
BufferOK == capacity >= 2 /\ length <= capacity

(* What is allocated, place by place. *)
Held == TokenizerFree(Len(tokens))
HeapOK ==
  /\ pc \in {"idle", "done"} => heap = {}
  /\ pc \in {"idle", "init_query", "init_tokens"} => tokens = <<>>
  /\ pc = "init_query" => heap = Block("state")
  /\ pc = "init_tokens" => heap = Block("state") \cup Block("query")
  /\ pc \in {"scan", "minus", "word", "number"} => heap = Held
  /\ pc = "string" => heap = Held \cup Block("value")
  /\ pc = "returned" => heap = IF result \in InitErrors THEN {} ELSE Held

(* Only the return with success comes behind a token of a semicolon. *)
NoEOF == \A i \in 1..Len(tokens) : tokens[i].type # "EOF"
LastIsEOF ==
  /\ Len(tokens) > 0 /\ tokens[Len(tokens)].type = "EOF"
  /\ \A i \in 1..Len(tokens) : tokens[i].type = "EOF" => i = Len(tokens)
EOFOK ==
  /\ pc \in Locations \ {"returned", "done"} => NoEOF /\ result = "none"
  /\ pc \in {"returned", "done"} => IF result = "SUCCESS" THEN LastIsEOF ELSE NoEOF

IInv == TypeOK /\ ReadsInsideLine /\ PositionOK /\ BufferOK /\ HeapOK /\ EOFOK

-----------------------------------------------------------------------------
LEMMA InitIInv == ASSUME Init PROVE IInv
<1>1. TypeOK
  <2>1. query \in Seq(Chars) /\ tokens \in Seq(Token) BY DEF Init
  <2>2. {position, start, capacity, length, text} \subseteq Nat BY TokenizerAssumption DEF Init
  <2>3. pc \in Locations /\ result \in Results /\ {decimal, escape} \subseteq BOOLEAN
    BY DEF Init, Locations, Results
  <2> QED BY <2>1, <2>2, <2>3 DEF TypeOK
<1>2. ReadsInsideLine /\ PositionOK
  BY DEF Init, ReadsInsideLine, PositionOK, Fits, Reading
<1>3. BufferOK BY TokenizerAssumption DEF Init, BufferOK
<1>4. HeapOK BY DEF Init, HeapOK
<1>5. EOFOK BY DEF Init, EOFOK, NoEOF, Locations
<1> QED BY <1>1, <1>2, <1>3, <1>4, <1>5 DEF IInv

(* A read at a valid position finds a character, keeps the line well       *)
(* formed and the position valid, and the next one too unless the NUL was  *)
(* found.                                                                  *)
LEMMA ReadKeeps ==
  ASSUME TypeOK, ReadsInsideLine, NEW p, Fits(query, p), NEW c, Read(p, c)
  PROVE  /\ c \in Chars /\ query' \in Seq(Chars) /\ ReadsInsideLine'
         /\ Fits(query', p) /\ (c # NUL => Fits(query', p + 1))
<1>1. query \in Seq(Chars) BY DEF TypeOK
<1>2. CASE p < Len(query)
  <2>1. query' = query /\ query[p + 1] = c BY <1>2 DEF Read
  <2>2. c \in Chars BY <1>1, <1>2, <2>1 DEF Fits
  <2>3. ReadsInsideLine' BY <2>1 DEF ReadsInsideLine
  <2> QED BY <1>1, <1>2, <2>1, <2>2, <2>3 DEF ReadsInsideLine, Fits
<1>3. CASE ~(p < Len(query))
  <2>1. query' = Append(query, c) /\ c \in Chars BY <1>3 DEF Read, Supply, Chars
  <2>2. /\ p \in Nat /\ p = Len(query)
        /\ \A i \in 1..Len(query) : query[i] # NUL
    BY <1>1, <1>3 DEF Fits
  <2>3. query' \in Seq(Chars) /\ Len(query') = Len(query) + 1 BY <1>1, <2>1
  <2>4. \A i \in 1..Len(query) : query'[i] # NUL BY <1>1, <2>1, <2>2
  <2>5. query'[Len(query')] = c BY <1>1, <2>1
  <2>6. ReadsInsideLine' BY <1>1, <2>3, <2>4 DEF ReadsInsideLine
  <2> QED BY <1>1, <2>1, <2>2, <2>3, <2>4, <2>5, <2>6 DEF Fits
<1> QED BY <1>2, <1>3

(* The character at position is read in every place of Reading. *)
LEMMA ReadHere ==
  ASSUME IInv, pc \in Reading, NEW c, Read(position, c)
  PROVE  /\ c \in Chars /\ query' \in Seq(Chars) /\ ReadsInsideLine'
         /\ Fits(query', position) /\ (c # NUL => Fits(query', position + 1))
BY ReadKeeps DEF IInv, PositionOK

(* add_token: the tokens stay well typed, the blocks are those of one      *)
(* token more, and a semicolon's token is added only by Semicolon.         *)
LEMMA AddTokenKeeps ==
  ASSUME IInv, NEW type \in TokenTypes, NEW first \in Nat, NEW stop \in Nat, NEW size \in Nat,
         NEW next, next # "exited", pc \in {"scan", "word", "number", "string"},
         AddToken(type, first, stop, size, next)
  PROVE  /\ tokens' \in Seq(Token)
         /\ pc' \in {next, "exited"}
         /\ pc' # "exited" => heap' = Held'
         /\ type # "EOF" => NoEOF'
         /\ type = "EOF" /\ pc' # "exited" => LastIsEOF'
         /\ pc' = "exited" => NoEOF'
<1>1. tokens \in Seq(Token) /\ NoEOF BY DEF IInv, TypeOK, EOFOK, Locations
<1>2. heap \ Block("value") = Held
  <2>1. Held \cap Block("value") = {} BY DEF Held, TokenizerFree, Block, TokenBlocks
  <2>2. heap = Held \/ heap = Held \cup Block("value") BY DEF IInv, HeapOK
  <2> QED BY <2>1, <2>2
<1>3. CASE /\ tokens' = Append(tokens, [type |-> type, start |-> first, stop |-> stop, size |-> size])
           /\ heap' = (heap \ Block("value")) \cup {<<"token", Len(tokens) + 1>>}
           /\ pc' = next
  <2>1. [type |-> type, start |-> first, stop |-> stop, size |-> size] \in Token BY DEF Token
  <2>2. /\ tokens' \in Seq(Token) /\ Len(tokens') = Len(tokens) + 1
        /\ tokens'[Len(tokens')].type = type
        /\ \A i \in 1..Len(tokens) : tokens'[i] = tokens[i]
    BY <1>1, <1>3, <2>1
  <2>3. TokenBlocks(Len(tokens')) = TokenBlocks(Len(tokens)) \cup {<<"token", Len(tokens) + 1>>}
    <3>1. 1..Len(tokens') = (1..Len(tokens)) \cup {Len(tokens) + 1} BY <1>1, <2>2
    <3> QED BY <2>2, <3>1 DEF TokenBlocks
  <2>4. heap' = Held' BY <1>2, <1>3, <2>3 DEF Held, TokenizerFree
  <2> QED BY <1>1, <1>3, <2>2, <2>4 DEF NoEOF, LastIsEOF
<1>4. CASE UNCHANGED tokens /\ pc' = "exited"
  BY <1>1, <1>4 DEF NoEOF
<1> QED BY <1>3, <1>4 DEF AddToken

-----------------------------------------------------------------------------
LEMMA AllocateKeeps == ASSUME IInv, AllocState \/ AllocQuery \/ AllocTokens PROVE IInv'
<1> USE DEF Allocate, AllocState, AllocQuery, AllocTokens
<1>1. UNCHANGED <<query, position, start, literal, tokens>> /\ pc \in {"idle", "init_query", "init_tokens"}
  OBVIOUS
<1>2. pc' \in {"init_query", "init_tokens", "scan", "returned"} BY DEF Return
<1>3. TypeOK' BY <1>1, <1>2 DEF IInv, TypeOK, literal, Locations, Results, InitErrors, Return
<1>4. ReadsInsideLine' /\ PositionOK' /\ BufferOK'
  BY <1>1, <1>2 DEF IInv, ReadsInsideLine, PositionOK, BufferOK, literal, Reading
<1>5. HeapOK'
  BY <1>1 DEF IInv, HeapOK, Held, TokenizerFree, TokenBlocks, Block, Return, InitErrors
<1>6. EOFOK' BY <1>1, <1>2 DEF IInv, EOFOK, NoEOF, Return, Locations
<1> QED BY <1>3, <1>4, <1>5, <1>6 DEF IInv

(* The steps that read and change nothing but positions and places. *)
LEMMA SkipKeeps == ASSUME IInv, Skip PROVE IInv'
<1>1. PICK c \in Skipped : Read(position, c) BY DEF Skip
<1>2. c # NUL BY DEF Skipped, NUL
<1>3. query' \in Seq(Chars) /\ ReadsInsideLine' /\ Fits(query', position + 1)
  BY <1>1, <1>2, ReadHere DEF Skip, Reading
<1>4. TypeOK' /\ PositionOK' /\ BufferOK'
  BY <1>3 DEF Skip, IInv, TypeOK, PositionOK, BufferOK, literal
<1>5. HeapOK' /\ EOFOK' BY DEF Skip, IInv, HeapOK, EOFOK, NoEOF, Held, Locations
<1> QED BY <1>3, <1>4, <1>5 DEF IInv

LEMMA StartKeeps == ASSUME IInv, StartWord \/ StartNumber \/ Minus PROVE IInv'
<1>1. PICK c \in WordStart \cup Digits \cup {"minus"} : Read(position, c)
  BY DEF StartWord, StartNumber, Minus
<1>2. c # NUL BY DEF WordStart, Digits, NUL
<1>3. /\ query' \in Seq(Chars) /\ ReadsInsideLine'
      /\ Fits(query', position) /\ Fits(query', position + 1)
  BY <1>1, <1>2, ReadHere DEF StartWord, StartNumber, Minus, Reading
<1>4. /\ pc = "scan" /\ pc' \in {"word", "number", "minus"}
      /\ UNCHANGED <<position, capacity, length, text, escape, tokens, heap, result>>
      /\ decimal' \in {decimal, FALSE} /\ start' \in {start, position}
      /\ pc' # "minus" => start' = position
  BY DEF StartWord, StartNumber, Minus, literal
<1>5. TypeOK' BY <1>3, <1>4 DEF IInv, TypeOK, Locations
<1>6. PositionOK'
  <2>1. position \in Nat BY DEF IInv, TypeOK
  <2> QED BY <1>3, <1>4, <2>1 DEF PositionOK, Reading
<1>7. BufferOK' /\ HeapOK' /\ EOFOK'
  BY <1>4 DEF IInv, BufferOK, HeapOK, EOFOK, NoEOF, Held, Locations
<1> QED BY <1>3, <1>5, <1>6, <1>7 DEF IInv

LEMMA AfterMinusKeeps == ASSUME IInv, AfterMinus PROVE IInv'
<1>1. PICK c \in Chars :
        /\ Read(position + 1, c)
        /\ \/ c \in Digits /\ pc' = "number" /\ start' = position /\ decimal' = FALSE
           \/ c \notin Digits /\ pc' = "scan" /\ UNCHANGED <<start, decimal>>
  BY DEF AfterMinus
<1>2. pc = "minus" /\ position \in Nat /\ Fits(query, position + 1)
  BY DEF AfterMinus, IInv, TypeOK, PositionOK
<1>3. query' \in Seq(Chars) /\ ReadsInsideLine' /\ Fits(query', position + 1)
  BY <1>1, <1>2, ReadKeeps DEF IInv
<1>4. UNCHANGED <<capacity, length, text, escape, tokens, heap, result>> /\ position' = position + 1
  BY DEF AfterMinus
<1>5. TypeOK'
  <2>1. {position', start', capacity', length', text'} \subseteq Nat
    BY <1>1, <1>2, <1>4 DEF IInv, TypeOK
  <2>2. pc' \in Locations /\ {decimal', escape'} \subseteq BOOLEAN
    BY <1>1, <1>4 DEF IInv, TypeOK, Locations
  <2> QED BY <1>3, <1>4, <2>1, <2>2 DEF IInv, TypeOK
<1>6. PositionOK' BY <1>1, <1>2, <1>3, <1>4 DEF PositionOK
<1>7. BufferOK' /\ HeapOK' /\ EOFOK'
  BY <1>1, <1>2, <1>4 DEF IInv, BufferOK, HeapOK, EOFOK, NoEOF, Held, Locations
<1> QED BY <1>3, <1>5, <1>6, <1>7 DEF IInv

LEMMA StartStringKeeps == ASSUME IInv, StartString PROVE IInv'
<1>1. PICK c \in Quotes : Read(position, c) BY DEF StartString
<1>2. c # NUL BY DEF Quotes, NUL
<1>3. pc = "scan" /\ position \in Nat /\ UNCHANGED tokens BY DEF StartString, IInv, TypeOK
<1>4. query' \in Seq(Chars) /\ ReadsInsideLine' /\ Fits(query', position + 1)
  BY <1>1, <1>2, <1>3, ReadHere DEF Reading
<1>5. CASE pc' = "string"
  <2>1. /\ start' = position /\ position' = position + 1
        /\ escape' = FALSE /\ capacity' = InitialCapacity /\ length' = 0 /\ text' = 0
        /\ heap' = heap \cup Block("value") /\ UNCHANGED <<decimal, result>>
    BY <1>5 DEF StartString, Return
  <2>2. TypeOK'
    <3>1. {position', start', capacity', length', text'} \subseteq Nat
      BY <1>3, <2>1, TokenizerAssumption
    <3>2. pc' \in Locations /\ {decimal', escape'} \subseteq BOOLEAN
      BY <1>5, <2>1 DEF IInv, TypeOK, Locations
    <3> QED BY <1>3, <1>4, <2>1, <3>1, <3>2 DEF IInv, TypeOK
  <2>3. PositionOK' /\ BufferOK'
    BY <1>3, <1>4, <1>5, <2>1, TokenizerAssumption DEF PositionOK, BufferOK
  <2>4. HeapOK' /\ EOFOK'
    BY <1>3, <1>5, <2>1 DEF IInv, HeapOK, EOFOK, NoEOF, Held, Locations
  <2> QED BY <1>4, <2>2, <2>3, <2>4 DEF IInv
<1>6. CASE pc' # "string"
  <2>1. /\ pc' = "returned" /\ result' = "READ_STRING_ERROR"
        /\ UNCHANGED <<position, start, literal, heap>>
    BY <1>6 DEF StartString, Return
  <2>2. TypeOK' BY <1>3, <1>4, <2>1 DEF IInv, TypeOK, Locations, Results, literal
  <2>3. PositionOK' /\ BufferOK'
    BY <2>1 DEF IInv, PositionOK, BufferOK, literal, Reading
  <2>4. HeapOK' /\ EOFOK'
    BY <1>3, <2>1 DEF IInv, HeapOK, EOFOK, NoEOF, Held, Locations, InitErrors
  <2> QED BY <1>4, <2>2, <2>3, <2>4 DEF IInv
<1> QED BY <1>5, <1>6

(* A step that adds a token, from a place where it may, to the scan or to  *)
(* the return with success.                                                *)
LEMMA TokenKeeps ==
  ASSUME IInv, NEW type \in TokenTypes, NEW first \in Nat, NEW stop \in Nat, NEW size \in Nat,
         NEW next, pc \in {"scan", "word", "number", "string"},
         next = IF type = "EOF" THEN "returned" ELSE "scan",
         AddToken(type, first, stop, size, next),
         result' = IF pc' = "returned" THEN "SUCCESS" ELSE result,
         query' \in Seq(Chars) /\ ReadsInsideLine',
         pc' = "scan" => Fits(query', position'),
         {position', start', capacity', length', text'} \subseteq Nat,
         {decimal', escape'} \subseteq BOOLEAN,
         BufferOK'
  PROVE  IInv'
<1>1. next # "exited" OBVIOUS
<1>2. /\ tokens' \in Seq(Token) /\ pc' \in {next, "exited"}
      /\ pc' # "exited" => heap' = Held'
      /\ type # "EOF" => NoEOF'
      /\ type = "EOF" /\ pc' # "exited" => LastIsEOF'
      /\ pc' = "exited" => NoEOF'
  BY <1>1, AddTokenKeeps
<1>3. result = "none" BY DEF IInv, EOFOK, Locations
<1>4. TypeOK' BY <1>2, <1>3 DEF TypeOK, Locations, Results
<1>5. PositionOK' BY <1>2 DEF PositionOK, Reading
<1>6. HeapOK' BY <1>2 DEF HeapOK, InitErrors
<1>7. EOFOK' BY <1>2, <1>3 DEF EOFOK, Locations
<1> QED BY <1>4, <1>5, <1>6, <1>7 DEF IInv

LEMMA SingleKeeps == ASSUME IInv, SingleToken PROVE IInv'
<1>1. PICK c \in DOMAIN Single :
        Read(position, c) /\ AddToken(Single[c], position, position + 1, 1, "scan")
  BY DEF SingleToken
<1>2. c # NUL /\ Single[c] \in TokenTypes /\ Single[c] # "EOF" BY DEF Single, NUL, TokenTypes
<1>3. pc = "scan" /\ position \in Nat /\ UNCHANGED <<start, literal, result>>
      /\ position' = IF pc' = "scan" THEN position + 1 ELSE position
  BY DEF SingleToken, IInv, TypeOK
<1>4. query' \in Seq(Chars) /\ ReadsInsideLine' /\ Fits(query', position + 1)
  BY <1>1, <1>2, <1>3, ReadHere DEF Reading
<1>5. result' = IF pc' = "returned" THEN "SUCCESS" ELSE result BY <1>1, <1>3 DEF AddToken
<1>6. /\ {position', start', capacity', length', text'} \subseteq Nat
      /\ {decimal', escape'} \subseteq BOOLEAN /\ BufferOK'
  BY <1>3 DEF IInv, TypeOK, BufferOK, literal
<1> QED BY <1>1, <1>2, <1>3, <1>4, <1>5, <1>6, TokenKeeps

LEMMA SemicolonKeeps == ASSUME IInv, Semicolon PROVE IInv'
<1>1. /\ pc = "scan" /\ Read(position, "semicolon") /\ UNCHANGED <<position, start, literal>>
      /\ AddToken("EOF", position, position + 1, 1, "returned")
      /\ result' = IF pc' = "returned" THEN "SUCCESS" ELSE result
  BY DEF Semicolon
<1>2. query' \in Seq(Chars) /\ ReadsInsideLine' BY <1>1, ReadHere DEF Reading
<1>3. pc' # "scan" BY <1>1 DEF AddToken
<1>4. /\ {position', start', capacity', length', text'} \subseteq Nat
      /\ {decimal', escape'} \subseteq BOOLEAN /\ BufferOK'
      /\ position \in Nat /\ "EOF" \in TokenTypes
  BY <1>1 DEF IInv, TypeOK, BufferOK, literal, TokenTypes
<1> QED BY <1>1, <1>2, <1>3, <1>4, TokenKeeps

(* A return with an error that gives back no tokens and frees none.        *)
LEMMA ErrorKeeps ==
  ASSUME IInv, NEW r \in Results \ (InitErrors \cup {"none", "SUCCESS"}),
         pc \in {"scan", "word", "number", "string"}, Return(r),
         heap' = heap \ Block("value"), UNCHANGED <<literal, tokens, start>>,
         position' \in Nat, query' \in Seq(Chars) /\ ReadsInsideLine'
  PROVE  IInv'
<1>1. TypeOK' BY DEF IInv, TypeOK, Return, literal, Locations
<1>2. PositionOK' /\ BufferOK' BY DEF IInv, PositionOK, BufferOK, literal, Return, Reading
<1>3. HeapOK'
  <2>1. Held \cap Block("value") = {} BY DEF Held, TokenizerFree, Block, TokenBlocks
  <2>2. heap = Held \/ heap = Held \cup Block("value") BY DEF IInv, HeapOK
  <2>3. heap' = Held' BY <2>1, <2>2 DEF Held
  <2> QED BY <2>3 DEF HeapOK, Return
<1>4. EOFOK' BY DEF IInv, EOFOK, NoEOF, Return, Locations
<1> QED BY <1>1, <1>2, <1>3, <1>4 DEF IInv

LEMMA EndOfLineKeeps == ASSUME IInv, EndOfLine PROVE IInv'
<1>1. pc = "scan" /\ Read(position, NUL) /\ Return("UNTERMINATED_STATEMENT")
      /\ UNCHANGED <<position, start, literal, tokens, heap>>
  BY DEF EndOfLine
<1>2. query' \in Seq(Chars) /\ ReadsInsideLine' BY <1>1, ReadHere DEF Reading
<1>3. heap \ Block("value") = heap
  <2>1. heap = Held BY <1>1 DEF IInv, HeapOK
  <2> QED BY <2>1 DEF Held, TokenizerFree, Block, TokenBlocks
<1>4. position' \in Nat BY <1>1 DEF IInv, TypeOK
<1>5. "UNTERMINATED_STATEMENT" \in Results \ (InitErrors \cup {"none", "SUCCESS"})
  BY DEF Results, InitErrors
<1> QED BY <1>1, <1>2, <1>3, <1>4, <1>5, ErrorKeeps

-----------------------------------------------------------------------------
(* The three readers. *)

(* One character further in a word or a number. *)
LEMMA AdvanceKeeps ==
  ASSUME IInv, pc \in {"word", "number"}, Advance, decimal' \in BOOLEAN,
         query' \in Seq(Chars) /\ ReadsInsideLine', Fits(query', position + 1)
  PROVE  IInv'
<1>1. TypeOK'
  <2>1. {position', start', capacity', length', text'} \subseteq Nat
    BY DEF Advance, IInv, TypeOK
  <2> QED BY <2>1 DEF Advance, IInv, TypeOK
<1>2. PositionOK'
  <2>1. start <= position /\ {start, position} \subseteq Nat BY DEF IInv, TypeOK, PositionOK
  <2> QED BY <2>1 DEF Advance, PositionOK
<1>3. BufferOK' /\ HeapOK' /\ EOFOK'
  BY DEF Advance, IInv, BufferOK, HeapOK, EOFOK, NoEOF, Held
<1> QED BY <1>1, <1>2, <1>3 DEF IInv

LEMMA CopiedKeeps ==
  ASSUME IInv, pc \in {"word", "number"}, NEW types \in SUBSET (TokenTypes \ {"EOF"}),
         NEW error \in {"READ_WORD_ERROR", "READ_NUMBER_ERROR"}, Copied(types, error),
         query' \in Seq(Chars) /\ ReadsInsideLine', Fits(query', position)
  PROVE  IInv'
<1>1. UNCHANGED <<position, start, literal>> BY DEF Copied
<1>2. start <= position /\ {start, position} \subseteq Nat /\ position - start \in Nat
  BY DEF IInv, TypeOK, PositionOK
<1>3. CASE \E t \in types : AddToken(t, start, position, position - start, "scan") /\ UNCHANGED result
  <2>1. PICK t \in types : AddToken(t, start, position, position - start, "scan") BY <1>3
  <2>2. result' = IF pc' = "returned" THEN "SUCCESS" ELSE result BY <1>3, <2>1 DEF AddToken
  <2>3. /\ {position', start', capacity', length', text'} \subseteq Nat
        /\ {decimal', escape'} \subseteq BOOLEAN /\ BufferOK'
    BY <1>1 DEF IInv, TypeOK, BufferOK, literal
  <2> QED BY <1>1, <1>2, <2>1, <2>2, <2>3, TokenKeeps
<1>4. CASE Return(error) /\ UNCHANGED <<tokens, heap>>
  <2>1. heap = Held BY DEF IInv, HeapOK
  <2>2. heap \ Block("value") = heap BY <2>1 DEF Held, TokenizerFree, Block, TokenBlocks
  <2>3. error \in Results \ (InitErrors \cup {"none", "SUCCESS"}) BY DEF Results, InitErrors
  <2> QED BY <1>1, <1>2, <1>4, <2>2, <2>3, ErrorKeeps
<1> QED BY <1>3, <1>4 DEF Copied

LEMMA ReadWordKeeps == ASSUME IInv, ReadWord PROVE IInv'
<1>1. PICK c \in Chars :
        /\ Read(position, c)
        /\ \/ c \in WordChars /\ Advance /\ UNCHANGED decimal
           \/ c \notin WordChars /\ Copied(WordTypes, "READ_WORD_ERROR")
  BY DEF ReadWord
<1>2. pc = "word" BY DEF ReadWord
<1>3. /\ query' \in Seq(Chars) /\ ReadsInsideLine'
      /\ Fits(query', position) /\ (c # NUL => Fits(query', position + 1))
  BY <1>1, <1>2, ReadHere DEF Reading
<1>4. CASE c \in WordChars /\ Advance /\ UNCHANGED decimal
  <2>1. c # NUL BY <1>4 DEF WordChars, WordStart, Digits, NUL
  <2>2. decimal' \in BOOLEAN BY <1>4 DEF IInv, TypeOK
  <2> QED BY <1>2, <1>3, <1>4, <2>1, <2>2, AdvanceKeeps
<1>5. CASE Copied(WordTypes, "READ_WORD_ERROR")
  <2>1. WordTypes \in SUBSET (TokenTypes \ {"EOF"}) BY DEF WordTypes, TokenTypes
  <2> QED BY <1>2, <1>3, <1>5, <2>1, CopiedKeeps
<1> QED BY <1>1, <1>4, <1>5

LEMMA ReadNumberKeeps == ASSUME IInv, ReadNumber PROVE IInv'
<1>1. PICK c \in Chars :
        /\ Read(position, c)
        /\ \/ c \in Digits /\ Advance /\ UNCHANGED decimal
           \/ c = "dot" /\ ~decimal /\ Advance /\ decimal' = TRUE
           \/ /\ c \notin Digits /\ (c = "dot" => decimal)
              /\ Copied({IF decimal THEN "REAL_LITERAL" ELSE "INTEGER_LITERAL"}, "READ_NUMBER_ERROR")
  BY DEF ReadNumber
<1>2. pc = "number" BY DEF ReadNumber
<1>3. /\ query' \in Seq(Chars) /\ ReadsInsideLine'
      /\ Fits(query', position) /\ (c # NUL => Fits(query', position + 1))
  BY <1>1, <1>2, ReadHere DEF Reading
<1>4. CASE c \in Digits \cup {"dot"} /\ Advance /\ decimal' \in {decimal, TRUE}
  <2>1. c # NUL BY <1>4 DEF Digits, NUL
  <2>2. decimal' \in BOOLEAN BY <1>4 DEF IInv, TypeOK
  <2> QED BY <1>2, <1>3, <1>4, <2>1, <2>2, AdvanceKeeps
<1>5. CASE Copied({IF decimal THEN "REAL_LITERAL" ELSE "INTEGER_LITERAL"}, "READ_NUMBER_ERROR")
  <2>1. {IF decimal THEN "REAL_LITERAL" ELSE "INTEGER_LITERAL"} \in SUBSET (TokenTypes \ {"EOF"})
    BY DEF TokenTypes
  <2> QED BY <1>2, <1>3, <1>5, <2>1, CopiedKeeps
<1> QED BY <1>1, <1>4, <1>5

(* The buffer of a string has room for what a turn writes: it grows before.*)
LEMMA GrownHasRoom ==
  ASSUME TypeOK, BufferOK
  PROVE  Grown \in Nat /\ Grown >= 2 /\ length + 2 <= Grown
BY DEF TypeOK, BufferOK, Grown

LEMMA WriteBounds ==
  ASSUME {length, text} \subseteq Nat, NEW n \in 1..2, NEW ends, Write(n, ends)
  PROVE  length' \in length .. length + 2 /\ text' \in Nat
BY DEF Write

LEMMA ReadStringKeeps == ASSUME IInv, ReadString PROVE IInv'
<1>1. PICK c \in Chars :
        /\ Read(position, c)
        /\ \/ c = NUL /\ StringError
           \/ c # NUL /\ AllocFails /\ Grown # capacity /\ StringError
           \/ c # NUL /\ Closes(c) /\ StringEnd
           \/ c # NUL /\ ~Closes(c) /\ StringChar(c)
  BY DEF ReadString
<1>2. pc = "string" BY DEF ReadString
<1>3. /\ query' \in Seq(Chars) /\ ReadsInsideLine'
      /\ Fits(query', position) /\ (c # NUL => Fits(query', position + 1))
  BY <1>1, <1>2, ReadHere DEF Reading
<1>4. /\ {position, start, capacity, length, text} \subseteq Nat
      /\ {decimal, escape} \subseteq BOOLEAN /\ start <= position
  BY <1>2 DEF IInv, TypeOK, PositionOK
<1>5. Grown \in Nat /\ Grown >= 2 /\ length + 2 <= Grown BY GrownHasRoom DEF IInv
<1>6. CASE StringError
  <2>1. "READ_STRING_ERROR" \in Results \ (InitErrors \cup {"none", "SUCCESS"})
    BY DEF Results, InitErrors
  <2>2. /\ Return("READ_STRING_ERROR") /\ position' \in Nat
        /\ heap' = heap \ Block("value") /\ UNCHANGED <<literal, tokens, start>>
    BY <1>4, <1>6 DEF StringError
  <2> QED BY <1>2, <1>3, <2>1, <2>2, ErrorKeeps
<1>7. CASE c # NUL /\ StringEnd
  <2>1. /\ capacity' = Grown /\ length' = length + 1 /\ position' = position + 1
        /\ AddToken("STRING_LITERAL", start, position + 1, text, "scan")
        /\ UNCHANGED <<start, decimal, escape, text, result>>
    BY <1>7 DEF StringEnd
  <2>2. result' = IF pc' = "returned" THEN "SUCCESS" ELSE result BY <2>1 DEF AddToken
  <2>3. {position', start', capacity', length', text'} \subseteq Nat BY <1>4, <1>5, <2>1
  <2>4. BufferOK' BY <1>4, <1>5, <2>1 DEF BufferOK
  <2>5. "STRING_LITERAL" \in TokenTypes /\ position + 1 \in Nat BY <1>4 DEF TokenTypes
  <2> QED BY <1>2, <1>3, <1>4, <1>7, <2>1, <2>2, <2>3, <2>4, <2>5, TokenKeeps
<1>8. CASE c # NUL /\ StringChar(c)
  <2>1. /\ capacity' = Grown /\ position' = position + 1
        /\ UNCHANGED <<pc, start, decimal, tokens, result, heap>>
    BY <1>8, Zenon DEF StringChar
  <2>2. length' \in length .. length + 2 /\ text' \in Nat /\ escape' \in BOOLEAN
    <3>1. CASE escape' = FALSE /\ Write(IF c \in Escapes THEN 1 ELSE 2, c = "zero")
      <4>1. (IF c \in Escapes THEN 1 ELSE 2) \in 1..2 OBVIOUS
      <4> QED BY <1>4, <3>1, <4>1, WriteBounds
    <3>2. CASE escape' = TRUE /\ UNCHANGED <<length, text>> BY <1>4, <3>2
    <3>3. CASE Write(1, FALSE) /\ UNCHANGED escape BY <1>4, <3>3, 1 \in 1..2, WriteBounds
    <3> QED BY <1>8, <3>1, <3>2, <3>3, Zenon DEF StringChar
  <2>3. {position', start', capacity', length', text'} \subseteq Nat BY <1>4, <1>5, <2>1, <2>2
  <2>4. TypeOK' BY <1>3, <1>4, <2>1, <2>2, <2>3 DEF IInv, TypeOK
  <2>5. PositionOK' BY <1>2, <1>3, <1>4, <1>8, <2>1 DEF PositionOK
  <2>6. BufferOK' BY <1>4, <1>5, <2>1, <2>2 DEF BufferOK
  <2>7. HeapOK' /\ EOFOK' BY <2>1 DEF IInv, HeapOK, EOFOK, NoEOF, Held, LastIsEOF
  <2> QED BY <1>3, <2>4, <2>5, <2>6, <2>7 DEF IInv
<1> QED BY <1>1, <1>6, <1>7, <1>8

-----------------------------------------------------------------------------
LEMMA ReleaseKeeps == ASSUME IInv, Release PROVE IInv'
<1>1. /\ pc = "returned" /\ pc' = "done" /\ UNCHANGED <<query, position, start, literal, tokens, result>>
      /\ heap' = IF result \in InitErrors THEN heap ELSE heap \ TokenizerFree(Len(tokens))
  BY DEF Release
<1>2. heap' = {} BY <1>1 DEF IInv, HeapOK, Held
<1>3. TypeOK' BY <1>1 DEF IInv, TypeOK, literal, Locations
<1>4. ReadsInsideLine' /\ PositionOK' /\ BufferOK'
  BY <1>1 DEF IInv, ReadsInsideLine, PositionOK, BufferOK, literal, Reading
<1>5. HeapOK' BY <1>1, <1>2 DEF HeapOK
<1>6. EOFOK' BY <1>1 DEF IInv, EOFOK, NoEOF, LastIsEOF
<1> QED BY <1>3, <1>4, <1>5, <1>6 DEF IInv

LEMMA NextLineKeeps == ASSUME IInv, NextLine PROVE IInv'
<1>1. Init' BY DEF NextLine, Init
<1>2. TypeOK' /\ ReadsInsideLine' /\ PositionOK' /\ BufferOK'
  <2>1. query' \in Seq(Chars) /\ tokens' \in Seq(Token) BY <1>1 DEF Init
  <2>2. {position', start', capacity', length', text'} \subseteq Nat
    BY <1>1, TokenizerAssumption DEF Init
  <2>3. pc' \in Locations /\ result' \in Results /\ {decimal', escape'} \subseteq BOOLEAN
    BY <1>1 DEF Init, Locations, Results
  <2> QED BY <1>1, <2>1, <2>2, <2>3, TokenizerAssumption
        DEF Init, TypeOK, ReadsInsideLine, PositionOK, Fits, BufferOK
<1>3. HeapOK' /\ EOFOK' BY <1>1 DEF Init, HeapOK, EOFOK, NoEOF, Locations
<1> QED BY <1>2, <1>3 DEF IInv

LEMMA StepIInv == ASSUME IInv, [Next]_vars PROVE IInv'
<1>1. CASE UNCHANGED vars
  BY <1>1 DEF vars, literal, IInv, TypeOK, ReadsInsideLine, PositionOK, BufferOK, HeapOK, Held,
     EOFOK, NoEOF, LastIsEOF
<1>2. CASE Next
  <2>1. CASE AllocState \/ AllocQuery \/ AllocTokens BY <2>1, AllocateKeeps
  <2>2. CASE Skip BY <2>2, SkipKeeps
  <2>3. CASE StartWord \/ StartNumber \/ Minus BY <2>3, StartKeeps
  <2>4. CASE AfterMinus BY <2>4, AfterMinusKeeps
  <2>5. CASE StartString BY <2>5, StartStringKeeps
  <2>6. CASE SingleToken BY <2>6, SingleKeeps
  <2>7. CASE Semicolon BY <2>7, SemicolonKeeps
  <2>8. CASE EndOfLine BY <2>8, EndOfLineKeeps
  <2>9. CASE ReadWord BY <2>9, ReadWordKeeps
  <2>10. CASE ReadNumber BY <2>10, ReadNumberKeeps
  <2>11. CASE ReadString BY <2>11, ReadStringKeeps
  <2>12. CASE Release BY <2>12, ReleaseKeeps
  <2>13. CASE NextLine BY <2>13, NextLineKeeps
  <2> QED BY <1>2, <2>1, <2>2, <2>3, <2>4, <2>5, <2>6, <2>7, <2>8, <2>9, <2>10, <2>11,
             <2>12, <2>13 DEF Next, ScanStep
<1> QED BY <1>1, <1>2

LEMMA Inductive == Spec => []IInv
BY InitIInv, StepIInv, PTL DEF Spec

(* The state has its types. *)
THEOREM TypeCorrect == Spec => []TypeOK
<1>1. IInv => TypeOK BY DEF IInv
<1> QED BY <1>1, Inductive, PTL

(* The readers, which do not know where the line ends, stop at its NUL, and *)
(* room for two characters and the terminator is made before it is needed. *)
THEOREM MemorySafe == Spec => []AccessesInside
<1>1. IInv => AccessesInside
  BY DEF IInv, BufferOK, AccessesInside, WritesInsideBuffer
<1> QED BY <1>1, Inductive, PTL


(* tokenizer_init, the readers and main together free what they allocate.  *)
THEOREM NoLeak == Spec => []NothingLeaks
<1>1. IInv => NothingLeaks BY DEF IInv, HeapOK, NothingLeaks
<1> QED BY <1>1, Inductive, PTL

(* What the parsers take for granted of the array they index.              *)
THEOREM ParserSafe == Spec => []ParserMayRely
<1>1. ASSUME IInv PROVE SuccessEndsInEOF
  <2>1. tokens \in Seq(Token) BY <1>1 DEF IInv, TypeOK
  <2> QED BY <1>1, <2>1 DEF IInv, EOFOK, NoEOF, LastIsEOF, SuccessEndsInEOF
<1>2. ASSUME IInv PROVE EOFIsLast
  <2>1. NoEOF \/ LastIsEOF BY <1>2 DEF IInv, TypeOK, EOFOK
  <2> QED BY <2>1 DEF NoEOF, LastIsEOF, EOFIsLast
<1>3. IInv => ParserMayRely BY <1>1, <1>2 DEF ParserMayRely
<1> QED BY <1>3, Inductive, PTL

-----------------------------------------------------------------------------
(* What the tokens tell.  A character that has been read stays what it is;  *)
(* Gone and Within say of a gap and of a token that all that is asked of   *)
(* them has been read.                                                     *)
Gone(p) ==
  /\ p < Len(query)
  /\ \/ Char(p) \in Skipped
     \/ Char(p) = "minus" /\ p + 1 < Len(query) /\ Char(p + 1) \notin Digits

Within(t) ==
  /\ t.start < Len(query) /\ t.stop <= Len(query)
  /\ t.type \in WordTypes \cup {"INTEGER_LITERAL", "REAL_LITERAL"} => t.stop < Len(query)

TokensOK ==
  \A i \in 1..Len(tokens) :
    /\ Within(tokens[i]) /\ Lexeme(tokens[i])
    /\ \A p \in Between(i) : Gone(p)
    /\ i > 1 => tokens[i - 1].stop <= tokens[i].start

(* What lies behind the last token, up to the one under way. *)
LastStop == IF tokens = <<>> THEN 0 ELSE tokens[Len(tokens)].stop
From == IF pc \in {"word", "number", "string"} THEN start ELSE position
GapOK ==
  /\ pc \in {"idle", "init_query", "init_tokens"} => position = 0
  /\ pc \in {"scan", "minus", "word", "number", "string"} =>
       LastStop <= From /\ \A p \in LastStop .. From - 1 : Gone(p)
  /\ pc = "minus" => position < Len(query) /\ Char(position) = "minus"

(* The token under way, as far as it has been read. *)
WordSoFar ==
  /\ start < Len(query) /\ Char(start) \in WordStart
  /\ \A p \in start .. position - 1 : Char(p) \in WordChars

NumberSoFar ==
  /\ start < Len(query) /\ Char(start) \in Digits \cup {"minus"}
  /\ Cardinality({p \in start .. position - 1 : Char(p) = "dot"}) = IF decimal THEN 1 ELSE 0
  /\ \A p \in start .. position - 1 : p > start => Char(p) \in Digits \cup {"dot"}
  /\ \E p \in start .. position : p < Len(query) /\ Char(p) \in Digits

Begun(first, next, size) ==
  [type |-> "STRING_LITERAL", start |-> first, stop |-> next + 1, size |-> size]

(* Where the backslashes before p begin, or the opening quote. *)
RunStart(first, p, q) ==
  /\ q = first \/ Char(q) # "backslash"
  /\ \A r \in q + 1 .. p - 1 : Char(r) = "backslash"

StringSoFar ==
  LET t == Begun(start, position, text)
  IN /\ start < position /\ Char(start) \in Quotes
     /\ \E q \in start .. position - 1 : RunStart(start, position, q)
     /\ escape <=> EscapedAt(t, position)
     /\ \A p \in Body(t) : Char(p) = Char(start) => EscapedAt(t, p)
     /\ text = StringSize(t)
     /\ IF CutAt(t) = {} THEN text = length ELSE text < length

TellInv ==
  /\ TokensOK /\ GapOK
  /\ pc = "word" => WordSoFar
  /\ pc = "number" => NumberSoFar
  /\ pc = "string" => StringSoFar

(* The line grows, at its end. *)
Grows ==
  /\ query \in Seq(Chars) /\ query' \in Seq(Chars) /\ Len(query) <= Len(query')
  /\ \A p \in 0 .. Len(query) - 1 : query'[p + 1] = query[p + 1]

LEMMA ReadGrows ==
  ASSUME TypeOK, ReadsInsideLine, NEW p, Fits(query, p), NEW c, Read(p, c)
  PROVE  Grows /\ p < Len(query') /\ query'[p + 1] = c
<1>1. query \in Seq(Chars) BY DEF TypeOK
<1>2. query' \in Seq(Chars) BY ReadKeeps
<1>3. CASE p < Len(query) BY <1>1, <1>2, <1>3 DEF Read, Grows, Fits
<1>4. CASE ~(p < Len(query))
  <2>1. query' = Append(query, c) /\ p = Len(query) BY <1>1, <1>4 DEF Read, Fits
  <2> QED BY <1>1, <1>2, <2>1 DEF Grows
<1> QED BY <1>3, <1>4

LEMMA ReadHereGrows ==
  ASSUME IInv, pc \in Reading, NEW c, Read(position, c)
  PROVE  Grows /\ position < Len(query') /\ query'[position + 1] = c
BY ReadGrows DEF IInv, PositionOK

LEMMA GoneStays == ASSUME Grows, NEW p \in Nat, Gone(p) PROVE Gone(p)'
<1>1. Len(query) \in Nat /\ Len(query') \in Nat BY DEF Grows
<1>2. p < Len(query) /\ query'[p + 1] = query[p + 1] /\ p < Len(query')
  BY <1>1 DEF Gone, Grows
<1>3. CASE Char(p) \in Skipped BY <1>2, <1>3 DEF Gone, Char
<1>4. CASE Char(p) = "minus" /\ p + 1 < Len(query) /\ Char(p + 1) \notin Digits
  <2>1. query'[p + 1 + 1] = query[p + 1 + 1] /\ p + 1 < Len(query') BY <1>1, <1>4 DEF Grows
  <2> QED BY <1>2, <1>4, <2>1 DEF Gone, Char
<1> QED BY <1>3, <1>4 DEF Gone

(* What was read of a string reads the same later. *)
LEMMA EscapedStays ==
  ASSUME Grows, NEW t \in Token, NEW p \in Nat, p <= Len(query)
  PROVE  EscapedAt(t, p)' <=> EscapedAt(t, p)
<1>1. \A q \in t.start .. p - 1 : Char(q)' = Char(q) /\ q \in Nat
  <2>1. t.start \in Nat BY DEF Token
  <2>2. Len(query) \in Nat BY DEF Grows
  <2>3. \A q \in t.start .. p - 1 : q \in 0 .. Len(query) - 1 BY <2>1, <2>2
  <2> QED BY <2>1, <2>3 DEF Grows, Char
<1>2. \A q \in t.start .. p - 1 : \A r \in q + 1 .. p - 1 : r \in t.start .. p - 1
  BY DEF Token
<1> QED BY <1>1, <1>2 DEF EscapedAt

LEMMA StringStays ==
  ASSUME Grows, NEW t \in Token, t.stop <= Len(query) + 1
  PROVE  /\ \A p \in Body(t) : Char(p)' = Char(p) /\ (EscapedAt(t, p)' <=> EscapedAt(t, p))
         /\ CutAt(t)' = CutAt(t) /\ Kept(t)' = Kept(t) /\ StringSize(t)' = StringSize(t)
<1>1. \A p \in Body(t) : p \in Nat /\ p < Len(query) BY DEF Grows, Body, Token
<1>2. \A p \in Body(t) : Char(p)' = Char(p) BY <1>1 DEF Grows, Char
<1>3. \A p \in Body(t) : EscapedAt(t, p)' <=> EscapedAt(t, p) BY <1>1, EscapedStays DEF Grows
<1>4. CutAt(t)' = CutAt(t) BY <1>2, <1>3 DEF CutAt, Body
<1>5. Kept(t)' = Kept(t) BY <1>4 DEF Kept, Body
<1>6. Kept(t) \subseteq Body(t) BY DEF Kept
<1>7. \A p \in Kept(t) : OpensEscape(t, p)' <=> OpensEscape(t, p)
  BY <1>2, <1>3, <1>6 DEF OpensEscape
<1>8. \A p \in Kept(t) : p + 1 \in Kept(t) => Char(p + 1)' = Char(p + 1) BY <1>2, <1>6
<1>9. {p \in Kept(t) : OpensEscape(t, p)}' = {p \in Kept(t) : OpensEscape(t, p)}
  BY <1>5, <1>7
<1>10. {p \in {r \in Kept(t) : OpensEscape(t, r)} : p + 1 \in Kept(t) /\ Char(p + 1) \notin Escapes}'
         = {p \in {r \in Kept(t) : OpensEscape(t, r)} : p + 1 \in Kept(t) /\ Char(p + 1) \notin Escapes}
  BY <1>5, <1>7, <1>8
<1>11. StringSize(t)' = StringSize(t) BY <1>5, <1>9, <1>10 DEF StringSize
<1> QED BY <1>2, <1>3, <1>4, <1>5, <1>11

LEMMA LexemeStays ==
  ASSUME Grows, NEW t \in Token, Within(t), Lexeme(t)
  PROVE  Within(t)' /\ Lexeme(t)'
<1>1. /\ t.start \in Nat /\ t.stop \in Nat /\ t.size \in Nat /\ t.type \in TokenTypes
      /\ Len(query) \in Nat /\ Len(query') \in Nat /\ Len(query) <= Len(query')
      /\ t.start < Len(query) /\ t.stop <= Len(query)
  BY DEF Token, Grows, Within
<1>2. Char(t.start)' = Char(t.start) BY <1>1 DEF Grows, Char
<1>3. \A p \in Inside(t) : Char(p)' = Char(p)
  <2>1. \A p \in Inside(t) : p \in 0 .. Len(query) - 1 BY <1>1 DEF Inside
  <2> QED BY <2>1 DEF Grows, Char
<1>4. Within(t)' BY <1>1 DEF Within
<1>5. t.type \in WordTypes \cup {"INTEGER_LITERAL", "REAL_LITERAL"} => Char(t.stop)' = Char(t.stop)
  BY <1>1 DEF Within, Grows, Char
<1>6. CASE t.type \in WordTypes
  <2>1. WordLexeme(t) BY <1>6 DEF Lexeme, WordTypes
  <2>2. WordLexeme(t)' BY <1>2, <1>3, <1>5, <1>6, <2>1 DEF WordLexeme, Inside
  <2> QED BY <1>4, <1>6, <2>2 DEF Lexeme, WordTypes
<1>7. CASE t.type \in {"INTEGER_LITERAL", "REAL_LITERAL"}
  <2>1. {p \in Inside(t) : Char(p) = "dot"}' = {p \in Inside(t) : Char(p) = "dot"}
    BY <1>3 DEF Inside
  <2>2. ASSUME NEW dots \in {0, 1}, NumberLexeme(t, dots) PROVE NumberLexeme(t, dots)'
    <3>1. Cardinality({p \in Inside(t) : Char(p) = "dot"})' = dots BY <2>1, <2>2 DEF NumberLexeme
    <3> QED BY <1>2, <1>3, <1>5, <1>7, <2>2, <3>1 DEF NumberLexeme, Inside
  <2> QED BY <1>4, <1>7, <2>2 DEF Lexeme, WordTypes
<1>8. CASE t.type = "STRING_LITERAL"
  <2>1. StringLexeme(t) BY <1>8 DEF Lexeme, WordTypes
  <2>2. t.stop - 1 \in Inside(t) /\ t.stop - 1 \in Nat /\ t.stop - 1 <= Len(query)
    BY <1>1, <2>1 DEF StringLexeme, Inside
  <2>3. Char(t.stop - 1)' = Char(t.stop - 1) BY <1>3, <2>2
  <2>4. EscapedAt(t, t.stop - 1)' <=> EscapedAt(t, t.stop - 1) BY <2>2, EscapedStays
  <2>5. /\ \A p \in Body(t) : Char(p)' = Char(p) /\ (EscapedAt(t, p)' <=> EscapedAt(t, p))
        /\ StringSize(t)' = StringSize(t)
    BY <1>1, StringStays
  <2>6. \A p \in Body(t)' : p \in Body(t) BY DEF Body
  <2>7. StringLexeme(t)' BY <1>2, <2>1, <2>3, <2>4, <2>5, <2>6 DEF StringLexeme
  <2> QED BY <1>4, <1>8, <2>7 DEF Lexeme, WordTypes
<1>9. CASE t.type \notin WordTypes \cup {"INTEGER_LITERAL", "REAL_LITERAL", "STRING_LITERAL"}
  BY <1>2, <1>4, <1>9 DEF Lexeme
<1> QED BY <1>6, <1>7, <1>8, <1>9

(* Tokens and gaps stay what they are. *)
LEMMA TokensStay ==
  ASSUME Grows, TypeOK, TokensOK, UNCHANGED tokens
  PROVE  TokensOK' /\ LastStop' = LastStop
<1>1. SUFFICES ASSUME NEW i \in 1..Len(tokens)
               PROVE  /\ Within(tokens[i])' /\ Lexeme(tokens[i])'
                      /\ \A p \in Between(i)' : Gone(p)'
                      /\ i > 1 => tokens[i - 1].stop <= tokens[i].start
  BY DEF TokensOK, LastStop
<1>2. PICK t \in Token : t = tokens[i] BY DEF TypeOK
<1>3. Within(t) /\ Lexeme(t) BY <1>2 DEF TokensOK
<1>4. Within(t)' /\ Lexeme(t)' BY <1>3, LexemeStays
<1>5. t = tokens'[i] BY <1>2
<1>6. \A p \in Between(i)' : p \in Nat /\ p \in Between(i)
  <2>1. i \in Nat /\ (i > 1 => tokens[i - 1] \in Token) BY DEF TypeOK
  <2> QED BY <1>2, <2>1 DEF Between, Token
<1>7. \A p \in Between(i)' : Gone(p)' BY <1>6, GoneStays DEF TokensOK
<1> QED BY <1>4, <1>5, <1>7 DEF TokensOK

(* So is a token that is added at the end, behind a gap. *)
LEMMA TokenAdded ==
  ASSUME Grows, TypeOK, TokensOK, NEW t \in Token, tokens' = Append(tokens, t),
         Within(t)', Lexeme(t)', LastStop <= t.start, \A p \in LastStop .. t.start - 1 : Gone(p)
  PROVE  TokensOK' /\ LastStop' = t.stop
<1>1. /\ tokens \in Seq(Token) /\ tokens' \in Seq(Token) /\ Len(tokens) \in Nat
      /\ Len(tokens') = Len(tokens) + 1 /\ tokens'[Len(tokens) + 1] = t
      /\ \A i \in 1..Len(tokens) : tokens'[i] = tokens[i]
  BY DEF TypeOK
<1>2. LastStop' = t.stop BY <1>1 DEF LastStop
<1>3. LastStop \in Nat
  <2>1. tokens # <<>> => tokens[Len(tokens)] \in Token BY <1>1
  <2> QED BY <2>1 DEF LastStop, Token
<1>4. ASSUME NEW i \in 1..Len(tokens')
      PROVE  /\ Within(tokens[i])' /\ Lexeme(tokens[i])'
             /\ \A p \in Between(i)' : Gone(p)'
             /\ i > 1 => tokens'[i - 1].stop <= tokens'[i].start
  <2>1. CASE i <= Len(tokens)
    <3>1. i \in 1..Len(tokens) BY <1>1, <2>1
    <3>2. PICK s \in Token : s = tokens[i] BY <1>1, <3>1
    <3>3. Within(s) /\ Lexeme(s) BY <3>1, <3>2 DEF TokensOK
    <3>4. Within(s)' /\ Lexeme(s)' BY <3>3, LexemeStays
    <3>5. s = tokens'[i] BY <1>1, <3>1, <3>2
    <3>6. i > 1 => i - 1 \in 1..Len(tokens) /\ tokens[i - 1] \in Token /\ tokens'[i - 1] = tokens[i - 1]
      BY <1>1, <3>1
    <3>7. \A p \in Between(i)' : p \in Nat /\ p \in Between(i)
      BY <3>1, <3>2, <3>5, <3>6 DEF Between, Token
    <3>8. \A p \in Between(i)' : Gone(p)' BY <3>1, <3>7, GoneStays DEF TokensOK
    <3> QED BY <3>1, <3>2, <3>4, <3>5, <3>6, <3>8 DEF TokensOK
  <2>2. CASE i = Len(tokens) + 1
    <3>1. t = tokens'[i] BY <1>1, <2>2
    <3>2. i = 1 <=> tokens = <<>> BY <1>1, <2>2
    <3>3. i # 1 => tokens'[i - 1] = tokens[Len(tokens)] BY <1>1, <2>2
    <3>4. (IF i = 1 THEN 0 ELSE tokens'[i - 1].stop) = LastStop BY <3>2, <3>3 DEF LastStop
    <3>5. \A p \in Between(i)' : p \in LastStop .. t.start - 1 /\ p \in Nat
      BY <1>3, <3>1, <3>4 DEF Between, Token
    <3>6. \A p \in Between(i)' : Gone(p)' BY <3>5, GoneStays
    <3> QED BY <3>1, <3>4, <3>6
  <2> QED BY <1>1, <2>1, <2>2
<1> QED BY <1>2, <1>4 DEF TokensOK

-----------------------------------------------------------------------------
(* Strings.  A character is escaped just when it is an even number of       *)
(* characters behind the place where the backslashes before it begin.      *)
LEMMA Parity == \A n \in Nat : (n + 1) % 2 = 0 <=> ~(n % 2 = 0)
OBVIOUS

LEMMA RunDecides ==
  ASSUME NEW s, NEW a \in Nat, NEW p \in Nat, NEW q \in a .. p - 1,
         q = a \/ s[q + 1] # "backslash",
         \A r \in q + 1 .. p - 1 : s[r + 1] = "backslash"
  PROVE  (\E x \in a .. p - 1 :
            /\ (p - x) % 2 = 0
            /\ x = a \/ s[x + 1] # "backslash"
            /\ \A r \in x + 1 .. p - 1 : s[r + 1] = "backslash") <=> (p - q) % 2 = 0
<1>1. ASSUME NEW x \in a .. p - 1, x = a \/ s[x + 1] # "backslash",
             \A r \in x + 1 .. p - 1 : s[r + 1] = "backslash"
      PROVE  x = q
  <2>1. ~(x < q)
    <3>1. x < q => q \in x + 1 .. p - 1 /\ q # a OBVIOUS
    <3> QED BY <1>1, <3>1
  <2>2. ~(q < x)
    <3>1. q < x => x \in q + 1 .. p - 1 /\ x # a OBVIOUS
    <3> QED BY <1>1, <3>1
  <2> QED BY <2>1, <2>2
<1> QED BY <1>1

LEMMA EscapedByRun ==
  ASSUME NEW t \in Token, NEW p \in Nat, NEW q \in t.start .. p - 1, RunStart(t.start, p, q)
  PROVE  EscapedAt(t, p) <=> (p - q) % 2 = 0
<1>1. t.start \in Nat BY DEF Token
<1>2. PICK s : s = query OBVIOUS
<1>3. q = t.start \/ s[q + 1] # "backslash" BY <1>2 DEF RunStart, Char
<1>4. \A r \in q + 1 .. p - 1 : s[r + 1] = "backslash" BY <1>2 DEF RunStart, Char
<1> HIDE <1>2
<1>5. (\E x \in t.start .. p - 1 :
         /\ (p - x) % 2 = 0
         /\ x = t.start \/ s[x + 1] # "backslash"
         /\ \A r \in x + 1 .. p - 1 : s[r + 1] = "backslash") <=> (p - q) % 2 = 0
  BY <1>1, <1>3, <1>4, RunDecides
<1> QED BY <1>2, <1>5 DEF EscapedAt, Char

LEMMA EscapedByRunNext ==
  ASSUME NEW t \in Token, NEW p \in Nat, NEW q \in t.start .. p - 1, RunStart(t.start, p, q)'
  PROVE  EscapedAt(t, p)' <=> (p - q) % 2 = 0
<1>1. t.start \in Nat BY DEF Token
<1>2. PICK s : s = query' OBVIOUS
<1>3. q = t.start \/ s[q + 1] # "backslash" BY <1>2 DEF RunStart, Char
<1>4. \A r \in q + 1 .. p - 1 : s[r + 1] = "backslash" BY <1>2 DEF RunStart, Char
<1> HIDE <1>2
<1>5. (\E x \in t.start .. p - 1 :
         /\ (p - x) % 2 = 0
         /\ x = t.start \/ s[x + 1] # "backslash"
         /\ \A r \in x + 1 .. p - 1 : s[r + 1] = "backslash") <=> (p - q) % 2 = 0
  BY <1>1, <1>3, <1>4, RunDecides
<1> QED BY <1>2, <1>5 DEF EscapedAt, Char

(* The character behind p is escaped just when p is a backslash that is    *)
(* not.                                                                    *)
LEMMA EscapeForward ==
  ASSUME Grows, NEW t \in Token, NEW p \in Nat, t.start < p, p <= Len(query), p < Len(query'),
         \E q \in t.start .. p - 1 : RunStart(t.start, p, q)
  PROVE  /\ EscapedAt(t, p + 1)' <=> query'[p + 1] = "backslash" /\ ~EscapedAt(t, p)
         /\ \E q \in t.start .. p : RunStart(t.start, p + 1, q)'
<1>1. PICK q \in t.start .. p - 1 : RunStart(t.start, p, q) OBVIOUS
<1>2. t.start \in Nat /\ q \in Nat /\ p + 1 \in Nat /\ Len(query) \in Nat BY DEF Token, Grows
<1>3. \A r \in t.start .. p - 1 : query'[r + 1] = query[r + 1]
  <2>1. \A r \in t.start .. p - 1 : r \in 0 .. Len(query) - 1 BY <1>2
  <2> QED BY <2>1 DEF Grows
<1>4. EscapedAt(t, p) <=> (p - q) % 2 = 0 BY <1>1, EscapedByRun
<1>5. CASE query'[p + 1] = "backslash"
  <2>1. \A r \in q + 1 .. p : query'[r + 1] = "backslash"
    <3>1. ASSUME NEW r \in q + 1 .. p PROVE query'[r + 1] = "backslash"
      <4>1. CASE r = p BY <1>5, <4>1
      <4>2. CASE r # p
        <5>1. r \in q + 1 .. p - 1 /\ r \in t.start .. p - 1 BY <1>2, <4>2
        <5> QED BY <1>1, <1>3, <5>1 DEF RunStart, Char
      <4> QED BY <4>1, <4>2
    <3> QED BY <3>1
  <2>2. RunStart(t.start, p + 1, q)'
    <3>1. p + 1 - 1 = p BY <1>2
    <3> QED BY <1>1, <1>3, <2>1, <3>1 DEF RunStart, Char
  <2>3. q \in t.start .. p + 1 - 1 BY <1>2
  <2>4. EscapedAt(t, p + 1)' <=> (p + 1 - q) % 2 = 0 BY <1>2, <2>2, <2>3, EscapedByRunNext
  <2>5. (p + 1 - q) % 2 = 0 <=> ~((p - q) % 2 = 0)
    <3>1. p - q \in Nat /\ p + 1 - q = (p - q) + 1 BY <1>2
    <3> QED BY <3>1, Parity
  <2>6. q \in t.start .. p BY <1>2
  <2> QED BY <1>4, <1>5, <2>2, <2>4, <2>5, <2>6
<1>6. CASE query'[p + 1] # "backslash"
  <2>1. RunStart(t.start, p + 1, p)' BY <1>2, <1>6 DEF RunStart, Char
  <2>2. p \in t.start .. p + 1 - 1 /\ p \in t.start .. p BY <1>2
  <2>3. EscapedAt(t, p + 1)' <=> (p + 1 - p) % 2 = 0 BY <1>2, <2>1, <2>2, EscapedByRunNext
  <2>4. ~((p + 1 - p) % 2 = 0) BY <1>2
  <2> QED BY <1>6, <2>1, <2>2, <2>3, <2>4
<1> QED BY <1>5, <1>6

(* Seen from behind. *)
LEMMA EscapeBackward ==
  ASSUME NEW t \in Token, NEW p \in Nat, t.start < p,
         \E q \in t.start .. p - 1 : RunStart(t.start, p, q)
  PROVE  EscapedAt(t, p) <=> p - 1 > t.start /\ OpensEscape(t, p - 1)
<1>1. PICK q \in t.start .. p - 1 : RunStart(t.start, p, q) OBVIOUS
<1>2. t.start \in Nat /\ q \in Nat /\ p - 1 \in Nat BY DEF Token
<1>3. EscapedAt(t, p) <=> (p - q) % 2 = 0 BY <1>1, EscapedByRun
<1>4. CASE q = p - 1
  <2>1. ~((p - q) % 2 = 0) BY <1>2, <1>4
  <2>2. p - 1 = t.start \/ Char(p - 1) # "backslash" BY <1>1, <1>4 DEF RunStart
  <2> QED BY <1>2, <1>3, <2>1, <2>2 DEF OpensEscape
<1>5. CASE q # p - 1
  <2>1. q \in t.start .. p - 1 - 1 /\ p - 1 > t.start /\ p - 1 \in q + 1 .. p - 1 BY <1>2, <1>5
  <2>2. Char(p - 1) = "backslash" BY <1>1, <2>1 DEF RunStart
  <2>3. RunStart(t.start, p - 1, q)
    <3>1. \A r \in q + 1 .. p - 1 - 1 : r \in q + 1 .. p - 1 BY <1>2
    <3> QED BY <1>1, <3>1 DEF RunStart
  <2>4. EscapedAt(t, p - 1) <=> (p - 1 - q) % 2 = 0 BY <1>2, <2>1, <2>3, EscapedByRun
  <2>5. (p - q) % 2 = 0 <=> ~((p - 1 - q) % 2 = 0)
    <3>1. p - 1 - q \in Nat /\ p - q = (p - 1 - q) + 1 BY <1>2, <2>1
    <3> QED BY <3>1, Parity
  <2> QED BY <1>3, <2>1, <2>2, <2>4, <2>5 DEF OpensEscape
<1> QED BY <1>4, <1>5

(* u is the string t with one character more, which is c, at p. *)
OneMore(t, u, p, c) ==
  /\ t.start < p /\ u.start = t.start /\ t.stop = p + 1 /\ u.stop = p + 2
  /\ p <= Len(query) /\ p < Len(query') /\ query'[p + 1] = c
  /\ \E q \in t.start .. p - 1 : RunStart(t.start, p, q)

Openers(t) == {p \in Kept(t) : OpensEscape(t, p)}
Unknown(t) == {p \in Openers(t) : p + 1 \in Kept(t) /\ Char(p + 1) \notin Escapes}

LEMMA SizeIs ==
  ASSUME NEW t
  PROVE  StringSize(t) = Cardinality(Kept(t)) - Cardinality(Openers(t)) + Cardinality(Unknown(t))
BY DEF StringSize, Openers, Unknown

LEMMA BodyStep ==
  ASSUME Grows, NEW t \in Token, NEW u \in Token, NEW p \in Nat, NEW c, OneMore(t, u, p, c)
  PROVE  /\ Body(u) = Body(t) \cup {p} /\ p \notin Body(t)
         /\ \A r \in Body(t) : /\ r \in Nat /\ r < p /\ Char(r)' = Char(r)
                               /\ EscapedAt(u, r)' <=> EscapedAt(t, r)
         /\ Char(p)' = c /\ (EscapedAt(u, p)' <=> EscapedAt(t, p))
<1>1. t.start \in Nat /\ t.start < p /\ u.start = t.start /\ t.stop = p + 1 /\ u.stop = p + 2
  BY DEF Token, OneMore
<1>2. Body(u) = Body(t) \cup {p} /\ p \notin Body(t) BY <1>1 DEF Body
<1>3. \A r \in Body(t) : r \in Nat /\ r < p BY <1>1 DEF Body
<1>4. p <= Len(query) /\ Len(query) \in Nat BY DEF OneMore, Grows
<1>5. \A r \in Body(t) : Char(r)' = Char(r) BY <1>3, <1>4 DEF Grows, Char
<1>6. \A r \in Nat : EscapedAt(u, r)' <=> EscapedAt(t, r)' BY <1>1 DEF EscapedAt
<1>7. \A r \in Body(t) : EscapedAt(t, r)' <=> EscapedAt(t, r) BY <1>3, <1>4, EscapedStays
<1>8. EscapedAt(t, p)' <=> EscapedAt(t, p) BY <1>4, EscapedStays
<1>9. Char(p)' = c BY DEF OneMore, Char
<1> QED BY <1>2, <1>3, <1>5, <1>6, <1>7, <1>8, <1>9

LEMMA CutStep ==
  ASSUME Grows, NEW t \in Token, NEW u \in Token, NEW p \in Nat, NEW c, OneMore(t, u, p, c)
  PROVE  CutAt(u)' = IF c = "zero" /\ EscapedAt(t, p) THEN CutAt(t) \cup {p} ELSE CutAt(t)
<1>1. /\ Body(u)' = Body(u) /\ Body(u) = Body(t) \cup {p} /\ p \notin Body(t)
      /\ \A r \in Body(t) : Char(r)' = Char(r) /\ (EscapedAt(u, r)' <=> EscapedAt(t, r))
      /\ Char(p)' = c /\ (EscapedAt(u, p)' <=> EscapedAt(t, p))
  BY BodyStep DEF Body
<1>2. CutAt(u)' = {r \in Body(u) : Char(r)' = "zero" /\ EscapedAt(u, r)'} BY <1>1 DEF CutAt
<1>3. CutAt(t) = {r \in Body(t) : Char(r) = "zero" /\ EscapedAt(t, r)} BY DEF CutAt
<1> QED BY <1>1, <1>2, <1>3

(* Which characters of the text are kept: those before the first \0. *)
LEMMA KeptStep ==
  ASSUME Grows, NEW t \in Token, NEW u \in Token, NEW p \in Nat, NEW c, OneMore(t, u, p, c)
  PROVE  /\ Kept(t) \subseteq Body(t)
         /\ Kept(u)' = IF CutAt(t) = {} /\ ~(c = "zero" /\ EscapedAt(t, p))
                       THEN Kept(t) \cup {p} ELSE Kept(t)
         /\ CutAt(t) = {} => Kept(t) = Body(t)
<1>1. /\ Body(u)' = Body(u) /\ Body(u) = Body(t) \cup {p} /\ p \notin Body(t)
      /\ \A r \in Body(t) : r \in Nat /\ r < p
  BY BodyStep DEF Body
<1>2. CutAt(u)' = IF c = "zero" /\ EscapedAt(t, p) THEN CutAt(t) \cup {p} ELSE CutAt(t)
  BY CutStep
<1>3. CutAt(t) \subseteq Body(t) BY DEF CutAt
<1>4. Kept(u)' = {r \in Body(u) : \A z \in CutAt(u)' : r < z} BY <1>1 DEF Kept
<1>5. Kept(t) = {r \in Body(t) : \A z \in CutAt(t) : r < z} BY DEF Kept
<1>6. CASE CutAt(t) = {} /\ ~(c = "zero" /\ EscapedAt(t, p))
  BY <1>1, <1>2, <1>4, <1>5, <1>6
<1>7. CASE CutAt(t) = {} /\ c = "zero" /\ EscapedAt(t, p)
  <2>1. CutAt(u)' = {p} BY <1>2, <1>7
  <2>2. ~(p < p) OBVIOUS
  <2> QED BY <1>1, <1>4, <1>5, <1>7, <2>1, <2>2
<1>8. CASE CutAt(t) # {}
  <2>1. \A z \in CutAt(t) : z \in Nat /\ z < p /\ ~(p < z) BY <1>1, <1>3
  <2>2. CutAt(t) \subseteq CutAt(u)' /\ CutAt(u)' \subseteq CutAt(t) \cup {p} BY <1>2
  <2>3. p \notin Kept(u)'
    <3>1. PICK z \in CutAt(t) : TRUE BY <1>8
    <3> QED BY <1>4, <2>1, <2>2, <3>1
  <2>4. \A r \in Body(t) : r \in Kept(u)' <=> r \in Kept(t)
    BY <1>1, <1>4, <1>5, <2>2
  <2>5. Kept(u)' \subseteq Body(t) BY <1>1, <1>4, <2>3
  <2> QED BY <1>5, <1>8, <2>4, <2>5
<1> QED BY <1>5, <1>6, <1>7, <1>8

(* How openers and unknown escapes grow with it. *)
LEMMA OpenersStep ==
  ASSUME Grows, NEW t \in Token, NEW u \in Token, NEW p \in Nat, NEW c, OneMore(t, u, p, c)
  PROVE  Openers(u)' = Openers(t) \cup
           (IF p \in Kept(u)' /\ c = "backslash" /\ ~EscapedAt(t, p) THEN {p} ELSE {})
<1>1. /\ \A r \in Body(t) : Char(r)' = Char(r) /\ (EscapedAt(u, r)' <=> EscapedAt(t, r))
      /\ Char(p)' = c /\ (EscapedAt(u, p)' <=> EscapedAt(t, p)) /\ p \notin Body(t)
  BY BodyStep
<1>2. Kept(t) \subseteq Body(t) /\ (Kept(u)' = Kept(t) \/ Kept(u)' = Kept(t) \cup {p})
  BY KeptStep
<1>3. Openers(u)' = {r \in Kept(u)' : OpensEscape(u, r)'} BY DEF Openers
<1>4. Openers(t) = {r \in Kept(t) : OpensEscape(t, r)} BY DEF Openers
<1>5. \A r \in Body(t) : OpensEscape(u, r)' <=> OpensEscape(t, r) BY <1>1 DEF OpensEscape
<1>6. OpensEscape(u, p)' <=> c = "backslash" /\ ~EscapedAt(t, p) BY <1>1 DEF OpensEscape
<1> QED BY <1>1, <1>2, <1>3, <1>4, <1>5, <1>6

LEMMA UnknownStep ==
  ASSUME Grows, NEW t \in Token, NEW u \in Token, NEW p \in Nat, NEW c, OneMore(t, u, p, c)
  PROVE  Unknown(u)' = Unknown(t) \cup
           (IF p \in Kept(u)' /\ EscapedAt(t, p) /\ c \notin Escapes THEN {p - 1} ELSE {})
<1>1. /\ \A r \in Body(t) : r \in Nat /\ r < p /\ Char(r)' = Char(r)
      /\ Char(p)' = c /\ p \notin Body(t) /\ t.start \in Nat /\ t.start < p /\ t.stop = p + 1
  BY BodyStep DEF OneMore, Token
<1>2. Kept(t) \subseteq Body(t) /\ (Kept(u)' = Kept(t) \/ Kept(u)' = Kept(t) \cup {p})
      /\ (p \in Kept(u)' => Kept(t) = Body(t))
  BY <1>1, KeptStep
<1>3. Openers(t) \subseteq Kept(t) /\ Openers(u)' \subseteq Openers(t) \cup {p} /\ Openers(t) \subseteq Openers(u)'
  BY OpenersStep DEF Openers
<1>4. Unknown(u)' = {r \in Openers(u)' : r + 1 \in Kept(u)' /\ Char(r + 1)' \notin Escapes}
  BY DEF Unknown
<1>5. Unknown(t) = {r \in Openers(t) : r + 1 \in Kept(t) /\ Char(r + 1) \notin Escapes}
  BY DEF Unknown
<1>6. EscapedAt(t, p) <=> p - 1 > t.start /\ OpensEscape(t, p - 1)
  BY <1>1, EscapeBackward DEF OneMore
<1>7. p \notin Unknown(u)' BY <1>1, <1>2, <1>4
<1>8. \A r \in Openers(t) : r + 1 # p => (r \in Unknown(u)' <=> r \in Unknown(t))
  <2>1. ASSUME NEW r \in Openers(t), r + 1 # p PROVE r \in Unknown(u)' <=> r \in Unknown(t)
    <3>1. r + 1 \in Kept(u)' <=> r + 1 \in Kept(t) BY <1>2, <2>1
    <3>2. r + 1 \in Kept(t) => Char(r + 1)' = Char(r + 1) BY <1>1, <1>2
    <3> QED BY <1>3, <1>4, <1>5, <3>1, <3>2
  <2> QED BY <2>1
<1>9. p - 1 \notin Unknown(t)
  <2>1. p - 1 + 1 = p BY <1>1
  <2> QED BY <1>1, <1>2, <1>5, <2>1
<1>10. p - 1 \in Unknown(u)' <=> p \in Kept(u)' /\ EscapedAt(t, p) /\ c \notin Escapes
  <2>1. p - 1 + 1 = p /\ p - 1 # p BY <1>1
  <2>2. p - 1 \in Unknown(u)' <=> p - 1 \in Openers(u)' /\ p \in Kept(u)' /\ c \notin Escapes
    BY <1>1, <1>4, <2>1
  <2>3. ASSUME p \in Kept(u)' PROVE p - 1 \in Openers(u)' <=> EscapedAt(t, p)
    <3>1. p - 1 \in Openers(u)' <=> p - 1 \in Openers(t) BY <1>3, <2>1
    <3>2. Kept(t) = Body(t) BY <1>2, <2>3
    <3>3. p - 1 \in Body(t) <=> p - 1 > t.start BY <1>1 DEF Body
    <3> QED BY <1>6, <3>1, <3>2, <3>3 DEF Openers
  <2> QED BY <2>2, <2>3
<1>11. \A r \in Openers(t) : r + 1 = p => r = p - 1 BY <1>1, <1>2, <1>3
<1>12. Unknown(u)' \subseteq Openers(t) BY <1>3, <1>4, <1>7
<1>13. Unknown(t) \subseteq Openers(t) BY <1>5
<1> QED BY <1>7, <1>8, <1>9, <1>10, <1>11, <1>12, <1>13

LEMMA StringFinite ==
  ASSUME NEW t \in Token
  PROVE  IsFiniteSet(Kept(t)) /\ IsFiniteSet(Openers(t)) /\ IsFiniteSet(Unknown(t))
<1>1. IsFiniteSet(Body(t)) BY FS_Interval DEF Body, Token
<1>2. /\ Kept(t) \in SUBSET Body(t) /\ Openers(t) \in SUBSET Body(t)
      /\ Unknown(t) \in SUBSET Body(t)
  BY DEF Kept, Openers, Unknown
<1> QED BY <1>1, <1>2, FS_Subset

(* What a character adds to the size of the text.                          *)
LEMMA SizeStep ==
  ASSUME Grows, NEW t \in Token, NEW u \in Token, NEW p \in Nat, NEW c, OneMore(t, u, p, c)
  PROVE  StringSize(u)' = StringSize(t)
           + (IF CutAt(t) # {} \/ (c = "zero" /\ EscapedAt(t, p)) THEN 0
              ELSE IF EscapedAt(t, p) THEN (IF c \in Escapes THEN 1 ELSE 2)
              ELSE IF c = "backslash" THEN 0 ELSE 1)
<1> DEFINE k == Cardinality(Kept(t))
           o == Cardinality(Openers(t))
           n == Cardinality(Unknown(t))
<1>1. k \in Nat /\ o \in Nat /\ n \in Nat BY StringFinite, FS_CardinalityType
<1>2. StringSize(t) = k - o + n BY SizeIs
<1>3. StringSize(u)' = Cardinality(Kept(u)') - Cardinality(Openers(u)') + Cardinality(Unknown(u)')
  BY DEF StringSize, Openers, Unknown
<1>4. p \notin Body(t) /\ Kept(t) \subseteq Body(t)
  BY BodyStep, KeptStep
<1>5. p \notin Kept(t) /\ p \notin Openers(t) BY <1>4 DEF Openers
<1>6. p - 1 \notin Unknown(t)
  <2>1. p - 1 + 1 = p BY DEF OneMore, Token
  <2> QED BY <1>5, <2>1 DEF Unknown
<1>7. Kept(u)' = IF CutAt(t) = {} /\ ~(c = "zero" /\ EscapedAt(t, p))
                 THEN Kept(t) \cup {p} ELSE Kept(t)
  BY KeptStep
<1>8. Openers(u)' = Openers(t) \cup
           (IF p \in Kept(u)' /\ c = "backslash" /\ ~EscapedAt(t, p) THEN {p} ELSE {})
  BY OpenersStep
<1>9. Unknown(u)' = Unknown(t) \cup
           (IF p \in Kept(u)' /\ EscapedAt(t, p) /\ c \notin Escapes THEN {p - 1} ELSE {})
  BY UnknownStep
<1>10. /\ Cardinality(Kept(t) \cup {p}) = k + 1
       /\ Cardinality(Openers(t) \cup {p}) = o + 1
       /\ Cardinality(Unknown(t) \cup {p - 1}) = n + 1
  BY <1>5, <1>6, StringFinite, FS_AddElement
<1>11. CASE CutAt(t) # {} \/ (c = "zero" /\ EscapedAt(t, p))
  <2>1. p \notin Kept(u)' BY <1>5, <1>7, <1>11
  <2>2. Kept(u)' = Kept(t) /\ Openers(u)' = Openers(t) /\ Unknown(u)' = Unknown(t)
    BY <1>7, <1>8, <1>9, <1>11, <2>1
  <2>3. StringSize(u)' = k - o + n BY <1>3, <2>2
  <2> HIDE DEF k, o, n
  <2>4. k - o + n = (k - o + n) + 0 BY <1>1
  <2> QED BY <1>2, <1>11, <2>3, <2>4
<1>12. CASE CutAt(t) = {} /\ ~(c = "zero" /\ EscapedAt(t, p))
  <2>1. Kept(u)' = Kept(t) \cup {p} /\ p \in Kept(u)' BY <1>7, <1>12
  <2>2. CASE EscapedAt(t, p) /\ c \in Escapes
    <3>1. Openers(u)' = Openers(t) /\ Unknown(u)' = Unknown(t) BY <1>8, <1>9, <2>2
    <3>2. StringSize(u)' = (k + 1) - o + n BY <1>3, <1>10, <2>1, <3>1
    <3> HIDE DEF k, o, n
    <3>3. (k + 1) - o + n = (k - o + n) + 1 BY <1>1
    <3> QED BY <1>2, <1>12, <2>2, <3>2, <3>3
  <2>3. CASE EscapedAt(t, p) /\ c \notin Escapes
    <3>1. Openers(u)' = Openers(t) /\ Unknown(u)' = Unknown(t) \cup {p - 1} BY <1>8, <1>9, <2>1, <2>3
    <3>2. StringSize(u)' = (k + 1) - o + (n + 1) BY <1>3, <1>10, <2>1, <3>1
    <3> HIDE DEF k, o, n
    <3>3. (k + 1) - o + (n + 1) = (k - o + n) + 2 BY <1>1
    <3> QED BY <1>2, <1>12, <2>3, <3>2, <3>3
  <2>4. CASE ~EscapedAt(t, p) /\ c = "backslash"
    <3>1. Openers(u)' = Openers(t) \cup {p} /\ Unknown(u)' = Unknown(t) BY <1>8, <1>9, <2>1, <2>4
    <3>2. StringSize(u)' = (k + 1) - (o + 1) + n BY <1>3, <1>10, <2>1, <3>1
    <3> HIDE DEF k, o, n
    <3>3. (k + 1) - (o + 1) + n = (k - o + n) + 0 BY <1>1
    <3> QED BY <1>2, <1>12, <2>4, <3>2, <3>3
  <2>5. CASE ~EscapedAt(t, p) /\ c # "backslash"
    <3>1. Openers(u)' = Openers(t) /\ Unknown(u)' = Unknown(t) BY <1>8, <1>9, <2>5
    <3>2. StringSize(u)' = (k + 1) - o + n BY <1>3, <1>10, <2>1, <3>1
    <3> HIDE DEF k, o, n
    <3>3. (k + 1) - o + n = (k - o + n) + 1 BY <1>1
    <3> QED BY <1>2, <1>12, <2>5, <3>2, <3>3
  <2> QED BY <2>2, <2>3, <2>4, <2>5
<1> QED BY <1>11, <1>12

-----------------------------------------------------------------------------
LEMMA BegunToken == \A first, next, size \in Nat : Begun(first, next, size) \in Token
<1>1. "STRING_LITERAL" \in TokenTypes BY DEF TokenTypes
<1> QED BY <1>1 DEF Begun, Token

(* A character of a string, as read_string_literal takes it: escape says   *)
(* whether the next one is escaped, and the text has its size.             *)
LEMMA StringCharTells ==
  ASSUME IInv, Grows, pc = "string", StringSoFar, NEW c, c \in Chars,
         position < Len(query'), query'[position + 1] = c, ~Closes(c), StringChar(c)
  PROVE  StringSoFar'
<1>1. /\ {position, start, capacity, length, text} \subseteq Nat /\ escape \in BOOLEAN
      /\ position <= Len(query) /\ query \in Seq(Chars)
  BY DEF IInv, TypeOK, PositionOK, Reading, Fits
<1>2. PICK p \in Nat : p = position BY <1>1
<1>3. PICK f \in Nat : f = start BY <1>1
<1>4. f = start' /\ position' = p + 1 BY <1>2, <1>3, Zenon DEF StringChar
<1>5. PICK t \in Token : t = Begun(f, p, text) BY <1>1, BegunToken
<1>6. text' \in Nat /\ length' \in Nat
  <2>1. CASE Write(IF c \in Escapes THEN 1 ELSE 2, c = "zero")
    <3>1. (IF c \in Escapes THEN 1 ELSE 2) \in 1..2 OBVIOUS
    <3> QED BY <1>1, <2>1, <3>1, WriteBounds
  <2>2. CASE UNCHANGED <<length, text>> BY <1>1, <2>2
  <2>3. CASE Write(1, FALSE)
    <3>1. length \in Nat /\ text \in Nat BY <1>1
    <3>2. length' = length + 1 /\ text' \in {text, text + 1} BY <2>3 DEF Write
    <3> QED BY <3>1, <3>2
  <2> QED BY <2>1, <2>2, <2>3, Zenon DEF StringChar
<1>7. PICK u \in Token : u = Begun(f, p + 1, text') BY <1>6, BegunToken
<1>8. t.start = f /\ t.stop = p + 1 /\ u.start = f /\ u.stop = p + 2 /\ u.size = text'
  BY <1>5, <1>7 DEF Begun
<1>9. /\ f < p /\ Char(f) \in Quotes
      /\ \E q \in f .. p - 1 : RunStart(f, p, q)
      /\ escape <=> EscapedAt(t, p)
      /\ \A r \in Body(t) : Char(r) = Char(f) => EscapedAt(t, r)
      /\ text = StringSize(t)
      /\ IF CutAt(t) = {} THEN text = length ELSE text < length
  BY <1>2, <1>3, <1>5 DEF StringSoFar
<1>10. OneMore(t, u, p, c) BY <1>1, <1>2, <1>8, <1>9 DEF OneMore
<1>11. Char(f)' = Char(f)
  <2>1. f \in 0 .. Len(query) - 1 BY <1>1, <1>2, <1>9
  <2> QED BY <2>1 DEF Grows, Char
<1>12. /\ EscapedAt(t, p + 1)' <=> c = "backslash" /\ ~EscapedAt(t, p)
       /\ \E q \in f .. p : RunStart(f, p + 1, q)'
  <2>1. p <= Len(query) /\ p < Len(query') /\ query'[p + 1] = c /\ t.start < p
    BY <1>1, <1>2, <1>8, <1>9
  <2>2. \E q \in t.start .. p - 1 : RunStart(t.start, p, q) BY <1>8, <1>9
  <2>3. /\ EscapedAt(t, p + 1)' <=> c = "backslash" /\ ~EscapedAt(t, p)
        /\ \E q \in t.start .. p : RunStart(t.start, p + 1, q)'
    BY <2>1, <2>2, EscapeForward
  <2> QED BY <1>8, <2>3
<1>13. EscapedAt(u, p + 1)' <=> EscapedAt(t, p + 1)' BY <1>8 DEF EscapedAt
<1>14. \A r \in Body(u)' : Char(r)' = Char(f)' => EscapedAt(u, r)'
  <2>1. /\ Body(u) = Body(t) \cup {p}
        /\ \A r \in Body(t) : Char(r)' = Char(r) /\ (EscapedAt(u, r)' <=> EscapedAt(t, r))
        /\ Char(p)' = c /\ (EscapedAt(u, p)' <=> EscapedAt(t, p))
    BY <1>10, BodyStep
  <2>2. Body(u)' = Body(u) BY DEF Body
  <2>3. c = Char(f) => EscapedAt(t, p)
    BY <1>3, <1>9 DEF Closes, Char
  <2> QED BY <1>9, <1>11, <2>1, <2>2, <2>3
<1>15. escape' <=> EscapedAt(u, p + 1)'
  <2>1. CASE escape /\ escape' = FALSE BY <1>9, <1>12, <1>13, <2>1
  <2>2. CASE ~escape /\ c = "backslash" /\ escape' = TRUE BY <1>9, <1>12, <1>13, <2>2
  <2>3. CASE ~escape /\ c # "backslash" /\ escape' = escape BY <1>9, <1>12, <1>13, <2>3
  <2> QED BY <2>1, <2>2, <2>3, Zenon DEF StringChar
<1>16. CutAt(u)' = IF c = "zero" /\ EscapedAt(t, p) THEN CutAt(t) \cup {p} ELSE CutAt(t)
  BY <1>10, CutStep
<1>17. StringSize(u)' = StringSize(t)
           + (IF CutAt(t) # {} \/ (c = "zero" /\ EscapedAt(t, p)) THEN 0
              ELSE IF EscapedAt(t, p) THEN (IF c \in Escapes THEN 1 ELSE 2)
              ELSE IF c = "backslash" THEN 0 ELSE 1)
  BY <1>10, SizeStep
<1>18. /\ text' = StringSize(u)'
       /\ IF CutAt(u)' = {} THEN text' = length' ELSE text' < length'
  <2>1. "zero" \in Escapes BY DEF Escapes
  <2>2. PICK n \in Nat, l \in Nat : n = text /\ l = length BY <1>1
  <2>3. CASE escape /\ Write(IF c \in Escapes THEN 1 ELSE 2, c = "zero")
    <3>1. EscapedAt(t, p) BY <1>9, <2>3
    <3>2. /\ length' = l + (IF c \in Escapes THEN 1 ELSE 2)
          /\ text' = IF n < l THEN n
                     ELSE n + (IF c = "zero" THEN 0 ELSE IF c \in Escapes THEN 1 ELSE 2)
      BY <2>2, <2>3 DEF Write
    <3> QED BY <1>9, <1>16, <1>17, <2>1, <2>2, <3>1, <3>2
  <2>4. CASE ~escape /\ c = "backslash" /\ UNCHANGED <<length, text>>
    <3>1. ~EscapedAt(t, p) BY <1>9, <2>4
    <3> QED BY <1>9, <1>16, <1>17, <2>2, <2>4, <3>1
  <2>5. CASE ~escape /\ c # "backslash" /\ Write(1, FALSE)
    <3>1. ~EscapedAt(t, p) BY <1>9, <2>5
    <3>2. /\ length' = l + 1
          /\ text' = IF n < l THEN n ELSE n + 1
      BY <2>2, <2>5 DEF Write
    <3> QED BY <1>9, <1>16, <1>17, <2>2, <2>5, <3>1, <3>2
  <2> QED BY <2>3, <2>4, <2>5, Zenon DEF StringChar
<1>19. u = Begun(start, position, text)' BY <1>4, <1>7 DEF Begun
<1>20. p + 1 - 1 = p /\ f < p + 1 BY <1>9
<1> QED BY <1>4, <1>9, <1>11, <1>12, <1>14, <1>15, <1>18, <1>19, <1>20 DEF StringSoFar

-----------------------------------------------------------------------------
(* The steps. *)
LEMMA LastStopType == ASSUME TypeOK PROVE LastStop \in Nat
<1>1. tokens # <<>> => tokens[Len(tokens)] \in Token BY DEF TypeOK
<1> QED BY <1>1 DEF LastStop, Token

LEMMA InitTells == ASSUME Init PROVE TellInv
BY DEF Init, TellInv, TokensOK, GapOK, LastStop, From

(* Behind the scan nothing is asked but of the tokens. *)
LEMMA StoppedTells ==
  ASSUME TokensOK', pc' \in {"returned", "exited", "done"}
  PROVE  TellInv'
BY DEF TellInv, GapOK

(* A gap that was passed over stays one, and one more character may be.    *)
LEMMA GapStays ==
  ASSUME Grows, TypeOK, TellInv, UNCHANGED tokens,
         pc \in {"scan", "minus", "word", "number", "string"}
  PROVE  /\ TokensOK' /\ LastStop' = LastStop /\ LastStop \in Nat /\ LastStop <= From
         /\ \A p \in LastStop .. From - 1 : Gone(p)'
<1>1. TokensOK' /\ LastStop' = LastStop BY TokensStay DEF TellInv
<1>2. LastStop \in Nat BY LastStopType
<1>3. LastStop <= From /\ \A p \in LastStop .. From - 1 : p \in Nat /\ Gone(p)
  <2>1. From \in Nat BY DEF TypeOK, From
  <2> QED BY <1>2, <2>1 DEF TellInv, GapOK
<1> QED BY <1>1, <1>2, <1>3, GoneStays

LEMMA NewTokenTells ==
  ASSUME IInv, TellInv, Grows, NEW t \in Token, NEW next \in {"scan", "returned"},
         AddToken(t.type, t.start, t.stop, t.size, next),
         pc \in {"scan", "word", "number", "string"}, t.start = From,
         Within(t)', Lexeme(t)', pc' = "scan" => position' = t.stop
  PROVE  TellInv'
<1>1. TypeOK /\ TokensOK BY DEF IInv, TellInv
<1>2. LastStop <= t.start /\ \A p \in LastStop .. t.start - 1 : Gone(p) BY DEF TellInv, GapOK
<1>3. CASE tokens' = Append(tokens, t) /\ pc' = next
  <2>1. TokensOK' /\ LastStop' = t.stop BY <1>1, <1>2, <1>3, TokenAdded
  <2>2. CASE next = "returned" BY <1>3, <2>1, <2>2, StoppedTells
  <2>3. CASE next = "scan"
    <3>1. From' = t.stop /\ t.stop \in Nat BY <1>3, <2>3 DEF From, Token
    <3>2. t.stop <= t.stop /\ \A p \in t.stop .. t.stop - 1 : FALSE BY <3>1
    <3> QED BY <1>3, <2>1, <2>3, <3>1, <3>2 DEF TellInv, GapOK
  <2> QED BY <2>2, <2>3
<1>4. CASE UNCHANGED tokens /\ pc' = "exited"
  <2>1. TokensOK' BY <1>1, <1>4, TokensStay
  <2> QED BY <1>4, <2>1, StoppedTells
<1>5. t = [type |-> t.type, start |-> t.start, stop |-> t.stop, size |-> t.size] BY DEF Token
<1> QED BY <1>3, <1>4, <1>5 DEF AddToken

LEMMA AllocateTells == ASSUME IInv, TellInv, AllocState \/ AllocQuery \/ AllocTokens PROVE TellInv'
<1>1. /\ pc \in {"idle", "init_query", "init_tokens"}
      /\ UNCHANGED <<query, position, start, literal, tokens>>
      /\ pc' \in {"init_query", "init_tokens", "scan", "returned"}
  BY DEF AllocState, AllocQuery, AllocTokens, Allocate, Return
<1>2. tokens' = <<>> /\ position' = 0 BY <1>1 DEF IInv, HeapOK, TellInv, GapOK
<1>3. TokensOK' BY <1>2 DEF TokensOK
<1>4. GapOK' BY <1>1, <1>2 DEF GapOK, LastStop, From
<1> QED BY <1>1, <1>3, <1>4 DEF TellInv

LEMMA SkipTells == ASSUME IInv, TellInv, Skip PROVE TellInv'
<1>1. PICK c \in Skipped : Read(position, c) BY DEF Skip
<1>2. pc = "scan" /\ pc' = "scan" /\ position' = position + 1 /\ UNCHANGED tokens BY DEF Skip
<1>3. Grows /\ position < Len(query') /\ query'[position + 1] = c
  BY <1>1, <1>2, ReadHereGrows DEF Reading
<1>4. PICK p \in Nat : p = position BY DEF IInv, TypeOK
<1>5. Gone(p)' BY <1>3, <1>4 DEF Gone, Char
<1>6. /\ TokensOK' /\ LastStop' = LastStop /\ LastStop \in Nat /\ LastStop <= p
      /\ \A r \in LastStop .. p - 1 : Gone(r)'
  BY <1>2, <1>3, <1>4, GapStays DEF IInv, From
<1>7. From' = p + 1 BY <1>2, <1>4 DEF From
<1>8. \A r \in LastStop .. p + 1 - 1 : Gone(r)'
  <2>1. \A r \in LastStop .. p + 1 - 1 : r = p \/ r \in LastStop .. p - 1 BY <1>6
  <2> QED BY <1>5, <1>6, <2>1
<1>9. LastStop <= p + 1 BY <1>6
<1> QED BY <1>2, <1>6, <1>7, <1>8, <1>9 DEF TellInv, GapOK

LEMMA StartTells == ASSUME IInv, TellInv, StartWord \/ StartNumber \/ Minus PROVE TellInv'
<1>1. PICK c \in WordStart \cup Digits \cup {"minus"} :
        /\ Read(position, c)
        /\ \/ c \in WordStart /\ pc' = "word" /\ start' = position
           \/ c \in Digits /\ pc' = "number" /\ start' = position /\ decimal' = FALSE
           \/ c = "minus" /\ pc' = "minus"
  BY DEF StartWord, StartNumber, Minus
<1>2. pc = "scan" /\ UNCHANGED <<position, tokens>> BY DEF StartWord, StartNumber, Minus
<1>3. Grows /\ position < Len(query') /\ query'[position + 1] = c
  BY <1>1, <1>2, ReadHereGrows DEF Reading
<1>4. PICK p \in Nat : p = position BY DEF IInv, TypeOK
<1>5. Char(p)' = c /\ p < Len(query') BY <1>3, <1>4 DEF Char
<1>6. /\ TokensOK' /\ LastStop' = LastStop /\ LastStop <= p
      /\ \A r \in LastStop .. p - 1 : Gone(r)'
  BY <1>2, <1>3, <1>4, GapStays DEF IInv, From
<1>7. From' = p BY <1>1, <1>2, <1>4 DEF From
<1>8. GapOK' BY <1>1, <1>2, <1>4, <1>5, <1>6, <1>7 DEF GapOK
<1>9. \A r \in p .. p - 1 : FALSE OBVIOUS
<1>10. ASSUME pc' = "word" PROVE WordSoFar'
  <2>1. c \in WordStart /\ start' = p /\ position' = p BY <1>1, <1>2, <1>4, <1>10
  <2> QED BY <1>5, <1>9, <2>1 DEF WordSoFar
<1>11. ASSUME pc' = "number" PROVE NumberSoFar'
  <2>1. c \in Digits /\ start' = p /\ position' = p /\ decimal' = FALSE BY <1>1, <1>2, <1>4, <1>11
  <2>2. {r \in p .. p - 1 : Char(r)' = "dot"} = {} BY <1>9
  <2>3. p \in p .. p OBVIOUS
  <2> QED BY <1>5, <1>9, <2>1, <2>2, <2>3, FS_EmptySet DEF NumberSoFar
<1>12. pc' # "string" BY <1>1
<1> QED BY <1>6, <1>8, <1>10, <1>11, <1>12 DEF TellInv

LEMMA AfterMinusTells == ASSUME IInv, TellInv, AfterMinus PROVE TellInv'
<1>1. PICK c \in Chars :
        /\ Read(position + 1, c)
        /\ \/ c \in Digits /\ pc' = "number" /\ start' = position /\ decimal' = FALSE
           \/ c \notin Digits /\ pc' = "scan" /\ UNCHANGED <<start, decimal>>
  BY DEF AfterMinus
<1>2. pc = "minus" /\ position' = position + 1 /\ UNCHANGED tokens BY DEF AfterMinus
<1>3. Grows /\ position + 1 < Len(query') /\ query'[position + 1 + 1] = c
  BY <1>1, <1>2, ReadGrows DEF IInv, PositionOK
<1>4. PICK p \in Nat : p = position BY DEF IInv, TypeOK
<1>5. p < Len(query) /\ Char(p) = "minus" BY <1>2, <1>4 DEF TellInv, GapOK
<1>6. Char(p)' = "minus" /\ p + 1 < Len(query') /\ Char(p + 1)' = c
  <2>1. Len(query) \in Nat /\ p \in 0 .. Len(query) - 1 BY <1>3, <1>5 DEF Grows
  <2>2. query'[p + 1] = query[p + 1] BY <1>3, <2>1 DEF Grows
  <2> QED BY <1>3, <1>4, <1>5, <2>2 DEF Char
<1>7. /\ TokensOK' /\ LastStop' = LastStop /\ LastStop \in Nat /\ LastStop <= p
      /\ \A r \in LastStop .. p - 1 : Gone(r)'
  BY <1>2, <1>3, <1>4, GapStays DEF IInv, From
<1>8. Len(query') \in Nat /\ p < Len(query') BY <1>3, <1>6 DEF Grows
<1>9. CASE c \in Digits /\ pc' = "number" /\ start' = position /\ decimal' = FALSE
  <2>1. From' = p /\ start' = p /\ position' = p + 1 BY <1>2, <1>4, <1>9 DEF From
  <2>2. GapOK' BY <1>7, <1>9, <2>1 DEF GapOK
  <2>3. \A r \in start' .. position' - 1 : r = p BY <2>1
  <2>4. {r \in start .. position - 1 : Char(r) = "dot"}' = {} BY <1>6, <2>3
  <2>5. p + 1 \in start' .. position' /\ ~(p > p) BY <2>1
  <2>6. Cardinality({r \in start .. position - 1 : Char(r) = "dot"})' = 0
    BY <2>4, FS_EmptySet
  <2>7. NumberSoFar'
    BY <1>6, <1>8, <1>9, <2>1, <2>3, <2>5, <2>6 DEF NumberSoFar
  <2> QED BY <1>7, <1>9, <2>2, <2>7 DEF TellInv
<1>10. CASE c \notin Digits /\ pc' = "scan"
  <2>1. Gone(p)' BY <1>6, <1>8, <1>10 DEF Gone
  <2>2. From' = p + 1 BY <1>2, <1>4, <1>10 DEF From
  <2>3. \A r \in LastStop .. p + 1 - 1 : Gone(r)'
    <3>1. \A r \in LastStop .. p + 1 - 1 : r = p \/ r \in LastStop .. p - 1 BY <1>7
    <3> QED BY <1>7, <2>1, <3>1
  <2>4. LastStop <= p + 1 BY <1>7
  <2> QED BY <1>7, <1>10, <2>2, <2>3, <2>4 DEF TellInv, GapOK
<1> QED BY <1>1, <1>9, <1>10

LEMMA StartStringTells == ASSUME IInv, TellInv, StartString PROVE TellInv'
<1>1. PICK c \in Quotes : Read(position, c) BY DEF StartString
<1>2. pc = "scan" /\ UNCHANGED tokens BY DEF StartString
<1>3. Grows /\ position < Len(query') /\ query'[position + 1] = c
  BY <1>1, <1>2, ReadHereGrows DEF Reading
<1>4. PICK p \in Nat : p = position BY DEF IInv, TypeOK
<1>5. /\ TokensOK' /\ LastStop' = LastStop /\ LastStop \in Nat /\ LastStop <= p
      /\ \A r \in LastStop .. p - 1 : Gone(r)'
  BY <1>2, <1>3, <1>4, GapStays DEF IInv, From
<1>6. CASE pc' = "returned" BY <1>5, <1>6, StoppedTells
<1>7. CASE pc' = "string"
  <2>1. start' = p /\ position' = p + 1 /\ escape' = FALSE /\ length' = 0 /\ text' = 0
    BY <1>4, <1>7 DEF StartString, Return
  <2>2. GapOK' BY <1>5, <1>7, <2>1 DEF GapOK, From
  <2>3. PICK t \in Token : t = Begun(p, p + 1, 0) BY BegunToken
  <2>4. t.start = p /\ t.stop = p + 2 BY <2>3 DEF Begun
  <2>5. Body(t) = {} BY <2>4 DEF Body
  <2>6. CutAt(t)' = {} /\ Kept(t)' = {} BY <2>5 DEF CutAt, Kept, Body
  <2>7. StringSize(t)' = 0
    <3>1. Openers(t)' = {} /\ Unknown(t)' = {} BY <2>6 DEF Openers, Unknown
    <3>2. StringSize(t)' = Cardinality(Kept(t)') - Cardinality(Openers(t)') + Cardinality(Unknown(t)')
      BY DEF StringSize, Openers, Unknown
    <3> QED BY <2>6, <3>1, <3>2, FS_EmptySet
  <2>8. RunStart(p, p + 1, p)' /\ p \in p .. p + 1 - 1 BY DEF RunStart
  <2>9. ~EscapedAt(t, p + 1)'
    <3>1. EscapedAt(t, p + 1)' <=> (p + 1 - p) % 2 = 0 BY <2>4, <2>8, EscapedByRunNext
    <3>2. ~((p + 1 - p) % 2 = 0) OBVIOUS
    <3> QED BY <3>1, <3>2
  <2>10. Char(p)' \in Quotes BY <1>3, <1>4 DEF Char
  <2>11. t = Begun(start, position, text)' BY <2>1, <2>3 DEF Begun
  <2>12. StringSoFar'
    BY <2>1, <2>5, <2>6, <2>7, <2>8, <2>9, <2>10, <2>11 DEF StringSoFar, Body
  <2> QED BY <1>5, <1>7, <2>2, <2>12 DEF TellInv
<1> QED BY <1>6, <1>7 DEF StartString, Return

LEMMA SingleTells == ASSUME IInv, TellInv, SingleToken \/ Semicolon PROVE TellInv'
<1>1. PICK c \in DOMAIN Single \cup {"semicolon"} :
        /\ Read(position, c)
        /\ \/ /\ c \in DOMAIN Single /\ AddToken(Single[c], position, position + 1, 1, "scan")
              /\ position' = IF pc' = "scan" THEN position + 1 ELSE position
           \/ /\ c = "semicolon" /\ AddToken("EOF", position, position + 1, 1, "returned")
  BY DEF SingleToken, Semicolon
<1>2. pc = "scan" BY DEF SingleToken, Semicolon
<1>3. Grows /\ position < Len(query') /\ query'[position + 1] = c
  BY <1>1, <1>2, ReadHereGrows DEF Reading
<1>4. PICK p \in Nat : p = position BY DEF IInv, TypeOK
<1>5. PICK type : type = IF c = "semicolon" THEN "EOF" ELSE Single[c] OBVIOUS
<1>6. /\ "semicolon" \notin DOMAIN Single
      /\ type \in TokenTypes \ (WordTypes \cup {"INTEGER_LITERAL", "REAL_LITERAL", "STRING_LITERAL"})
      /\ type = "EOF" <=> c = "semicolon"
  BY <1>1, <1>5 DEF Single, TokenTypes, WordTypes
<1>7. PICK t \in Token : t = [type |-> type, start |-> p, stop |-> p + 1, size |-> 1]
  <2>1. [type |-> type, start |-> p, stop |-> p + 1, size |-> 1] \in Token BY <1>6 DEF Token
  <2> QED BY <2>1, Zenon
<1>8. t.type = type /\ t.start = p /\ t.stop = p + 1 /\ t.size = 1 BY <1>7
<1>9. Char(p)' = c /\ p < Len(query') /\ Len(query') \in Nat BY <1>3, <1>4 DEF Char, Grows
<1>10. Within(t)' BY <1>6, <1>8, <1>9 DEF Within
<1>11. Lexeme(t)' BY <1>5, <1>6, <1>8, <1>9 DEF Lexeme
<1>12. t.start = From BY <1>2, <1>4, <1>8 DEF From
<1>13. PICK next \in {"scan", "returned"} :
         AddToken(t.type, t.start, t.stop, t.size, next) /\ (next = "scan" => c # "semicolon")
  BY <1>1, <1>4, <1>5, <1>6, <1>8
<1>14. pc' = "scan" => position' = t.stop
  <2>1. pc' \in {next, "exited"} BY <1>13 DEF AddToken
  <2> QED BY <1>1, <1>4, <1>8, <1>13, <2>1
<1> QED BY <1>2, <1>3, <1>10, <1>11, <1>12, <1>13, <1>14, NewTokenTells

(* An error keeps the tokens. *)
LEMMA ErrorTells ==
  ASSUME IInv, TellInv, Grows, UNCHANGED tokens, pc' = "returned"
  PROVE  TellInv'
<1>1. TokensOK' BY TokensStay DEF IInv, TellInv
<1> QED BY <1>1, StoppedTells

LEMMA EndOfLineTells == ASSUME IInv, TellInv, EndOfLine PROVE TellInv'
<1>1. pc = "scan" /\ Read(position, NUL) /\ UNCHANGED tokens /\ pc' = "returned"
  BY DEF EndOfLine, Return
<1>2. Grows BY <1>1, ReadHereGrows DEF Reading
<1> QED BY <1>1, <1>2, ErrorTells

(* Inside a word or a number or a string, the gap before it stays.         *)
LEMMA InsideTells ==
  ASSUME IInv, TellInv, Grows, pc \in {"word", "number", "string"},
         UNCHANGED <<pc, start, tokens>>
  PROVE  TokensOK' /\ GapOK'
<1>1. /\ TokensOK' /\ LastStop' = LastStop /\ LastStop <= start
      /\ \A r \in LastStop .. start - 1 : Gone(r)'
  BY GapStays DEF IInv, From
<1>2. start \in Nat /\ LastStop \in Nat BY LastStopType DEF IInv, TypeOK
<1>3. From' = start BY DEF From
<1> QED BY <1>1, <1>3 DEF GapOK

(* The token that read_word and read_numeric_literal copy. *)
LEMMA CopiedTells ==
  ASSUME IInv, TellInv, Grows, pc \in {"word", "number"},
         NEW types \in SUBSET (WordTypes \cup {"INTEGER_LITERAL", "REAL_LITERAL"}), NEW error,
         Copied(types, error), position < Len(query'),
         \A t \in Token : t.type \in types /\ t.start = start /\ t.stop = position => Lexeme(t)'
  PROVE  TellInv'
<1>1. start <= position /\ {start, position} \subseteq Nat /\ position - start \in Nat
  BY DEF IInv, TypeOK, PositionOK
<1>2. CASE \E type \in types : AddToken(type, start, position, position - start, "scan")
  <2>1. PICK type \in types : AddToken(type, start, position, position - start, "scan") BY <1>2
  <2>2. PICK t \in Token :
          t = [type |-> type, start |-> start, stop |-> position, size |-> position - start]
    <3>1. [type |-> type, start |-> start, stop |-> position, size |-> position - start] \in Token
      BY <1>1 DEF Token, TokenTypes
    <3> QED BY <3>1, Zenon
  <2>3. t.type = type /\ t.start = start /\ t.stop = position /\ t.size = position - start BY <2>2
  <2>4. Lexeme(t)' BY <2>3
  <2>5. Within(t)'
    <3>1. Len(query') \in Nat BY DEF Grows
    <3> QED BY <1>1, <2>3, <3>1 DEF Within
  <2>6. t.start = From BY <2>3 DEF From
  <2>7. position' = t.stop BY <2>3 DEF Copied
  <2>8. AddToken(t.type, t.start, t.stop, t.size, "scan") BY <2>1, <2>3
  <2> QED BY <2>4, <2>5, <2>6, <2>7, <2>8, NewTokenTells
<1>3. CASE Return(error) /\ UNCHANGED <<tokens, heap>>
  BY <1>3, ErrorTells DEF Return
<1> QED BY <1>2, <1>3 DEF Copied

LEMMA ReadWordTells == ASSUME IInv, TellInv, ReadWord PROVE TellInv'
<1>1. PICK c \in Chars :
        /\ Read(position, c)
        /\ \/ c \in WordChars /\ Advance /\ UNCHANGED decimal
           \/ c \notin WordChars /\ Copied(WordTypes, "READ_WORD_ERROR")
  BY DEF ReadWord
<1>2. pc = "word" BY DEF ReadWord
<1>3. Grows /\ position < Len(query') /\ query'[position + 1] = c
  BY <1>1, <1>2, ReadHereGrows DEF Reading
<1>4. PICK p \in Nat, f \in Nat : p = position /\ f = start /\ f <= p
  BY <1>2 DEF IInv, TypeOK, PositionOK
<1>5. p <= Len(query) /\ Len(query) \in Nat /\ Len(query') \in Nat /\ Len(query) <= Len(query')
  BY <1>2, <1>3, <1>4 DEF IInv, PositionOK, Reading, Fits, Grows
<1>6. f < Len(query) /\ Char(f) \in WordStart /\ \A r \in f .. p - 1 : Char(r) \in WordChars
  BY <1>2, <1>4 DEF TellInv, WordSoFar
<1>7. /\ Char(f)' = Char(f) /\ Char(p)' = c /\ \A r \in f .. p - 1 : Char(r)' = Char(r)
  <2>1. f \in 0 .. Len(query) - 1 /\ \A r \in f .. p - 1 : r \in 0 .. Len(query) - 1
    BY <1>5, <1>6
  <2> QED BY <1>3, <1>4, <2>1 DEF Grows, Char
<1>8. CASE c \in WordChars /\ Advance
  <2>1. start' = f /\ position' = p + 1 /\ pc' = "word" /\ UNCHANGED <<pc, start, tokens>>
    BY <1>2, <1>4, <1>8 DEF Advance
  <2>2. \A r \in f .. p + 1 - 1 : Char(r)' \in WordChars
    <3>1. \A r \in f .. p + 1 - 1 : r = p \/ r \in f .. p - 1 OBVIOUS
    <3> QED BY <1>6, <1>7, <1>8, <3>1
  <2>3. WordSoFar' BY <1>5, <1>6, <1>7, <2>1, <2>2 DEF WordSoFar
  <2>4. TokensOK' /\ GapOK' BY <1>2, <1>3, <2>1, InsideTells
  <2> QED BY <2>1, <2>3, <2>4 DEF TellInv
<1>9. CASE c \notin WordChars /\ Copied(WordTypes, "READ_WORD_ERROR")
  <2>1. ASSUME NEW t \in Token, t.type \in WordTypes, t.start = start, t.stop = position
        PROVE  Lexeme(t)'
    <3>1. WordLexeme(t)' BY <1>4, <1>6, <1>7, <1>9, <2>1 DEF WordLexeme, Inside
    <3> QED BY <2>1, <3>1 DEF Lexeme, WordTypes
  <2>2. WordTypes \in SUBSET (WordTypes \cup {"INTEGER_LITERAL", "REAL_LITERAL"}) OBVIOUS
  <2> QED BY <1>2, <1>3, <1>9, <2>1, <2>2, CopiedTells
<1> QED BY <1>1, <1>8, <1>9

LEMMA ReadNumberTells == ASSUME IInv, TellInv, ReadNumber PROVE TellInv'
<1>1. PICK c \in Chars :
        /\ Read(position, c)
        /\ \/ c \in Digits /\ Advance /\ UNCHANGED decimal
           \/ c = "dot" /\ ~decimal /\ Advance /\ decimal' = TRUE
           \/ /\ c \notin Digits /\ (c = "dot" => decimal)
              /\ Copied({IF decimal THEN "REAL_LITERAL" ELSE "INTEGER_LITERAL"}, "READ_NUMBER_ERROR")
  BY DEF ReadNumber
<1>2. pc = "number" /\ decimal \in BOOLEAN BY DEF ReadNumber, IInv, TypeOK
<1>3. Grows /\ position < Len(query') /\ query'[position + 1] = c
  BY <1>1, <1>2, ReadHereGrows DEF Reading
<1>4. PICK p \in Nat, f \in Nat : p = position /\ f = start /\ f <= p
  BY <1>2 DEF IInv, TypeOK, PositionOK
<1>5. p <= Len(query) /\ Len(query) \in Nat /\ Len(query') \in Nat /\ Len(query) <= Len(query')
  BY <1>2, <1>3, <1>4 DEF IInv, PositionOK, Reading, Fits, Grows
<1> DEFINE dots == {r \in f .. p - 1 : Char(r) = "dot"}
<1>6. /\ f < Len(query) /\ Char(f) \in Digits \cup {"minus"}
      /\ Cardinality(dots) = IF decimal THEN 1 ELSE 0
      /\ \A r \in f .. p - 1 : r > f => Char(r) \in Digits \cup {"dot"}
  BY <1>2, <1>4 DEF TellInv, NumberSoFar
<1>7. PICK d \in f .. p : d < Len(query) /\ Char(d) \in Digits
  BY <1>2, <1>4 DEF TellInv, NumberSoFar
<1>8. /\ Char(f)' = Char(f) /\ Char(d)' = Char(d) /\ Char(p)' = c
      /\ \A r \in f .. p - 1 : Char(r)' = Char(r)
  <2>1. f \in 0 .. Len(query) - 1 /\ d \in 0 .. Len(query) - 1 /\ \A r \in f .. p - 1 : r \in 0 .. Len(query) - 1
    BY <1>5, <1>6, <1>7
  <2> QED BY <1>3, <1>4, <2>1 DEF Grows, Char
<1>9. {r \in f .. p - 1 : Char(r)' = "dot"} = dots BY <1>8
<1>10. IsFiniteSet(dots)
  <2>1. IsFiniteSet(f .. p - 1) BY FS_Interval
  <2>2. dots \in SUBSET (f .. p - 1) OBVIOUS
  <2> HIDE DEF dots
  <2> QED BY <2>1, <2>2, FS_Subset
<1>11. CASE /\ c \in Digits \cup {"dot"} /\ Advance
            /\ IF c = "dot" THEN ~decimal /\ decimal' = TRUE ELSE decimal' = decimal
  <2>1. start' = f /\ position' = p + 1 /\ pc' = "number" /\ UNCHANGED <<pc, start, tokens>>
    BY <1>2, <1>4, <1>11 DEF Advance
  <2>2. \A r \in f .. p + 1 - 1 : r > f => Char(r)' \in Digits \cup {"dot"}
    <3>1. \A r \in f .. p + 1 - 1 : r = p \/ r \in f .. p - 1 OBVIOUS
    <3> QED BY <1>6, <1>8, <1>11, <3>1
  <2>3. Cardinality({r \in f .. p + 1 - 1 : Char(r)' = "dot"}) = IF decimal' THEN 1 ELSE 0
    <3>1. \A r : r \in f .. p + 1 - 1 <=> (r = p \/ r \in f .. p - 1) BY <1>4
    <3>2. p \notin dots OBVIOUS
    <3>3. {r \in f .. p + 1 - 1 : Char(r)' = "dot"} = IF c = "dot" THEN dots \cup {p} ELSE dots
      BY <1>8, <1>9, <3>1
    <3> HIDE DEF dots
    <3>4. Cardinality(dots \cup {p}) = Cardinality(dots) + 1 BY <1>10, <3>2, FS_AddElement
    <3>5. CASE c = "dot"
      <4>1. Cardinality(dots) = 0 /\ decimal' = TRUE BY <1>6, <1>11, <3>5
      <4> QED BY <3>3, <3>4, <3>5, <4>1
    <3>6. CASE c # "dot"
      <4>1. decimal' = decimal BY <1>11, <3>6
      <4> QED BY <1>6, <3>3, <3>6, <4>1
    <3> QED BY <3>5, <3>6
  <2>4. d \in f .. p + 1 /\ d < Len(query') /\ Char(d)' \in Digits BY <1>4, <1>5, <1>7, <1>8
  <2>5. NumberSoFar'
    <3>1. {r \in start .. position - 1 : Char(r) = "dot"}' = {r \in f .. p + 1 - 1 : Char(r)' = "dot"}
      BY <2>1
    <3>2. Cardinality({r \in start .. position - 1 : Char(r) = "dot"})' = IF decimal' THEN 1 ELSE 0
      BY <2>3, <3>1
    <3>3. f < Len(query') BY <1>5, <1>6
    <3> QED BY <1>6, <1>8, <2>1, <2>2, <2>4, <3>2, <3>3 DEF NumberSoFar
  <2>6. TokensOK' /\ GapOK' BY <1>2, <1>3, <2>1, InsideTells
  <2> QED BY <2>1, <2>5, <2>6 DEF TellInv
<1>12. CASE /\ c \notin Digits /\ (c = "dot" => decimal)
            /\ Copied({IF decimal THEN "REAL_LITERAL" ELSE "INTEGER_LITERAL"}, "READ_NUMBER_ERROR")
  <2>1. ASSUME NEW t \in Token, t.type = (IF decimal THEN "REAL_LITERAL" ELSE "INTEGER_LITERAL"),
               t.start = start, t.stop = position
        PROVE  Lexeme(t)'
    <3>1. Inside(t) = f .. p - 1 /\ Inside(t)' = f .. p - 1 BY <1>4, <2>1 DEF Inside
    <3>2. d # p BY <1>7, <1>8, <1>12
    <3>3. d \in f .. p - 1 BY <1>7, <3>2
    <3>4. PICK n \in {0, 1} : n = IF decimal THEN 1 ELSE 0 BY <1>2
    <3>5. {r \in Inside(t) : Char(r) = "dot"}' = dots BY <1>9, <3>1
    <3> HIDE DEF dots
    <3>6. NumberLexeme(t, n)'
      BY <1>4, <1>6, <1>7, <1>8, <1>12, <2>1, <3>1, <3>3, <3>4, <3>5 DEF NumberLexeme
    <3> QED BY <1>2, <2>1, <3>4, <3>6 DEF Lexeme, WordTypes
  <2>2. {IF decimal THEN "REAL_LITERAL" ELSE "INTEGER_LITERAL"}
          \in SUBSET (WordTypes \cup {"INTEGER_LITERAL", "REAL_LITERAL"})
    OBVIOUS
  <2> QED BY <1>2, <1>3, <1>12, <2>1, <2>2, CopiedTells
<1> QED BY <1>1, <1>11, <1>12 DEF Digits

LEMMA ReadStringTells == ASSUME IInv, TellInv, ReadString PROVE TellInv'
<1>1. PICK c \in Chars :
        /\ Read(position, c)
        /\ \/ StringError
           \/ c # NUL /\ Closes(c) /\ StringEnd
           \/ c # NUL /\ ~Closes(c) /\ StringChar(c)
  BY DEF ReadString
<1>2. pc = "string" BY DEF ReadString
<1>3. Grows /\ position < Len(query') /\ query'[position + 1] = c
  BY <1>1, <1>2, ReadHereGrows DEF Reading
<1>4. CASE StringError
  <2>1. pc' = "returned" /\ UNCHANGED tokens BY <1>4 DEF StringError, Return
  <2> QED BY <1>3, <2>1, ErrorTells
<1>5. CASE Closes(c) /\ StringEnd
  <2>1. PICK p \in Nat, f \in Nat : p = position /\ f = start
    BY DEF IInv, TypeOK
  <2>2. text \in Nat BY DEF IInv, TypeOK
  <2>3. PICK t \in Token : t = Begun(f, p, text) BY <2>2, BegunToken
  <2>4. /\ t.type = "STRING_LITERAL" /\ t.start = f /\ t.stop = p + 1 /\ t.size = text
    BY <2>3 DEF Begun
  <2>5. /\ f < p /\ Char(f) \in Quotes
        /\ escape <=> EscapedAt(t, p)
        /\ \A r \in Body(t) : Char(r) = Char(f) => EscapedAt(t, r)
        /\ text = StringSize(t)
    BY <1>2, <2>1, <2>3 DEF TellInv, StringSoFar
  <2>6. p <= Len(query) /\ Len(query) \in Nat /\ Len(query') \in Nat /\ p < Len(query')
    BY <1>2, <1>3, <2>1 DEF IInv, PositionOK, Reading, Fits, Grows
  <2>7. Char(f)' = Char(f) /\ Char(p)' = c
    <3>1. f \in 0 .. Len(query) - 1 BY <2>5, <2>6
    <3> QED BY <1>3, <2>1, <3>1 DEF Grows, Char
  <2>8. /\ \A r \in Body(t) : Char(r)' = Char(r) /\ (EscapedAt(t, r)' <=> EscapedAt(t, r))
        /\ StringSize(t)' = StringSize(t)
    BY <1>3, <2>4, <2>6, StringStays
  <2>9. EscapedAt(t, p)' <=> EscapedAt(t, p) BY <1>3, <2>6, EscapedStays
  <2>10. c = Char(f) /\ ~escape BY <1>5, <2>1 DEF Closes, Char
  <2>11. Body(t)' = Body(t) /\ t.stop - 1 = p BY <2>4 DEF Body
  <2>12. StringLexeme(t)'
    BY <2>4, <2>5, <2>7, <2>8, <2>9, <2>10, <2>11 DEF StringLexeme
  <2>13. Lexeme(t)' BY <2>4, <2>12 DEF Lexeme, WordTypes
  <2>14. Within(t)' BY <2>4, <2>5, <2>6 DEF Within, WordTypes
  <2>15. /\ AddToken(t.type, t.start, t.stop, t.size, "scan") /\ t.start = From
         /\ position' = t.stop
    BY <1>2, <1>5, <2>1, <2>4 DEF StringEnd, From
  <2> QED BY <1>2, <1>3, <2>13, <2>14, <2>15, NewTokenTells
<1>6. CASE ~Closes(c) /\ StringChar(c)
  <2>1. UNCHANGED <<pc, start, tokens>> BY <1>6, Zenon DEF StringChar
  <2>2. TokensOK' /\ GapOK' BY <1>2, <1>3, <2>1, InsideTells
  <2>3. StringSoFar' BY <1>2, <1>3, <1>6, StringCharTells DEF TellInv
  <2> QED BY <1>2, <2>1, <2>2, <2>3 DEF TellInv
<1> QED BY <1>1, <1>4, <1>5, <1>6

LEMMA ReleaseTells == ASSUME IInv, TellInv, Release PROVE TellInv'
<1>1. UNCHANGED <<query, tokens>> /\ pc' = "done" BY DEF Release
<1>2. Grows BY <1>1 DEF Grows, IInv, TypeOK
<1>3. TokensOK' BY <1>1, <1>2, TokensStay DEF IInv, TellInv
<1> QED BY <1>1, <1>3, StoppedTells

LEMMA NextLineTells == ASSUME NextLine PROVE TellInv'
BY DEF NextLine, TellInv, TokensOK, GapOK, LastStop, From

LEMMA StepTells == ASSUME IInv, TellInv, [Next]_vars PROVE TellInv'
<1>1. CASE UNCHANGED vars
  <2>1. UNCHANGED <<pc, query, position, start, decimal, escape, length, text, tokens>>
    BY <1>1 DEF vars, literal
  <2>2. Grows BY <2>1 DEF Grows, IInv, TypeOK
  <2>3. TokensOK' BY <2>1, <2>2, TokensStay DEF IInv, TellInv
  <2>4. GapOK'
    BY <2>1 DEF TellInv, GapOK, LastStop, From, Gone, Char
  <2>5. (WordSoFar <=> WordSoFar') /\ (NumberSoFar <=> NumberSoFar')
    BY <2>1 DEF WordSoFar, NumberSoFar, Char
  <2>6. ASSUME pc' = "string" PROVE StringSoFar'
    <3>1. PICK p \in Nat, f \in Nat, n \in Nat : p = position /\ f = start /\ n = text
      BY DEF IInv, TypeOK
    <3>2. PICK t \in Token : t = Begun(f, p, n) BY BegunToken
    <3>3. t = Begun(start, position, text) /\ t = Begun(start, position, text)'
      BY <2>1, <3>1, <3>2 DEF Begun
    <3>4. t.start = f /\ t.stop = p + 1 /\ p <= Len(query)
      BY <2>1, <2>6, <3>1, <3>2 DEF Begun, IInv, PositionOK, Reading, Fits
    <3>5. /\ \A r \in Body(t) : Char(r)' = Char(r) /\ (EscapedAt(t, r)' <=> EscapedAt(t, r))
          /\ CutAt(t)' = CutAt(t) /\ StringSize(t)' = StringSize(t)
      BY <2>2, <3>4, StringStays DEF Grows
    <3>6. EscapedAt(t, p)' <=> EscapedAt(t, p) BY <2>2, <3>4, EscapedStays
    <3>7. StringSoFar BY <2>1, <2>6 DEF TellInv
    <3>8. \A q : RunStart(f, p, q)' <=> RunStart(f, p, q) BY <2>1 DEF RunStart, Char
    <3>9. Char(f)' = Char(f) BY <2>1 DEF Char
    <3>10. Body(t)' = Body(t) BY DEF Body
    <3> QED BY <2>1, <3>1, <3>3, <3>5, <3>6, <3>7, <3>8, <3>9, <3>10 DEF StringSoFar
  <2> QED BY <2>1, <2>3, <2>4, <2>5, <2>6 DEF TellInv
<1>2. CASE Next
  <2>1. CASE AllocState \/ AllocQuery \/ AllocTokens BY <2>1, AllocateTells
  <2>2. CASE Skip BY <2>2, SkipTells
  <2>3. CASE StartWord \/ StartNumber \/ Minus BY <2>3, StartTells
  <2>4. CASE AfterMinus BY <2>4, AfterMinusTells
  <2>5. CASE StartString BY <2>5, StartStringTells
  <2>6. CASE SingleToken \/ Semicolon BY <2>6, SingleTells
  <2>7. CASE EndOfLine BY <2>7, EndOfLineTells
  <2>8. CASE ReadWord BY <2>8, ReadWordTells
  <2>9. CASE ReadNumber BY <2>9, ReadNumberTells
  <2>10. CASE ReadString BY <2>10, ReadStringTells
  <2>11. CASE Release BY <2>11, ReleaseTells
  <2>12. CASE NextLine BY <2>12, NextLineTells
  <2> QED BY <1>2, <2>1, <2>2, <2>3, <2>4, <2>5, <2>6, <2>7, <2>8, <2>9, <2>10, <2>11,
             <2>12 DEF Next, ScanStep
<1> QED BY <1>1, <1>2

(* Every token of the array is a lexeme of its type, as long as it can be, *)
(* with a text of the right size however its escapes fall; and between     *)
(* tokens only what nothing asks for is lost.                              *)
THEOREM TokensAreTheLine == Spec => []TokensTellTheLine
<1>1. Spec => []TellInv BY Inductive, InitTells, StepTells, PTL DEF Spec
<1>2. ASSUME TellInv PROVE TokensTellTheLine
  <2>1. TokensAreLexemes BY <1>2 DEF TellInv, TokensOK, TokensAreLexemes
  <2>2. \A p : Gone(p) => Vanishes(p) BY DEF Gone, Vanishes
  <2>3. NothingElseVanishes BY <1>2, <2>2 DEF TellInv, TokensOK, NothingElseVanishes
  <2> QED BY <2>1, <2>3 DEF TokensTellTheLine
<1> QED BY <1>1, <1>2, PTL
=============================================================================
