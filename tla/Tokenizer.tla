------------------------------ MODULE Tokenizer ------------------------------
(***************************************************************************)
(* The scanner (parser/tokenizer/tokenizer.c, tokenizer_utils.c): from a   *)
(* line to an array of tokens, and the memory that takes.                  *)
(*                                                                         *)
(* The line supplies a character the first time its position is read, so   *)
(* one behaviour stands for every line that begins with the characters     *)
(* read.  It ends with its NUL; a read behind that is a read behind the    *)
(* array and may find anything.  A character is its class: what isspace,   *)
(* isalpha, isdigit, the comparisons and the switch of escapes tell apart. *)
(* Which word a word is, is left open: it has the type of a keyword, of a  *)
(* boolean literal or of an identifier.                                    *)
(***************************************************************************)
EXTENDS Naturals, Sequences, FiniteSets

CONSTANTS
  Alphabet,        \* the characters of the lines that are looked at
  MaxLength,       \* bound on the length of a line, its NUL included
  InitialCapacity, \* the first capacity of read_string_literal, 16 in the code
  AllocFails       \* TRUE: any allocation may fail

VARIABLES
  pc,       \* where the scanner is
  query,    \* the characters read so far
  position, \* TokenizerState.position, from 0
  start,    \* start_pos of the token under way
  decimal,  \* has_decimal
  escape,   \* escape
  capacity, \* the capacity of value in read_string_literal
  length,   \* the bytes written to it, in the end with the terminator
  text,     \* strlen of it
  tokens,   \* TokenizerState.tokens
  result,   \* the TokenizerResult
  heap      \* the blocks allocated for the line and not freed

literal == <<decimal, escape, capacity, length, text>>
vars == <<pc, query, position, start, literal, tokens, result, heap>>

-----------------------------------------------------------------------------
(* Characters.  "control" is n, t or r, "zero" is 0; "other" is whatever    *)
(* no test asks for.                                                       *)

Digits == {"digit", "zero"}
WordStart == {"letter", "control"}
WordChars == WordStart \cup Digits
Quotes == {"single", "double"}

(* The characters that are tokens by themselves, and their types. *)
Single == [operator |-> "OPERATOR", punctuation |-> "PUNCTUATION", wildcard |-> "WILDCARD"]

(* Those behind a backslash that stand for one character. *)
Escapes == {"control", "zero", "backslash"} \cup Quotes

Skipped == {"space", "dot", "backslash", "other"}

NUL == "NUL"

AllChars == WordChars \cup Quotes \cup DOMAIN Single \cup Skipped \cup {"minus", "semicolon"}

ASSUME TokenizerAssumption ==
  /\ Alphabet \subseteq AllChars
  /\ MaxLength \in Nat \ {0}
  /\ InitialCapacity \in Nat /\ InitialCapacity >= 2
  /\ AllocFails \in BOOLEAN

Chars == Alphabet \cup {NUL}

WordTypes == {"KEYWORD", "BOOLEAN_LITERAL", "IDENTIFIER"}

TokenTypes == WordTypes \cup {"INTEGER_LITERAL", "REAL_LITERAL", "STRING_LITERAL", "EOF"}
                \cup {Single[c] : c \in DOMAIN Single}

Ended == \E i \in 1..Len(query) : query[i] = NUL

Supply == IF Len(query) + 1 >= MaxLength /\ ~Ended THEN {NUL} ELSE Chars

(* c is query[p]. *)
Read(p, c) ==
  IF p < Len(query)
  THEN c = query[p + 1] /\ UNCHANGED query
  ELSE c \in Supply /\ query' = Append(query, c)

-----------------------------------------------------------------------------
(* Memory *)

Block(name) == {<<name, 0>>}
TokenBlocks(n) == {<<"token", i>> : i \in 1..n}

\* Mutant of TokenizerFree: the text of the last token stays allocated.
MutTokenizerFree(n) ==
  Block("state") \cup Block("query") \cup Block("tokens") \cup TokenBlocks(n - 1)

(* tokenizer_free of a state with n tokens. *)
TokenizerFree(n) ==
  Block("state") \cup Block("query") \cup Block("tokens") \cup TokenBlocks(n)

Return(r) == pc' = "returned" /\ result' = r

(* add_token of the text from first up to the character before stop, which *)
(* is size characters long, after which value is freed.  When an           *)
(* allocation fails it frees the state and exits.                          *)
AddToken(type, first, stop, size, next) ==
  /\ \/ /\ tokens' = Append(tokens, [type |-> type, start |-> first, stop |-> stop, size |-> size])
        /\ heap' = (heap \ Block("value")) \cup {<<"token", Len(tokens) + 1>>}
        /\ pc' = next
     \/ /\ AllocFails
        /\ heap' = heap \ TokenizerFree(Len(tokens))
        /\ pc' = "exited"
        /\ UNCHANGED tokens

-----------------------------------------------------------------------------
Init ==
  /\ pc = "idle" /\ query = <<>> /\ position = 0 /\ start = 0
  /\ decimal = FALSE /\ escape = FALSE
  /\ capacity = InitialCapacity /\ length = 0 /\ text = 0
  /\ tokens = <<>> /\ result = "none" /\ heap = {}

(* One allocation of tokenizer_init.  If it fails, what was allocated      *)
(* before is freed.                                                        *)
Allocate(at, name, next, freed, error) ==
  /\ pc = at
  /\ \/ pc' = next /\ heap' = heap \cup Block(name) /\ UNCHANGED result
     \/ /\ AllocFails
        /\ heap' = heap \ freed
        /\ Return(error)
  /\ UNCHANGED <<query, position, start, literal, tokens>>

AllocState == Allocate("idle", "state", "init_query", {}, "STATE_ALLOC_ERROR")

AllocQuery == Allocate("init_query", "query", "init_tokens", Block("state"), "QUERY_ALLOC_ERROR")

AllocTokens ==
  Allocate("init_tokens", "tokens", "scan", Block("query") \cup Block("state"), "TOKENS_ALLOC_ERROR")

-----------------------------------------------------------------------------
(* tokenize_query: the character at position decides. *)

\* Mutant of Skip: a character nothing asks for is not passed.
MutSkip ==
  /\ pc = "scan"
  /\ \E c \in Skipped : Read(position, c) /\ position' = IF c = "space" THEN position + 1 ELSE position
  /\ UNCHANGED <<pc, start, literal, tokens, result, heap>>

(* Space is passed over, and so is what no test asks for. *)
Skip ==
  /\ pc = "scan"
  /\ \E c \in Skipped : Read(position, c)
  /\ position' = position + 1
  /\ UNCHANGED <<pc, start, literal, tokens, result, heap>>

StartWord ==
  /\ pc = "scan"
  /\ \E c \in WordStart : Read(position, c)
  /\ pc' = "word" /\ start' = position
  /\ UNCHANGED <<position, literal, tokens, result, heap>>

StartNumber ==
  /\ pc = "scan"
  /\ \E c \in Digits : Read(position, c)
  /\ pc' = "number" /\ start' = position /\ decimal' = FALSE
  /\ UNCHANGED <<position, escape, capacity, length, text, tokens, result, heap>>

Minus ==
  /\ pc = "scan"
  /\ Read(position, "minus")
  /\ pc' = "minus"
  /\ UNCHANGED <<position, start, literal, tokens, result, heap>>

(* Only a digit behind it makes the minus part of a number. *)
AfterMinus ==
  /\ pc = "minus"
  /\ \E c \in Chars :
       /\ Read(position + 1, c)
       /\ \/ c \in Digits /\ pc' = "number" /\ start' = position /\ decimal' = FALSE
          \/ c \notin Digits /\ pc' = "scan" /\ UNCHANGED <<start, decimal>>
  /\ position' = position + 1
  /\ UNCHANGED <<escape, capacity, length, text, tokens, result, heap>>

StartString ==
  /\ pc = "scan"
  /\ \E c \in Quotes : Read(position, c)
  /\ \/ /\ pc' = "string" /\ start' = position /\ position' = position + 1
        /\ escape' = FALSE /\ capacity' = InitialCapacity /\ length' = 0 /\ text' = 0
        /\ heap' = heap \cup Block("value")
        /\ UNCHANGED <<decimal, result>>
     \/ /\ AllocFails
        /\ Return("READ_STRING_ERROR")
        /\ UNCHANGED <<position, start, literal, heap>>
  /\ UNCHANGED tokens

SingleToken ==
  /\ pc = "scan"
  /\ \E c \in DOMAIN Single :
       Read(position, c) /\ AddToken(Single[c], position, position + 1, 1, "scan")
  /\ position' = IF pc' = "scan" THEN position + 1 ELSE position
  /\ UNCHANGED <<start, literal, result>>

(* The semicolon ends the scan, the end of the line without one is an      *)
(* error.                                                                  *)
Semicolon ==
  /\ pc = "scan"
  /\ Read(position, "semicolon")
  /\ AddToken("EOF", position, position + 1, 1, "returned")
  /\ result' = IF pc' = "returned" THEN "SUCCESS" ELSE result
  /\ UNCHANGED <<position, start, literal>>

\* Mutant of EndOfLine: it ends the scan as a semicolon does.
MutEndOfLine ==
  /\ pc = "scan"
  /\ Read(position, NUL)
  /\ Return("SUCCESS")
  /\ UNCHANGED <<position, start, literal, tokens, heap>>

EndOfLine ==
  /\ pc = "scan"
  /\ Read(position, NUL)
  /\ Return("UNTERMINATED_STATEMENT")
  /\ UNCHANGED <<position, start, literal, tokens, heap>>

-----------------------------------------------------------------------------
(* read_word and read_numeric_literal: first the extent, then the copy.    *)

Advance ==
  /\ position' = position + 1
  /\ UNCHANGED <<pc, start, escape, capacity, length, text, tokens, result, heap>>

(* The copy of the text between start and position. *)
Copied(types, error) ==
  /\ \/ \E t \in types : AddToken(t, start, position, position - start, "scan") /\ UNCHANGED result
     \/ /\ AllocFails
        /\ Return(error)
        /\ UNCHANGED <<tokens, heap>>
  /\ UNCHANGED <<position, start, literal>>

ReadWord ==
  /\ pc = "word"
  /\ \E c \in Chars :
       /\ Read(position, c)
       /\ \/ c \in WordChars /\ Advance /\ UNCHANGED decimal
          \/ c \notin WordChars /\ Copied(WordTypes, "READ_WORD_ERROR")

(* A second dot ends the number. *)
ReadNumber ==
  /\ pc = "number"
  /\ \E c \in Chars :
       /\ Read(position, c)
       /\ \/ c \in Digits /\ Advance /\ UNCHANGED decimal
          \/ c = "dot" /\ ~decimal /\ Advance /\ decimal' = TRUE
          \/ /\ c \notin Digits /\ (c = "dot" => decimal)
             /\ Copied({IF decimal THEN "REAL_LITERAL" ELSE "INTEGER_LITERAL"}, "READ_NUMBER_ERROR")

-----------------------------------------------------------------------------
(* read_string_literal: one turn of its loop.  First the buffer grows when *)
(* it has room for the terminator only.                                    *)

\* Mutant of Grown: room for one character is enough.
MutGrown == IF length >= capacity THEN 2 * capacity ELSE capacity

Grown == IF length >= capacity - 1 THEN 2 * capacity ELSE capacity

(* n characters are written; ends: a \0 is the last of them, which ends    *)
(* the text for strdup.                                                    *)
Write(n, ends) ==
  /\ length' = length + n
  /\ text' = IF text < length THEN text ELSE text + (IF ends THEN 0 ELSE n)

\* Mutant of StringChar: an unknown escape loses its backslash.
MutStringChar(c) ==
  /\ capacity' = Grown /\ position' = position + 1
  /\ \/ escape /\ escape' = FALSE /\ Write(1, c = "zero")
     \/ ~escape /\ c = "backslash" /\ escape' = TRUE /\ UNCHANGED <<length, text>>
     \/ ~escape /\ c # "backslash" /\ Write(1, FALSE) /\ UNCHANGED escape
  /\ UNCHANGED <<pc, start, decimal, tokens, result, heap>>

(* A backslash and a character it does not know are two characters. *)
StringChar(c) ==
  /\ capacity' = Grown /\ position' = position + 1
  /\ \/ escape /\ escape' = FALSE /\ Write(IF c \in Escapes THEN 1 ELSE 2, c = "zero")
     \/ ~escape /\ c = "backslash" /\ escape' = TRUE /\ UNCHANGED <<length, text>>
     \/ ~escape /\ c # "backslash" /\ Write(1, FALSE) /\ UNCHANGED escape
  /\ UNCHANGED <<pc, start, decimal, tokens, result, heap>>

(* The closing quote: the terminator is written and the token added. *)
StringEnd ==
  /\ capacity' = Grown /\ length' = length + 1
  /\ position' = position + 1
  /\ AddToken("STRING_LITERAL", start, position + 1, text, "scan")
  /\ UNCHANGED <<start, decimal, escape, text, result>>

\* Mutant of StringError: the position goes back one too far.
MutStringError ==
  /\ Return("READ_STRING_ERROR")
  /\ position' = start - 1 /\ heap' = heap \ Block("value")
  /\ UNCHANGED <<start, literal, tokens>>

(* The line ends inside the string, or the buffer cannot grow. *)
StringError ==
  /\ Return("READ_STRING_ERROR")
  /\ position' = start /\ heap' = heap \ Block("value")
  /\ UNCHANGED <<start, literal, tokens>>

(* The character at start, which is read already, is the closing one. *)
Closes(c) == c = query[start + 1] /\ ~escape

ReadString ==
  /\ pc = "string"
  /\ \E c \in Chars :
       /\ Read(position, c)
       /\ \/ c = NUL /\ StringError
          \/ c # NUL /\ AllocFails /\ Grown # capacity /\ StringError
          \/ c # NUL /\ Closes(c) /\ StringEnd
          \/ c # NUL /\ ~Closes(c) /\ StringChar(c)

-----------------------------------------------------------------------------
(* The main loop.  tokenizer_free comes after the statement was run, or at *)
(* once if there is none; there is no state when tokenizer_init failed.    *)

InitErrors == {"STATE_ALLOC_ERROR", "QUERY_ALLOC_ERROR", "TOKENS_ALLOC_ERROR"}

Release ==
  /\ pc = "returned"
  /\ pc' = "done"
  /\ heap' = IF result \in InitErrors THEN heap ELSE heap \ TokenizerFree(Len(tokens))
  /\ UNCHANGED <<query, position, start, literal, tokens, result>>

(* The next line of this process, or the first one of the next.            *)
NextLine ==
  /\ pc \in {"done", "exited"}
  /\ pc' = "idle" /\ query' = <<>> /\ position' = 0 /\ start' = 0
  /\ decimal' = FALSE /\ escape' = FALSE
  /\ capacity' = InitialCapacity /\ length' = 0 /\ text' = 0
  /\ tokens' = <<>> /\ result' = "none" /\ heap' = {}

ScanStep ==
  \/ AllocState \/ AllocQuery \/ AllocTokens
  \/ Skip \/ StartWord \/ StartNumber \/ Minus \/ AfterMinus \/ StartString
  \/ SingleToken \/ Semicolon \/ EndOfLine
  \/ ReadWord \/ ReadNumber \/ ReadString
  \/ Release

Next == ScanStep \/ NextLine

Spec == Init /\ [][Next]_vars
FairSpec == Spec /\ WF_vars(ScanStep)

-----------------------------------------------------------------------------
(* Properties *)

Locations == {"idle", "init_query", "init_tokens", "scan", "minus", "word", "number",
              "string", "returned", "done", "exited"}

Results == InitErrors \cup {"none", "SUCCESS", "READ_WORD_ERROR", "READ_NUMBER_ERROR",
                            "READ_STRING_ERROR", "UNTERMINATED_STATEMENT"}

Token == [type : TokenTypes, start : Nat, stop : Nat, size : Nat]

(* Every variable has the type its code gives it. *)
TypeOK ==
  /\ pc \in Locations /\ result \in Results
  /\ query \in Seq(Chars) /\ tokens \in Seq(Token)
  /\ {position, start, capacity, length, text} \subseteq Nat
  /\ {decimal, escape} \subseteq BOOLEAN

(* The scanner looks at no character behind the NUL of the line, although  *)
(* read_word, read_numeric_literal, read_string_literal and the look       *)
(* behind a minus are not told how long the line is.                       *)
ReadsInsideLine == \A i \in 1..Len(query) : query[i] = NUL => i = Len(query)

(* read_string_literal writes inside its buffer, the two characters of an  *)
(* unknown escape and the terminator included.                             *)
WritesInsideBuffer == length <= capacity

(* So every access of the scanner is inside its line and its buffer.       *)
AccessesInside == ReadsInsideLine /\ WritesInsideBuffer

(* Whatever the line, and whichever allocation fails, nothing of it is     *)
(* allocated when the next line is read.                                   *)
NothingLeaks == pc = "done" => heap = {}

(* The parser gets tokens only with success, and then the last one is the  *)
(* semicolon's and no other is: what its fixed indices rely on.            *)
SuccessEndsInEOF ==
  pc = "returned" =>
    (result = "SUCCESS" <=> Len(tokens) > 0 /\ tokens[Len(tokens)].type = "EOF")
EOFIsLast == \A i \in 1..Len(tokens) : tokens[i].type = "EOF" => i = Len(tokens)
ParserMayRely == SuccessEndsInEOF /\ EOFIsLast

Char(p) == query[p + 1]
Inside(t) == t.start .. t.stop - 1

(* The lexeme of a token is what its type says, and as long as can be.     *)
WordLexeme(t) ==
  /\ Char(t.start) \in WordStart
  /\ \A p \in Inside(t) : Char(p) \in WordChars
  /\ Char(t.stop) \notin WordChars
NumberLexeme(t, dots) ==
  /\ Char(t.start) \in Digits \cup {"minus"}
  /\ Cardinality({p \in Inside(t) : Char(p) = "dot"}) = dots
  /\ \A p \in Inside(t) : p > t.start => Char(p) \in Digits \cup {"dot"}
  /\ \E p \in Inside(t) : Char(p) \in Digits
  /\ Char(t.stop) \notin Digits /\ (Char(t.stop) = "dot" => dots = 1)

(* Escaped: behind an odd number of backslashes, the opening quote aside.  *)
EscapedAt(t, p) ==
  \E q \in t.start .. p - 1 :
    /\ (p - q) % 2 = 0
    /\ q = t.start \/ Char(q) # "backslash"
    /\ \A r \in q + 1 .. p - 1 : Char(r) = "backslash"
Body(t) == t.start + 1 .. t.stop - 2
OpensEscape(t, p) == Char(p) = "backslash" /\ ~EscapedAt(t, p)
CutAt(t) == {p \in Body(t) : Char(p) = "zero" /\ EscapedAt(t, p)}
Kept(t) == {p \in Body(t) : \A z \in CutAt(t) : p < z}

(* As many characters as the body has, an escape counted once unless it is *)
(* unknown, up to the first \0.                                            *)
StringSize(t) ==
  LET openers == {p \in Kept(t) : OpensEscape(t, p)}
      unknown == {p \in openers : p + 1 \in Kept(t) /\ Char(p + 1) \notin Escapes}
  IN Cardinality(Kept(t)) - Cardinality(openers) + Cardinality(unknown)

StringLexeme(t) ==
  /\ Char(t.start) \in Quotes /\ Char(t.stop - 1) = Char(t.start)
  /\ t.stop > t.start + 1
  /\ ~EscapedAt(t, t.stop - 1)
  /\ \A p \in Body(t) : Char(p) = Char(t.start) => EscapedAt(t, p)
  /\ t.size = StringSize(t)

Lexeme(t) ==
  CASE t.type \in WordTypes -> WordLexeme(t)
    [] t.type = "INTEGER_LITERAL" -> NumberLexeme(t, 0)
    [] t.type = "REAL_LITERAL" -> NumberLexeme(t, 1)
    [] t.type = "STRING_LITERAL" -> StringLexeme(t)
    [] t.type = "EOF" -> Char(t.start) = "semicolon"
    [] OTHER -> Single[Char(t.start)] = t.type

TokensAreLexemes == \A i \in 1..Len(tokens) : Lexeme(tokens[i])

(* Between one token and the next lies nothing but space, dots,            *)
(* backslashes, a minus no digit follows, and characters without meaning   *)
(* (the '!' of '!=' among them): those and no others vanish unreported.    *)
Vanishes(p) == Char(p) \in Skipped \/ (Char(p) = "minus" /\ Char(p + 1) \notin Digits)
Between(i) ==
  (IF i = 1 THEN 0 ELSE tokens[i - 1].stop) .. tokens[i].start - 1
NothingElseVanishes ==
  /\ \A i \in 1..Len(tokens) : \A p \in Between(i) : Vanishes(p)
  /\ \A i \in 2..Len(tokens) : tokens[i - 1].stop <= tokens[i].start

(* Together: the tokens and these gaps account for the whole of the line   *)
(* up to the last token.                                                   *)
TokensTellTheLine == TokensAreLexemes /\ NothingElseVanishes

(* Every line is dealt with in the end. *)
LineEnds == pc = "scan" ~> pc \in {"done", "exited"}
=============================================================================
