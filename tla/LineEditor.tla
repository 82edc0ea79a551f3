----------------------------- MODULE LineEditor -----------------------------
(***************************************************************************)
(* Where the program's input comes from: the line editor and its history   *)
(* (libs/linenoise.c) as main.c uses them.  main never turns on masking,   *)
(* several rows, completion or hints, so that the editor keeps one row.    *)
(*                                                                         *)
(* A key is one action: linenoiseEditFeed reads it, runs its handler and   *)
(* returns. Keys that change nothing are left out. Input that ends in an   *)
(* escape sequence leaves bytes of it unset (linenoise.c:1040): whatever   *)
(* they hold, what happens is one of the keys below, or nothing. A line is *)
(* what the buffer holds in 1..len; a C function that is given the buffer  *)
(* sees it up to its first NUL. The screen is what the terminal shows      *)
(* behind the prompt, every character taking one column, and the column of *)
(* the cursor. A terminal with no more columns than the prompt is wide     *)
(* makes the arithmetic of a refresh wrap around; the model stops there.   *)
(***************************************************************************)
EXTENDS Integers, Sequences, FiniteSets, SequencesExt, FiniteSetsExt

CONSTANTS
  Typed,          \* the characters a key can put into the line
  PipeLines,      \* what the lines of an input that is no terminal may be
  ExitLines,      \* the lines that main takes for .exit
  MaxLine,        \* LINENOISE_MAX_LINE, 4096 in the code
  PromptLen,      \* the length of the prompt, 4 in the code
  Columns,        \* the widths of terminals that are looked at
  AssumedColumns, \* the width of one that does not tell, 80 in the code
  TerminalFails,  \* TRUE: the terminal may refuse to be put into raw mode
  FileFails,      \* TRUE: the history file may be one that cannot be opened
                  \* for writing
  DefaultHistory, \* LINENOISE_DEFAULT_HISTORY_MAX_LEN, 100 in the code
  MaxHistory,     \* MAX_HISTORY_LENGTH, 100 in the code
  MaxKeys,        \* bound on the keys and the lines of one behaviour
  MaxRuns         \* bound on how often the program is started

ASSUME LineAssumption == MaxLine \in Nat /\ MaxLine >= 3
ASSUME PromptAssumption ==
  /\ PromptLen \in Nat \ {0}
  /\ Columns \subseteq Nat \ {0} /\ AssumedColumns \in Nat \ {0}
  /\ TerminalFails \in BOOLEAN /\ FileFails \in BOOLEAN
ASSUME HistoryAssumption ==
  DefaultHistory \in Nat \ {0} /\ MaxHistory \in Nat \ {0}

\* What is loaded is not cut before main sets its limit.
ASSUME LoadAssumption == MaxHistory <= DefaultHistory

VARIABLES
  phase,   \* where the program is
  mode,    \* what the standard input is: a terminal the editor knows or not
  raw,     \* the terminal is in raw mode
  edit,    \* struct linenoiseState
  history, \* the entries of the history, the oldest first
  screen,  \* the row of the terminal
  file,    \* the characters of .db_history
  saved,   \* what the history was when the file was last written
  before,  \* what the history was when this line was begun
  browsed, \* nothing but cursor keys and history keys so far in this line
  keys, runs

vars == <<phase, mode, raw, edit, history, screen, file, saved, before,
          browsed, keys, runs>>

\* linenoise: a terminal it can edit on, an input that is no terminal, a
\* terminal that is known not to understand escape sequences.
Modes == {"editor", "pipe", "plain"}

Blank == "blank"
Newline == "newline"
Return == "return"
Nul == "nul"

AllTyped == Typed \cup {Blank, Newline, Return, Nul}

ASSUME InputAssumption ==
  PipeLines \subseteq Seq(AllTyped) /\ MaxKeys \in Nat /\ MaxRuns \in Nat

-----------------------------------------------------------------------------
(* Strings *)

\* s up to its first c, as strchr finds it; all of s when it has none.
UpTo(s, c) ==
  LET i == SelectInSeq(s, LAMBDA x : x = c)
  IN IF i = 0 THEN s ELSE SubSeq(s, 1, i - 1)

CString(s) == UpTo(s, Nul)

Least(a, b) == IF a < b THEN a ELSE b

-----------------------------------------------------------------------------
(* The history *)

\* linenoiseHistoryAdd: no line twice in a row; the oldest makes room.
HistoryAdd(h, line, max) ==
  IF h # <<>> /\ h[Len(h)] = line
    THEN h
    ELSE Append(IF Len(h) = max THEN Tail(h) ELSE h, line)

\* linenoiseHistorySetMaxLen: the latest max entries stay.
SetMaxLen(h, max) == SubSeq(h, Len(h) - Least(Len(h), max) + 1, Len(h))

\* linenoiseHistorySave
WrittenOut(h) == FlattenSeq([i \in DOMAIN h |-> Append(h[i], Newline)])

\* What fgets returns, one call after the other: a line with its newline, or
\* as much of it as its buffer holds.
Pieces(text) ==
  LET Next1(acc, c) ==
        IF c = Newline \/ Len(acc.part) + 2 = MaxLine
          THEN [done |-> Append(acc.done, Append(acc.part, c)), part |-> <<>>]
          ELSE [acc EXCEPT !.part = Append(@, c)]
      read == FoldLeft(Next1, [done |-> <<>>, part |-> <<>>], text)
  IN IF read.part = <<>> THEN read.done ELSE Append(read.done, read.part)

MutLineOf(piece) == UpTo(piece, Return)

\* The line of a piece: what is behind a carriage return is lost.
LineOf(piece) == UpTo(UpTo(piece, Return), Newline)

\* linenoiseHistoryLoad
Loaded(text) ==
  FoldLeft(LAMBDA h, piece : HistoryAdd(h, LineOf(piece), DefaultHistory),
           <<>>, Pieces(text))

-----------------------------------------------------------------------------
(* The screen *)

\* The first character refreshSingleLine shows: enough are left out for the
\* cursor to be inside the terminal.
Skipped(e) == IF PromptLen + e.pos >= e.cols THEN PromptLen + e.pos - e.cols + 1
                                             ELSE 0

\* The loop that finds it stops before it has passed the cursor.
Fits(e) == Skipped(e) <= e.pos

Shown(e) ==
  LET skip == Skipped(e)
      width == Least(Len(e.buf) - skip, e.cols - PromptLen)
  IN [text |-> SubSeq(e.buf, skip + 1, skip + width),
      cursor |-> PromptLen + e.pos - skip]

\* refreshLine, with the line as e has it.
Refresh(e) ==
  /\ edit' = e
  /\ IF Fits(e) THEN screen' = Shown(e) /\ UNCHANGED phase
                ELSE phase' = "undefined" /\ UNCHANGED screen

-----------------------------------------------------------------------------
(* The handlers of the keys *)

NoEdit == [buf |-> <<>>, pos |-> 0, cols |-> 0, index |-> 0]
NoScreen == [text |-> <<>>, cursor |-> 0]

Key ==
  /\ phase = "editing"
  /\ keys < MaxKeys
  /\ keys' = keys + 1
  /\ UNCHANGED <<mode, raw, file, saved, before, runs>>

\* A key that leaves the text and the history as they are.
Moved(pos) ==
  /\ Refresh([edit EXCEPT !.pos = pos])
  /\ UNCHANGED <<history, browsed>>

\* A key that changes the text.
Changed(buf, pos) ==
  /\ Refresh([edit EXCEPT !.buf = buf, !.pos = pos])
  /\ browsed' = FALSE
  /\ UNCHANGED history

MutAppended(c) ==
  LET grown == [edit EXCEPT !.buf = Append(@, c), !.pos = @ + 1]
  IN IF PromptLen + Len(grown.buf) <= grown.cols
       THEN /\ edit' = grown
            /\ screen' = [text |-> Append(screen.text, c),
                          cursor |-> Least(screen.cursor + 1, grown.cols - 1)]
            /\ UNCHANGED phase
       ELSE Refresh(grown)

\* At the end of a line that stays short of the terminal's last column the
\* character alone is written.
Appended(c) ==
  LET grown == [edit EXCEPT !.buf = Append(@, c), !.pos = @ + 1]
  IN IF PromptLen + Len(grown.buf) < grown.cols
       THEN /\ edit' = grown
            /\ screen' = [text |-> Append(screen.text, c),
                          cursor |-> Least(screen.cursor + 1, grown.cols - 1)]
            /\ UNCHANGED phase
       ELSE Refresh(grown)

\* linenoiseEditInsert; buflen is one less than the buffer has.
EditInsert(c) ==
  /\ Key
  /\ Len(edit.buf) < MaxLine - 1
  /\ browsed' = FALSE
  /\ UNCHANGED history
  /\ IF edit.pos = Len(edit.buf)
       THEN Appended(c)
       ELSE Refresh([edit EXCEPT !.buf = InsertAt(@, edit.pos + 1, c),
                                 !.pos = @ + 1])

EditMoveLeft == Key /\ edit.pos > 0 /\ Moved(edit.pos - 1)

EditMoveRight == Key /\ edit.pos # Len(edit.buf) /\ Moved(edit.pos + 1)

EditMoveHome == Key /\ edit.pos # 0 /\ Moved(0)

EditMoveEnd == Key /\ edit.pos # Len(edit.buf) /\ Moved(Len(edit.buf))

\* linenoiseEditDelete, also Ctrl-D on a line that is not empty.
EditDelete ==
  /\ Key
  /\ edit.pos < Len(edit.buf)
  /\ Changed(RemoveAt(edit.buf, edit.pos + 1), edit.pos)

EditBackspace ==
  /\ Key
  /\ edit.pos > 0
  /\ Changed(RemoveAt(edit.buf, edit.pos), edit.pos - 1)

\* Where the word before the cursor starts, the blanks behind it passed.
WordStart(buf, pos) ==
  LET end == Max({0} \cup {i \in 1..pos : buf[i] # Blank})
  IN Max({0} \cup {i \in 1..end : buf[i] = Blank})

EditDeletePrevWord ==
  LET start == WordStart(edit.buf, edit.pos)
      rest == SubSeq(edit.buf, edit.pos + 1, Len(edit.buf))
  IN Key /\ Changed(SubSeq(edit.buf, 1, start) \o rest, start)

\* Ctrl-T
Transpose ==
  LET p == edit.pos
  IN /\ Key
     /\ p > 0 /\ p < Len(edit.buf)
     /\ Changed([edit.buf EXCEPT ![p] = edit.buf[p + 1], ![p + 1] = edit.buf[p]],
                IF p # Len(edit.buf) - 1 THEN p + 1 ELSE p)

\* Ctrl-U and Ctrl-K
KillLine == Key /\ Changed(<<>>, 0)
KillEnd == Key /\ Changed(SubSeq(edit.buf, 1, edit.pos), edit.pos)

\* Ctrl-L
ClearScreen == Key /\ Moved(edit.pos)

\* What strncpy and the NUL behind it leave of an entry: buflen characters
\* do not fit.
Recalled(entry) == SubSeq(entry, 1, Least(Len(entry), MaxLine - 2))

Entry(index) == Len(history) - index

MutHistoryStep(step) ==
  LET kept == [history EXCEPT ![Len(history)] = CString(edit.buf)]
      index == edit.index + step
  IN /\ history' = kept
     /\ IF index < 0 \/ index >= Len(history)
          THEN UNCHANGED <<edit, screen, phase>>
          ELSE LET line == Recalled(kept[Entry(index)])
               IN Refresh([edit EXCEPT !.buf = line, !.pos = Len(line),
                                       !.index = index])

\* The line goes into the entry it was taken from before another is taken.
HistoryStep(step) ==
  LET kept == [history EXCEPT ![Entry(edit.index)] = CString(edit.buf)]
      index == edit.index + step
  IN /\ history' = kept
     /\ IF index < 0 \/ index >= Len(history)
          THEN UNCHANGED <<edit, screen, phase>>
          ELSE LET line == Recalled(kept[Entry(index)])
               IN Refresh([edit EXCEPT !.buf = line, !.pos = Len(line),
                                       !.index = index])

EditHistoryPrev == Key /\ Len(history) > 1 /\ HistoryStep(1) /\ UNCHANGED browsed

EditHistoryNext == Key /\ Len(history) > 1 /\ HistoryStep(-1) /\ UNCHANGED browsed

-----------------------------------------------------------------------------
(* The loop of main *)

\* getColumns: what the kernel knows, or what the terminal answers to two
\* questions for the place of the cursor, none of them put as 0.
Width(kernel, asked) ==
  IF kernel # 0 THEN kernel ELSE IF asked # 0 THEN asked ELSE AssumedColumns

Widths == {Width(k, a) : k \in Columns \cup {0}, a \in Columns \cup {0}}

MutCurrentLine(h) == h

\* The last entry of the history stands for the current line, empty at first.
CurrentLine(h) == HistoryAdd(h, <<>>, MaxHistory)

\* linenoiseEditStart
EditStart ==
  /\ phase = "prompt" /\ mode = "editor"
  /\ \E cols \in Widths : edit' = [NoEdit EXCEPT !.cols = cols]
  /\ history' = CurrentLine(history)
  /\ screen' = [text |-> <<>>, cursor |-> PromptLen]
  /\ phase' = "editing"
  /\ raw' = TRUE
  /\ before' = history
  /\ browsed' = TRUE
  /\ UNCHANGED <<mode, file, saved, keys, runs>>

\* enableRawMode fails.  linenoiseEditStart returns before it has set what
\* the handlers use, and linenoiseBlockingEdit goes on as if it had.
RawModeFails ==
  /\ TerminalFails
  /\ phase = "prompt" /\ mode = "editor"
  /\ phase' = "undefined"
  /\ UNCHANGED <<mode, raw, edit, history, screen, file, saved, before, browsed,
                 keys, runs>>

\* main with a line: it enters the history h; .exit ends the program there.
Accept(line, h) ==
  /\ history' = IF line = <<>> THEN h ELSE HistoryAdd(h, line, MaxHistory)
  /\ phase' = IF line \in ExitLines THEN "closed" ELSE "prompt"
  /\ UNCHANGED <<file, saved>>

\* The loop of main ends: linenoiseHistorySave.  When it cannot open the file
\* it returns, and main does not look at what it returns.
Leave(h) ==
  /\ history' = h
  /\ \/ file' = WrittenOut(h) /\ saved' = h
     \/ FileFails /\ UNCHANGED <<file, saved>>
  /\ phase' = "closed"

\* linenoiseEditStop, and main takes the line.
Returned ==
  /\ edit' = NoEdit /\ screen' = NoScreen /\ raw' = FALSE
  /\ before' = <<>> /\ browsed' = TRUE
  /\ UNCHANGED <<mode, runs>>


MutPopped == history

\* Enter and Ctrl-D take the current line off the history.
Popped == SubSeq(history, 1, Len(history) - 1)

Enter ==
  /\ phase = "editing" /\ keys < MaxKeys
  /\ keys' = keys + 1
  /\ Accept(CString(edit.buf), Popped)
  /\ Returned

\* Ctrl-D on an empty line
EndOfFile ==
  /\ phase = "editing"
  /\ edit.buf = <<>>
  /\ Leave(Popped)
  /\ Returned /\ UNCHANGED keys

\* Ctrl-C, a read that fails, a character that could not be written: the
\* current line stays in the history.
Interrupt ==
  /\ phase = "editing"
  /\ Leave(history)
  /\ Returned /\ UNCHANGED keys

\* linenoiseNoTTY, and fgets for a terminal the editor does not know: no
\* more than its buffer holds, the newline and carriage returns taken off.
Stripped(line) ==
  LET piece == SubSeq(line, 1, Least(Len(line), MaxLine - 1))
  IN SubSeq(piece, 1, Max({0} \cup {i \in DOMAIN piece : piece[i] # Return}))

ReadLine ==
  /\ phase = "prompt" /\ mode # "editor"
  /\ keys < MaxKeys /\ keys' = keys + 1
  /\ \E line \in PipeLines :
       Accept(CString(IF mode = "pipe" THEN line ELSE Stripped(CString(line))),
              history)
  /\ Returned

EndOfInput ==
  /\ phase = "prompt" /\ mode # "editor"
  /\ Leave(history)
  /\ Returned /\ UNCHANGED keys

\* The program is started: the file, if there is one, becomes the history.
Open ==
  /\ phase = "closed"
  /\ runs < MaxRuns /\ runs' = runs + 1
  /\ mode' \in Modes
  /\ history' = SetMaxLen(Loaded(file), MaxHistory)
  /\ phase' = "prompt"
  /\ UNCHANGED <<raw, edit, screen, file, saved, before, browsed, keys>>

Init ==
  /\ phase = "closed" /\ mode = "editor" /\ raw = FALSE
  /\ edit = NoEdit /\ screen = NoScreen
  /\ history = <<>> /\ file = <<>> /\ saved = <<>>
  /\ before = <<>> /\ browsed = TRUE
  /\ keys = 0 /\ runs = 0

Next ==
  \/ Open \/ EditStart \/ RawModeFails \/ ReadLine \/ EndOfInput
  \/ \E c \in Typed : EditInsert(c)
  \/ EditMoveLeft \/ EditMoveRight \/ EditMoveHome \/ EditMoveEnd
  \/ EditDelete \/ EditBackspace \/ EditDeletePrevWord
  \/ Transpose \/ KillLine \/ KillEnd \/ ClearScreen
  \/ EditHistoryPrev \/ EditHistoryNext
  \/ Enter \/ EndOfFile \/ Interrupt

Spec == Init /\ [][Next]_vars

-----------------------------------------------------------------------------
(* Properties *)

Types ==
  /\ phase \in {"closed", "prompt", "editing", "undefined"}
  /\ mode \in Modes /\ raw \in BOOLEAN
  /\ edit \in [buf : Seq(AllTyped), pos : Nat, cols : Nat, index : Nat]
  /\ history \in Seq(Seq(AllTyped)) /\ before \in Seq(Seq(AllTyped))
  /\ file \in Seq(AllTyped) /\ saved \in Seq(Seq(AllTyped))
  /\ screen \in [text : Seq(AllTyped), cursor : Int]
  /\ browsed \in BOOLEAN
  /\ keys \in 0..MaxKeys /\ runs \in 0..MaxRuns

\* The indices of the handlers stay inside what they index: the cursor inside
\* the line, the line inside its buffer, the number of entries inside the
\* array that was allocated for them, and a line that is edited has its entry,
\* so that Enter never takes one from an empty history.  The terminal is in
\* raw mode while a line is edited and at no other time.
Bounds ==
  /\ Len(history) <= MaxHistory
  /\ raw <=> phase = "editing" \/ (phase = "undefined" /\ edit.cols # 0)
  /\ phase = "editing" =>
       /\ edit.pos <= Len(edit.buf)
       /\ Len(edit.buf) < MaxLine
       /\ edit.index < Len(history)

\* Behaviour is undefined for two reasons only: a refresh on a terminal with
\* no room behind the prompt, and a terminal that refuses raw mode
\* (linenoise.c:563, 903, 1151).
UndefinedExplained ==
  phase = "undefined" =>
    (raw /\ edit.cols <= PromptLen) \/ (~raw /\ TerminalFails)

\* Every variable has its type, no index the handlers compute is outside the
\* array it is used on (linenoise.c:768, 837, 983, 1319), and nothing else is
\* undefined.
TypeOK == Types /\ Bounds /\ UndefinedExplained

\* The screen is a window of the line that holds the cursor: it leaves out
\* characters on the left only when the cursor is in the last column, and on
\* the right only when it is full.  The handlers that write one character or
\* nothing agree with those that write the row anew (linenoise.c:748, 815).
ScreenShowsCursor ==
  phase = "editing" =>
    \E skip \in 0..edit.pos :
      LET last == skip + Len(screen.text)
      IN /\ last <= Len(edit.buf)
         /\ screen.text = SubSeq(edit.buf, skip + 1, last)
         /\ screen.cursor = PromptLen + edit.pos - skip
         /\ edit.cols > PromptLen => screen.cursor < edit.cols
         /\ skip > 0 => screen.cursor = edit.cols - 1
         /\ last < Len(edit.buf) => PromptLen + Len(screen.text) = edit.cols

\* Looking through the history leaves it as it is: as long as nothing is
\* typed, what is stored back into an entry is what was taken from it.  An
\* entry that fills the buffer loses its last character, once, and nothing
\* else (linenoise.c:822).
BrowsingKeepsHistory ==
  phase = "editing" /\ browsed =>
    LET begun == CurrentLine(before)
    IN /\ Len(history) = Len(begun)
       /\ \A i \in DOMAIN begun :
            \/ history[i] = begun[i]
            \/ /\ Len(begun[i]) = MaxLine - 1
               /\ history[i] = SubSeq(begun[i], 1, MaxLine - 2)

\* The entries of earlier lines are what they were when this line was begun.
NoEntryEdited ==
  LET begun == CurrentLine(before)
  IN \A i \in 1..Len(history) - 1 : history[i] = begun[i]

\* A line that is entered after no entry was edited costs the history at most
\* its oldest entry, and that only when it was full; an empty line at its end
\* has been taken for the current one.  The line itself is the newest entry
\* then (linenoise.c:925, 983, 1319; main.c:46).
LineCostsAtMostOldest ==
  [][Enter /\ NoEntryEdited =>
       LET line == CString(edit.buf)
           n == Len(before)
           last == IF n > 0 /\ before[n] = <<>> THEN n - 1 ELSE n
       IN /\ line # <<>> => history'[Len(history')] = line
          /\ \E lost \in {0, 1} :
               LET rest == SubSeq(before, lost + 1, last)
               IN /\ lost = 1 => n = MaxHistory
                  /\ history' \in {rest, Append(rest, line)}]_vars

\* A line that a buffer of fgets holds and that is one line of a file.
Plain(line) ==
  /\ Len(line) < MaxLine - 1
  /\ \A i \in DOMAIN line : line[i] \notin {Newline, Return}

\* When the history that was written last is of such lines, it comes back from
\* its file, repetitions in a row taken out (linenoise.c:1377, 1393).  The
\* property says nothing of a history with another line: one that is longer
\* comes back in pieces or with an empty line behind it, one with a newline as
\* several.
HistorySurvivesRestart ==
  [][Open /\ (\A i \in DOMAIN saved : Plain(saved[i])) =>
       LET kept == {i \in DOMAIN saved : i = 1 \/ saved[i] # saved[i - 1]}
       IN /\ Len(history') = Cardinality(kept)
          /\ \A i \in kept :
               history'[Cardinality({j \in kept : j <= i})] = saved[i]]_vars
=============================================================================
