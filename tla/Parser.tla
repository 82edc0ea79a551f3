------------------------------- MODULE Parser -------------------------------
(***************************************************************************)
(* The statement parsers (src/src/parser/parser.c, parser/statements/*.c)  *)
(* and the ownership of what they allocate (parser/ast.c).                 *)
(*                                                                         *)
(* A parser walks an array of tokens with an index.  Here the tokenizer    *)
(* supplies a token the first time its position is read, so one behaviour  *)
(* stands for every statement that begins with the tokens read.  The array *)
(* ends with the token of the semicolon; a read beyond it is a read beyond *)
(* the array and may find anything.                                        *)
(*                                                                         *)
(* A word or a literal is its token type only; a keyword, a punctuation    *)
(* mark or the wildcard is its text.  Allocation never fails.              *)
(***************************************************************************)
EXTENDS Naturals, Sequences

CONSTANT MaxTokens \* bound on the length of a statement, its semicolon included

(* MAX_COLUMNS is 10 and columns_parse does not test it: what happens from *)
(* the 11th column on is undefined and is not modelled.  A statement of    *)
(* 4 + 10 * 3 + 1 tokens ends before it.                                   *)
ASSUME MaxTokensAssumption == MaxTokens \in 1..35

VARIABLES
  pc,      \* where the parser is
  tokens,  \* the tokens read so far
  index,   \* position of the token to look at, from 0
  columns, \* the column types of columns_parse's local array
  node,    \* the AST node under construction
  heap,    \* the blocks allocated for this statement and not freed
  leaked   \* the blocks earlier statements left allocated

vars == <<pc, tokens, index, columns, node, heap, leaked>>

-----------------------------------------------------------------------------
(* Tokens *)

TypeKeywords == {"INT", "REAL", "TEXT", "BOOLEAN"}

Statements == {"CREATE", "DROP", "SELECT", "INSERT", "DELETE"}

Keywords == Statements \cup TypeKeywords
              \cup {"TABLE", "FROM", "INTO", "VALUES", "WHERE"}

Literals == {"string", "integer", "real", "boolean"}

EOF == "semicolon"

Kinds == Keywords \cup Literals \cup {"identifier", "operator", "wildcard", "open", "close", "comma", EOF}

\* Mutant of ColumnType: any keyword is a type of its own.
MutColumnType(k) == k

(* The column type of a keyword (map_column_type). *)
ColumnType(k) == IF k \in TypeKeywords THEN k ELSE "UNKNOWN"

(* The type convert_value is called with for a literal token. *)
LiteralType == [string |-> "TEXT", integer |-> "INT", real |-> "REAL", boolean |-> "BOOLEAN"]

Ended == \E i \in 1..Len(tokens) : tokens[i] = EOF

Supply == IF Len(tokens) + 1 >= MaxTokens /\ ~Ended THEN {EOF} ELSE Kinds

(* k is tokens[index]. *)
Read(k) ==
  IF index < Len(tokens)
  THEN k = tokens[index + 1] /\ UNCHANGED tokens
  ELSE k \in Supply /\ tokens' = Append(tokens, k)

(* index < token_count.  Where the code tests it the step has it as its    *)
(* guard: the test never fails, for the semicolon stops every parser; were *)
(* it to fail, the model would be in a deadlock.                           *)
InRange == index < Len(tokens) \/ ~Ended

-----------------------------------------------------------------------------
(* Memory: a block is a name and the position of its owner in an array. *)

NoNode == [type |-> "none"]

NewNode(type, hasTable) ==
  [type |-> type, table |-> hasTable, columns |-> <<>>, values |-> <<>>,
   selected |-> 0, all |-> FALSE, column |-> FALSE, op |-> FALSE, value |-> "NULL"]

Block(name) == {<<name, 0>>}
Each(name, n) == {<<name, i>> : i \in 1..n}
If(b, S) == IF b THEN S ELSE {}

(* A Value and, for a text, its string. *)
ValueBlocks(name, i, type) == {<<name, i>>} \cup If(type = "TEXT", {<<name \o "_text", i>>})

(* columns_free: the names of the first n columns and the array. *)
ColumnsFree(n) == Each("column", n) \cup Block("columns")

HasWhere(n) == n.column /\ n.op /\ n.value # "NULL"

\* Mutant of WhereFree: the column name is freed whether or not there is one.
MutWhereFree(n) ==
  If(n.value # "NULL", ValueBlocks("where_value", 0, n.value)) \cup Block("where_column")

WhereFree(n) ==
  If(n.value # "NULL", ValueBlocks("where_value", 0, n.value)) \cup If(n.column, Block("where_column"))

ValuesFree(n) == Block("values") \cup UNION {ValueBlocks("value", i, n.values[i]) : i \in 1..Len(n.values)}

(* The blocks ast_free releases. *)
AstFree(n) ==
  Block("node") \cup If(n.table, Block("table")) \cup
    CASE n.type = "CREATE" -> If(n.columns # <<>>, ColumnsFree(Len(n.columns)))
      [] n.type = "SELECT" ->
           If(n.selected > 0, Block("selected") \cup Each("name", n.selected)) \cup WhereFree(n)
      [] n.type = "INSERT" -> If(n.values # <<>>, ValuesFree(n))
      [] n.type = "DELETE" -> If(HasWhere(n), WhereFree(n))
      [] n.type = "DROP" -> {}

-----------------------------------------------------------------------------
(* Steps *)

Init ==
  /\ pc = "start"
  /\ tokens = <<>>
  /\ index = 0
  /\ columns = <<>>
  /\ node = NoNode
  /\ heap = {}
  /\ leaked = {}

(* Go on behind the token, or with the same token. *)
Consume(next) == pc' = next /\ index' = index + 1
Keep(next) == pc' = next /\ UNCHANGED index

(* The parser frees the node, if there is one, and returns NULL.  freed:   *)
(* what it frees before.                                                   *)
Fail(freed) ==
  /\ pc' = "rejected"
  /\ heap' = (heap \ freed) \ (IF node = NoNode THEN {} ELSE AstFree(node))
  /\ node' = NoNode
  /\ columns' = <<>>
  /\ UNCHANGED index

Allocate(blocks) == heap' = heap \cup blocks

(* What each statement begins with; SELECT's columns come before its table. *)
CreateHead == <<"CREATE", "TABLE", "identifier", "open">>
DropHead == <<"DROP", "TABLE", "identifier">>
InsertHead == <<"INSERT", "INTO", "identifier", "VALUES", "open">>
DeleteHead == <<"DELETE", "FROM", "identifier">>
SelectHead == <<"SELECT">>

Prefix == [CREATE |-> CreateHead, DROP |-> DropHead, INSERT |-> InsertHead,
           DELETE |-> DeleteHead, SELECT |-> SelectHead]

(* Where the parser is behind the head.  DROP has nothing more to read. *)
Body == [CREATE |-> "column_name", DROP |-> "accepted", INSERT |-> "value",
         DELETE |-> "where", SELECT |-> "select"]

(* parse: the first keyword chooses the parser.  SELECT creates its node at *)
(* once.                                                                   *)
Dispatch ==
  /\ pc = "start"
  /\ \E k \in Kinds :
       /\ Read(k)
       /\ \/ /\ k \in Statements \ {"SELECT"}
             /\ Consume("head")
             /\ UNCHANGED <<columns, node, heap>>
          \/ /\ k = "SELECT"
             /\ Consume(Body.SELECT)
             /\ node' = NewNode("SELECT", FALSE)
             /\ Allocate(Block("node"))
             /\ UNCHANGED columns
          \/ /\ k \notin Statements
             /\ Fail({})
  /\ UNCHANGED leaked

(* One token of the fixed beginning.  The node and its table name are      *)
(* created behind the table name, the array of columns behind CREATE's     *)
(* parenthesis.                                                            *)
ExpectHead ==
  /\ pc = "head"
  /\ LET type == tokens[1]
         isLast == index + 1 = Len(Prefix[type])
     IN \E k \in Kinds :
          /\ Read(k)
          /\ \/ /\ k # Prefix[type][index + 1]
                /\ Fail({})
             \/ /\ k = Prefix[type][index + 1]
                /\ Consume(IF isLast THEN Body[type] ELSE "head")
                /\ node' = IF k = "identifier" THEN NewNode(type, TRUE) ELSE node
                /\ Allocate(If(k = "identifier", Block("node") \cup Block("table"))
                              \cup If(isLast /\ type = "CREATE", Block("columns")))
                /\ UNCHANGED columns
  /\ UNCHANGED leaked

-----------------------------------------------------------------------------
(* CREATE TABLE: columns_parse.  The token is in range by the loop's test  *)
(* or by the tests behind each index++.                                    *)

ColumnName ==
  /\ pc = "column_name"
  /\ InRange
  /\ \E k \in Kinds :
       /\ Read(k)
       /\ \/ /\ k = "identifier"
             /\ Consume("column_type")
             /\ Allocate({<<"column", Len(columns) + 1>>})
             /\ UNCHANGED <<columns, node>>
          \/ /\ k # "identifier"
             /\ Fail(ColumnsFree(Len(columns)))
  /\ UNCHANGED leaked

ColumnKeyword ==
  /\ pc = "column_type"
  /\ InRange
  /\ \E k \in Kinds :
       /\ Read(k)
       /\ \/ /\ k \in Keywords
             /\ Consume("column_end")
             /\ columns' = Append(columns, ColumnType(k))
             /\ UNCHANGED <<node, heap>>
          \/ /\ k \notin Keywords
             /\ Fail(ColumnsFree(Len(columns)) \cup {<<"column", Len(columns) + 1>>})
  /\ UNCHANGED leaked

ColumnEnd ==
  /\ pc = "column_end"
  /\ InRange
  /\ \E k \in Kinds :
       /\ Read(k)
       /\ \/ /\ k = "comma"
             /\ Consume("column_name")
             /\ UNCHANGED <<columns, node, heap>>
          \/ /\ k = "close"
             /\ Consume("accepted")
             /\ node' = [node EXCEPT !.columns = columns]
             /\ columns' = <<>>
             /\ UNCHANGED heap
          \/ /\ k \notin {"comma", "close"}
             /\ Fail(ColumnsFree(Len(columns)))
  /\ UNCHANGED leaked

-----------------------------------------------------------------------------
(* INSERT: the values.  The closing parenthesis is not consumed. *)

InsertValue ==
  /\ pc = "value"
  /\ InRange
  /\ \E k \in Kinds :
       /\ Read(k)
       /\ \/ /\ k \in Literals
             /\ Consume("value_end")
             /\ node' = [node EXCEPT !.values = Append(@, LiteralType[k])]
             /\ Allocate(Block("values") \cup
                         ValueBlocks("value", Len(node.values) + 1, LiteralType[k]))
             /\ UNCHANGED columns
          \/ /\ k \notin Literals
             /\ Fail({})
  /\ UNCHANGED leaked

InsertEnd ==
  /\ pc = "value_end"
  /\ \E k \in Kinds :
       /\ Read(k)
       /\ \/ /\ k = "comma"
             /\ Consume("value")
             /\ UNCHANGED <<columns, node, heap>>
          \/ /\ k = "close"
             /\ Keep("accepted")
             /\ UNCHANGED <<columns, node, heap>>
          \/ /\ k \notin {"comma", "close"}
             /\ Fail({})
  /\ UNCHANGED leaked

-----------------------------------------------------------------------------
(* SELECT: the wildcard or a list of columns, FROM, the table. *)

SelectAll ==
  /\ pc = "select"
  /\ Read("wildcard")
  /\ Consume("from")
  /\ UNCHANGED <<columns, node, heap, leaked>>

SelectColumn ==
  /\ pc \in {"select", "select_next"}
  /\ InRange
  /\ Read("identifier")
  /\ Consume("select_end")
  /\ node' = [node EXCEPT !.selected = @ + 1]
  /\ Allocate(Block("selected") \cup {<<"name", node.selected + 1>>})
  /\ UNCHANGED <<columns, leaked>>

(* Neither: an error at the first position, the end of the list behind a   *)
(* comma.                                                                  *)
SelectOther ==
  /\ pc \in {"select", "select_next"}
  /\ \E k \in Kinds \ {"identifier"} :
       /\ Read(k)
       /\ \/ /\ pc = "select" /\ k # "wildcard"
             /\ Fail({})
          \/ /\ pc = "select_next"
             /\ Keep("from")
             /\ UNCHANGED <<columns, node, heap>>
  /\ UNCHANGED leaked

\* Mutant of SelectEnd: the list goes on without a comma.
MutSelectEnd ==
  /\ pc = "select_end"
  /\ \E k \in Kinds :
       /\ Read(k)
       /\ IF k = "comma" /\ InRange THEN Consume("select_next") ELSE Keep("select_next")
  /\ UNCHANGED <<columns, node, heap, leaked>>

SelectEnd ==
  /\ pc = "select_end"
  /\ \E k \in Kinds :
       /\ Read(k)
       /\ IF k = "comma" /\ InRange THEN Consume("select_next") ELSE Keep("from")
  /\ UNCHANGED <<columns, node, heap, leaked>>

SelectFrom ==
  /\ pc = "from"
  /\ \E k \in Kinds :
       /\ Read(k)
       /\ \/ /\ k = "FROM"
             /\ Consume("table")
             /\ UNCHANGED <<columns, node, heap>>
          \/ /\ k # "FROM"
             /\ Fail({})
  /\ UNCHANGED leaked

SelectTable ==
  /\ pc = "table"
  /\ InRange
  /\ \E k \in Kinds :
       /\ Read(k)
       /\ \/ /\ k = "identifier"
             /\ Consume("where")
             /\ node' = [node EXCEPT !.table = TRUE]
             /\ Allocate(Block("table"))
             /\ UNCHANGED columns
          \/ /\ k # "identifier"
             /\ Fail({})
  /\ UNCHANGED leaked

-----------------------------------------------------------------------------
(* The WHERE of SELECT and DELETE. *)

(* The parser has what it wants: select_all or delete_all is set.          *)
Finished(n) ==
  [n EXCEPT !.all = IF n.type = "SELECT" THEN tokens[2] = "wildcard" ELSE ~HasWhere(n)]

(* Any token but WHERE ends the statement. *)
OptionalWhere ==
  /\ pc = "where"
  /\ \E k \in Kinds :
       /\ Read(k)
       /\ \/ /\ k = "WHERE"
             /\ Consume("where_column")
             /\ UNCHANGED node
          \/ /\ k # "WHERE"
             /\ Keep("accepted")
             /\ node' = Finished(node)
  /\ UNCHANGED <<columns, heap, leaked>>

WhereColumn ==
  /\ pc = "where_column"
  /\ \E k \in Kinds :
       /\ Read(k)
       /\ \/ /\ k = "identifier"
             /\ Consume("where_operator")
             /\ node' = [node EXCEPT !.column = TRUE]
             /\ Allocate(Block("where_column"))
             /\ UNCHANGED columns
          \/ /\ k # "identifier"
             /\ Fail({})
  /\ UNCHANGED leaked

\* Mutant of WhereOperator: any token is taken for an operator.
MutWhereOperator ==
  /\ pc = "where_operator"
  /\ \E k \in Kinds : Read(k)
  /\ Consume("where_value")
  /\ node' = [node EXCEPT !.op = TRUE]
  /\ UNCHANGED <<columns, heap, leaked>>

WhereOperator ==
  /\ pc = "where_operator"
  /\ \E k \in Kinds :
       /\ Read(k)
       /\ \/ /\ k = "operator"
             /\ Consume("where_value")
             /\ node' = [node EXCEPT !.op = TRUE]
             /\ UNCHANGED <<columns, heap>>
          \/ /\ k # "operator"
             /\ Fail({})
  /\ UNCHANGED leaked

WhereValue ==
  /\ pc = "where_value"
  /\ \E k \in Kinds :
       /\ Read(k)
       /\ \/ /\ k \in Literals
             /\ Consume("accepted")
             /\ node' = Finished([node EXCEPT !.value = LiteralType[k]])
             /\ Allocate(ValueBlocks("where_value", 0, LiteralType[k]))
             /\ UNCHANGED columns
          \/ /\ k \notin Literals
             /\ Fail({})
  /\ UNCHANGED leaked

-----------------------------------------------------------------------------
(* The main loop: it runs an accepted statement, frees the node and reads  *)
(* the next statement.                                                     *)

Release ==
  /\ pc = "accepted"
  /\ pc' = "released"
  /\ heap' = heap \ AstFree(node)
  /\ node' = NoNode
  /\ UNCHANGED <<tokens, index, columns, leaked>>

NextStatement ==
  /\ pc \in {"rejected", "released"}
  /\ pc' = "start"
  /\ tokens' = <<>>
  /\ index' = 0
  /\ heap' = {}
  /\ leaked' = leaked \cup heap
  /\ UNCHANGED <<columns, node>>

Next ==
  \/ Dispatch \/ ExpectHead
  \/ ColumnName \/ ColumnKeyword \/ ColumnEnd
  \/ InsertValue \/ InsertEnd
  \/ SelectAll \/ SelectColumn \/ SelectOther \/ SelectEnd \/ SelectFrom \/ SelectTable
  \/ OptionalWhere \/ WhereColumn \/ WhereOperator \/ WhereValue
  \/ Release \/ NextStatement

Spec == Init /\ [][Next]_vars

-----------------------------------------------------------------------------
(* Properties *)

Returned == {"accepted", "rejected", "released"}

Locations == {"start", "head", "column_name", "column_type", "column_end", "value",
              "value_end", "select", "select_next", "select_end", "from", "table",
              "where", "where_column", "where_operator", "where_value"} \cup Returned

(* Every variable has the type its code gives it; a statement never gets   *)
(* longer than its bound.                                                  *)
TypeOK ==
  /\ pc \in Locations
  /\ tokens \in Seq(Kinds) /\ Len(tokens) <= MaxTokens
  /\ index \in 0..MaxTokens
  /\ columns \in Seq(TypeKeywords \cup {"UNKNOWN"})
  /\ \/ node = NoNode
     \/ /\ node.type \in Statements
        /\ {node.table, node.all, node.column, node.op} \subseteq BOOLEAN
        /\ node.columns \in Seq(TypeKeywords \cup {"UNKNOWN"})
        /\ node.values \in Seq(TypeKeywords)
        /\ node.selected \in 0..MaxTokens
        /\ node.value \in TypeKeywords \cup {"NULL"}

(* No parser reads tokens[i] for an i behind the semicolon, although DROP, *)
(* DELETE and the WHERE clause are not told how many tokens there are and  *)
(* the others index before they compare.                                   *)
ReadsInsideStatement == \A i \in 1..Len(tokens) : tokens[i] = EOF => i = Len(tokens)

(* ast_free, called at any point of a parse or behind it, frees only       *)
(* blocks that are allocated.                                              *)
FreesOnlyLive == node # NoNode => AstFree(node) \subseteq heap

(* Whatever the statement and wherever the parser gives up, all it         *)
(* allocated is freed when the next statement begins.  The exception is    *)
(* the column name of a DELETE whose WHERE clause fails behind the column: *)
(* ast_free asks for a whole clause (has_where_condition) and frees none.  *)
LeaksOnlyDeleteColumn == leaked \subseteq Block("where_column")

(* So the memory of a node is freed once, whatever the statement was.      *)
FreesWhatItAllocates == FreesOnlyLive /\ LeaksOnlyDeleteColumn

(* From tokens[j] on: WHERE, a column, an operator and a literal of the    *)
(* node's type, or no WHERE.                                               *)
WhereGrammar(j) ==
  IF tokens[j] = "WHERE"
  THEN /\ tokens[j + 1] = "identifier" /\ tokens[j + 2] = "operator"
       /\ tokens[j + 3] \in Literals /\ node.value = LiteralType[tokens[j + 3]]
       /\ HasWhere(node) /\ index = j + 3
  ELSE ~HasWhere(node) /\ ~node.column

PrefixGrammar(type) == \A i \in 1..Len(Prefix[type]) : tokens[i] = Prefix[type][i]

(* (name type, ..., name type): the node has one type for each column. *)
CreateGrammar ==
  LET n == Len(node.columns)
      Sep(i) == IF i = n THEN "close" ELSE "comma"
  IN /\ n > 0 /\ index = 4 + 3 * n
     /\ \A i \in 1..n : /\ tokens[2 + 3 * i] = "identifier"
                        /\ tokens[3 + 3 * i] \in Keywords
                        /\ node.columns[i] = ColumnType(tokens[3 + 3 * i])
                        /\ tokens[4 + 3 * i] = Sep(i)

(* (literal, ..., literal): the node has one value of each literal's type. *)
InsertGrammar ==
  LET n == Len(node.values)
      Sep(i) == IF i = n THEN "close" ELSE "comma"
  IN /\ n > 0 /\ index = 4 + 2 * n
     /\ \A i \in 1..n : /\ tokens[4 + 2 * i] \in Literals
                        /\ node.values[i] = LiteralType[tokens[4 + 2 * i]]
                        /\ tokens[5 + 2 * i] = Sep(i)

(* A wildcard, or names between commas with at most one comma behind the   *)
(* last, then FROM and the table.                                          *)
SelectGrammar ==
  LET n == node.selected
      comma == IF n > 0 /\ tokens[1 + 2 * n] = "comma" THEN 1 ELSE 0
      from == IF node.all THEN 3 ELSE 1 + 2 * n + comma
  IN /\ node.all <=> n = 0
     /\ node.all => tokens[2] = "wildcard"
     /\ \A i \in 1..n : tokens[2 * i] = "identifier" /\ (i < n => tokens[1 + 2 * i] = "comma")
     /\ tokens[from] = "FROM" /\ tokens[from + 1] = "identifier"
     /\ WhereGrammar(from + 2)

(* What is consumed of an accepted statement has the form of the comment   *)
(* over its parser, save that any keyword counts as a column type          *)
(* (COLUMN_TYPE_UNKNOWN) and a SELECT's list may end with a comma; and the *)
(* node holds what the tokens say: a column for each declaration, a value  *)
(* for each literal, the WHERE clause that is there.                       *)
AcceptedFollowsGrammar ==
  pc = "accepted" =>
    /\ node.table
    /\ PrefixGrammar(node.type)
    /\ CASE node.type = "CREATE" -> CreateGrammar
         [] node.type = "INSERT" -> InsertGrammar
         [] node.type = "SELECT" -> SelectGrammar
         [] node.type = "DELETE" -> WhereGrammar(4) /\ (node.all <=> ~HasWhere(node))
         [] node.type = "DROP" -> TRUE

-----------------------------------------------------------------------------
(* What the documentation says and the code does not do *)

(* "DELETE FROM table WHERE search_condition;" (statements/delete.c:15)    *)
(* and "SELECT column_name/* FROM table WHERE search_condition;"           *)
(* (statements/select.c:15): a statement taken to be without WHERE ends    *)
(* behind its table.                                                       *)
NoWhereMeansEnd ==
  pc = "accepted" /\ node.type \in {"SELECT", "DELETE"} /\ ~HasWhere(node)
    => tokens[Len(tokens)] = EOF
=============================================================================
