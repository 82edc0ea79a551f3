---------------------------- MODULE ParserProofs ----------------------------
(***************************************************************************)
(* What is proved of Parser for statements of any length that              *)
(* MaxTokensAssumption allows.  No statement parser reads a token behind   *)
(* the semicolon; and what it allocates is freed once, all but the column  *)
(* name of a WHERE that breaks off: the second inductive invariant says of *)
(* every place of the parser which blocks are allocated, those ast_free    *)
(* would release and those of the column list under construction.  An      *)
(* accepted statement has the form of its grammar: the third says what the *)
(* tokens consumed so far are and what the node already holds of them.     *)
(***************************************************************************)
EXTENDS Parser, TLAPS

Parsing == pc \notin Returned

(* The strengthening of ReadsInsideStatement.  A parser that has not        *)
(* returned has read at most one token beyond those it consumed, and       *)
(* consumed no semicolon; inside a fixed beginning, the statement is the   *)
(* one its first token says and the beginning goes on.                     *)
ReadInv ==
  /\ tokens \in Seq(Kinds)
  /\ index \in Nat
  /\ pc \in Locations
  /\ ReadsInsideStatement
  /\ Parsing => /\ index <= Len(tokens)
                /\ Len(tokens) <= index + 1
                /\ \A i \in 1..index : tokens[i] # EOF
  /\ pc = "start" => index = 0
  /\ pc = "head" => /\ tokens[1] \in Statements \ {"SELECT"}
                    /\ index \in 1..Len(Prefix[tokens[1]]) - 1

(* What a read leaves behind: the token under the index is the last read.  *)
AfterRead(k) ==
  /\ tokens' \in Seq(Kinds)
  /\ Len(tokens') = index + 1
  /\ tokens'[index + 1] = k
  /\ k \in Kinds
  /\ \A i \in 1..index : tokens'[i] = tokens[i] /\ tokens'[i] # EOF

-----------------------------------------------------------------------------

(* A read by a parser that has not returned finds a token of the statement. *)
LEMMA ReadFindsToken ==
  ASSUME ReadInv, Parsing, NEW k \in Kinds, Read(k)
  PROVE  AfterRead(k)
<1>1. CASE index < Len(tokens)
  BY <1>1 DEF ReadInv, Read, AfterRead
<1>2. CASE ~(index < Len(tokens))
  <2>1. index = Len(tokens) /\ tokens' = Append(tokens, k)
    BY <1>2 DEF ReadInv, Read
  <2>2. QED
    BY <2>1 DEF ReadInv, AfterRead
<1>3. QED
  BY <1>1, <1>2

(* What a step that consumes a token other than the semicolon leaves.      *)
LEMMA ConsumeMovesOn ==
  ASSUME ReadInv, Parsing, NEW k \in Kinds, Read(k), k # EOF, NEW next, Consume(next)
  PROVE  /\ tokens' \in Seq(Kinds) /\ index' \in Nat
         /\ index' = index + 1 /\ index' = Len(tokens')
         /\ \A i \in 1..index' : tokens'[i] # EOF
         /\ \A i \in 1..index : tokens'[i] = tokens[i]
         /\ tokens'[index'] = k
<1>1. AfterRead(k)
  BY ReadFindsToken
<1>2. QED
  BY <1>1 DEF AfterRead, Consume, ReadInv

(* A step that consumes a token other than the semicolon and goes on.      *)
LEMMA ConsumeKeepsInv ==
  ASSUME ReadInv, Parsing, NEW k \in Kinds, Read(k), k # EOF,
         NEW next \in Locations \ {"start", "head"}, Consume(next)
  PROVE  ReadInv'
<1>1. pc' = next
  BY DEF Consume
<1>2. QED
  BY <1>1, ConsumeMovesOn DEF ReadInv, ReadsInsideStatement

(* A step that reads a token and stays before it, or returns. *)
LEMMA KeepKeepsInv ==
  ASSUME ReadInv, Parsing, NEW k \in Kinds, Read(k),
         NEW next \in Locations \ {"start", "head"}, pc' = next, index' = index
  PROVE  ReadInv'
<1>1. AfterRead(k)
  BY ReadFindsToken
<1>2. /\ tokens' \in Seq(Kinds) /\ index' \in Nat /\ pc' \in Locations
      /\ Len(tokens') = index' + 1 /\ pc' \notin {"start", "head"}
      /\ \A i \in 1..index' : tokens'[i] # EOF
  BY <1>1 DEF AfterRead, ReadInv
<1>3. QED
  BY <1>2 DEF ReadInv, ReadsInsideStatement

(* A parser that gives up has read no further than the token it refuses. *)
LEMMA FailKeepsInv ==
  ASSUME ReadInv, Parsing, NEW k \in Kinds, Read(k), NEW freed, Fail(freed)
  PROVE  ReadInv'
<1>1. pc' = "rejected" /\ index' = index /\ "rejected" \in Locations \ {"start", "head"}
  BY DEF Fail, Locations, Returned
<1>2. QED
  BY <1>1, KeepKeepsInv

-----------------------------------------------------------------------------

LEMMA InitReadInv == Init => ReadInv
  BY MaxTokensAssumption DEF Init, ReadInv, Locations, ReadsInsideStatement, Parsing

(* No fixed beginning contains a semicolon.                                *)
LEMMA PrefixHasNoEOF ==
  \A t \in Statements \ {"SELECT"} :
    \A i \in 0..Len(Prefix[t]) - 1 : Prefix[t][i + 1] # EOF
<1> SUFFICES ASSUME NEW t \in Statements \ {"SELECT"}, NEW i \in 0..Len(Prefix[t]) - 1
             PROVE  Prefix[t][i + 1] # EOF
  OBVIOUS
<1>1. CASE t = "CREATE"
  <2>1. Prefix[t] = <<"CREATE", "TABLE", "identifier", "open">>
    BY <1>1 DEF Prefix, CreateHead, DropHead, InsertHead, DeleteHead, SelectHead
  <2>2. QED
    BY <2>1 DEF EOF
<1>2. CASE t = "DROP"
  <2>1. Prefix[t] = <<"DROP", "TABLE", "identifier">>
    BY <1>2 DEF Prefix, CreateHead, DropHead, InsertHead, DeleteHead, SelectHead
  <2>2. QED
    BY <2>1 DEF EOF
<1>3. CASE t = "INSERT"
  <2>1. Prefix[t] = <<"INSERT", "INTO", "identifier", "VALUES", "open">>
    BY <1>3 DEF Prefix, CreateHead, DropHead, InsertHead, DeleteHead, SelectHead
  <2>2. QED
    BY <2>1 DEF EOF
<1>4. CASE t = "DELETE"
  <2>1. Prefix[t] = <<"DELETE", "FROM", "identifier">>
    BY <1>4 DEF Prefix, CreateHead, DropHead, InsertHead, DeleteHead, SelectHead
  <2>2. QED
    BY <2>1 DEF EOF
<1>5. QED
  BY <1>1, <1>2, <1>3, <1>4 DEF Statements

(* The first keyword: the statement it names begins. *)
LEMMA DispatchKeepsInv == ReadInv /\ Dispatch => ReadInv'
<1>1. SUFFICES ASSUME ReadInv, Dispatch PROVE ReadInv'
  OBVIOUS
<1>2. Parsing
  BY <1>1 DEF Dispatch, Parsing, Returned
<1>3. PICK k \in Kinds :
        /\ Read(k)
        /\ \/ k \in Statements \ {"SELECT"} /\ Consume("head")
           \/ k = "SELECT" /\ Consume(Body.SELECT)
           \/ Fail({})
  BY <1>1 DEF Dispatch
<1>4. CASE k \in Statements \ {"SELECT"} /\ Consume("head")
  <2>1. k # EOF
    BY <1>4 DEF Statements, EOF
  <2>2. /\ tokens' \in Seq(Kinds) /\ index' = 1 /\ Len(tokens') = 1
        /\ tokens'[1] = k
    <3>1. index = 0
      BY <1>1 DEF Dispatch, ReadInv
    <3>2. /\ tokens' \in Seq(Kinds) /\ index' = index + 1
          /\ index' = Len(tokens') /\ tokens'[index'] = k
      BY <1>1, <1>2, <1>3, <1>4, <2>1, ConsumeMovesOn
    <3>3. QED
      BY <3>1, <3>2
  <2>3. pc' = "head" /\ "head" \in Locations
    BY <1>4 DEF Consume, Locations
  <2>4. 1 \in 1..Len(Prefix[k]) - 1
    BY <1>4 DEF Statements, Prefix, CreateHead, DropHead, InsertHead, DeleteHead, SelectHead
  <2>5. QED
    BY <1>4, <2>1, <2>2, <2>3, <2>4 DEF ReadInv, ReadsInsideStatement
<1>5. CASE k = "SELECT" /\ Consume(Body.SELECT)
  <2>1. k # EOF /\ Body.SELECT \in Locations \ {"start", "head"}
    BY <1>5 DEF EOF, Body, Locations
  <2>2. QED
    BY <1>1, <1>2, <1>3, <1>5, <2>1, ConsumeKeepsInv
<1>6. CASE Fail({})
  BY <1>1, <1>2, <1>3, <1>6, FailKeepsInv
<1>7. QED
  BY <1>3, <1>4, <1>5, <1>6

(* A fixed beginning: its tokens are not semicolons.                       *)
LEMMA ExpectHeadKeepsInv == ReadInv /\ ExpectHead => ReadInv'
<1> DEFINE type == tokens[1]
           isLast == index + 1 = Len(Prefix[type])
<1>1. SUFFICES ASSUME ReadInv, ExpectHead PROVE ReadInv'
  OBVIOUS
<1>2. /\ Parsing
      /\ type \in Statements \ {"SELECT"}
      /\ index \in 1..Len(Prefix[type]) - 1
  BY <1>1 DEF ExpectHead, ReadInv, Parsing, Returned
<1>3. PICK k \in Kinds :
        /\ Read(k)
        /\ \/ Fail({})
           \/ k = Prefix[type][index + 1] /\ Consume(IF isLast THEN Body[type] ELSE "head")
  BY <1>1 DEF ExpectHead
<1>4. CASE Fail({})
  BY <1>1, <1>2, <1>3, <1>4, FailKeepsInv
<1>5. CASE k = Prefix[type][index + 1] /\ Consume(IF isLast THEN Body[type] ELSE "head")
  <2>1. k # EOF
    BY <1>2, <1>5, PrefixHasNoEOF
  <2>2. CASE isLast
    <3>1. Body[type] \in Locations \ {"start", "head"}
      BY <1>2 DEF Statements, Body, Locations, Returned
    <3>2. QED
      BY <1>1, <1>2, <1>3, <1>5, <2>1, <2>2, <3>1, ConsumeKeepsInv
  <2>3. CASE ~isLast
    <3>1. pc' = "head" /\ "head" \in Locations
      BY <1>5, <2>3 DEF Consume, Locations
    <3>2. /\ tokens' \in Seq(Kinds) /\ index' \in Nat
          /\ index' = index + 1 /\ index' = Len(tokens')
          /\ \A i \in 1..index' : tokens'[i] # EOF
          /\ tokens'[1] = type
      BY <1>1, <1>2, <1>3, <1>5, <2>1, ConsumeMovesOn
    <3>3. index + 1 \in 1..Len(Prefix[type]) - 1
      BY <1>2, <2>3 DEF Statements, Prefix, CreateHead, DropHead, InsertHead, DeleteHead, SelectHead
    <3>4. QED
      BY <1>2, <3>1, <3>2, <3>3 DEF ReadInv, ReadsInsideStatement
  <2>4. QED
    BY <2>2, <2>3
<1>6. QED
  BY <1>3, <1>4, <1>5

(* The steps that read one token and consume it, refuse it or keep it.     *)
LEMMA OneTokenKeepsInv ==
  ASSUME ReadInv, Parsing, NEW k \in Kinds, Read(k), NEW freed,
         NEW next \in Locations \ {"start", "head"},
         \/ k # EOF /\ Consume(next)
         \/ Keep(next)
         \/ Fail(freed)
  PROVE  ReadInv'
<1>1. CASE k # EOF /\ Consume(next)
  BY <1>1, ConsumeKeepsInv
<1>2. CASE Keep(next)
  BY <1>2, KeepKeepsInv DEF Keep
<1>3. CASE Fail(freed)
  BY <1>3, FailKeepsInv
<1>4. QED
  BY <1>1, <1>2, <1>3

-----------------------------------------------------------------------------

(* The steps of CREATE's columns and INSERT's values.                      *)
LEMMA ListKeepsInv ==
  ASSUME ReadInv, ColumnName \/ ColumnKeyword \/ ColumnEnd \/ InsertValue \/ InsertEnd
  PROVE  ReadInv'
<1> USE DEF Parsing, Returned, Locations
<1>1. CASE ColumnName
  <2>1. PICK k \in Kinds : Read(k) /\ \/ k # EOF /\ Consume("column_type")
                                      \/ Fail(ColumnsFree(Len(columns)))
    BY <1>1 DEF ColumnName, EOF
  <2>2. QED
    BY <1>1, <2>1, OneTokenKeepsInv DEF ColumnName
<1>2. CASE ColumnKeyword
  <2>1. PICK k \in Kinds :
          Read(k) /\ \/ k # EOF /\ Consume("column_end")
                     \/ Fail(ColumnsFree(Len(columns)) \cup {<<"column", Len(columns) + 1>>})
    BY <1>2 DEF ColumnKeyword, Keywords, Statements, TypeKeywords, EOF
  <2>2. QED
    BY <1>2, <2>1, OneTokenKeepsInv DEF ColumnKeyword
<1>3. CASE ColumnEnd
  <2>1. PICK k \in Kinds : Read(k) /\ \/ k # EOF /\ Consume("column_name")
                                      \/ k # EOF /\ Consume("accepted")
                                      \/ Fail(ColumnsFree(Len(columns)))
    BY <1>3 DEF ColumnEnd, EOF
  <2>2. QED
    BY <1>3, <2>1, OneTokenKeepsInv DEF ColumnEnd
<1>4. CASE InsertValue
  <2>1. PICK k \in Kinds : Read(k) /\ \/ k # EOF /\ Consume("value_end")
                                      \/ Fail({})
    BY <1>4 DEF InsertValue, Literals, EOF
  <2>2. QED
    BY <1>4, <2>1, OneTokenKeepsInv DEF InsertValue
<1>5. CASE InsertEnd
  <2>1. PICK k \in Kinds : Read(k) /\ \/ k # EOF /\ Consume("value")
                                      \/ Keep("accepted")
                                      \/ Fail({})
    BY <1>5 DEF InsertEnd, EOF
  <2>2. QED
    BY <1>5, <2>1, OneTokenKeepsInv DEF InsertEnd
<1>6. QED
  BY <1>1, <1>2, <1>3, <1>4, <1>5

(* The steps of SELECT up to its table.                                    *)
LEMMA SelectKeepsInv ==
  ASSUME ReadInv,
         \/ SelectAll \/ SelectColumn \/ SelectOther
         \/ SelectEnd \/ SelectFrom \/ SelectTable
  PROVE  ReadInv'
<1> USE DEF Parsing, Returned, Locations
<1>1. CASE SelectAll
  <2>1. "wildcard" \in Kinds /\ "wildcard" # EOF /\ Read("wildcard") /\ Consume("from")
    BY <1>1 DEF SelectAll, Kinds, EOF
  <2>2. QED
    BY <1>1, <2>1, OneTokenKeepsInv DEF SelectAll
<1>2. CASE SelectColumn
  <2>1. /\ "identifier" \in Kinds /\ "identifier" # EOF
        /\ Read("identifier") /\ Consume("select_end")
    BY <1>2 DEF SelectColumn, Kinds, EOF
  <2>2. QED
    BY <1>2, <2>1, OneTokenKeepsInv DEF SelectColumn
<1>3. CASE SelectOther
  <2>1. PICK k \in Kinds : Read(k) /\ (Fail({}) \/ Keep("from"))
    BY <1>3 DEF SelectOther
  <2>2. QED
    BY <1>3, <2>1, OneTokenKeepsInv DEF SelectOther
<1>4. CASE SelectEnd
  <2>1. PICK k \in Kinds : Read(k) /\ \/ k # EOF /\ Consume("select_next")
                                      \/ Keep("from")
    BY <1>4 DEF SelectEnd, EOF
  <2>2. QED
    BY <1>4, <2>1, OneTokenKeepsInv DEF SelectEnd
<1>5. CASE SelectFrom
  <2>1. PICK k \in Kinds : Read(k) /\ ((k # EOF /\ Consume("table")) \/ Fail({}))
    BY <1>5 DEF SelectFrom, EOF
  <2>2. QED
    BY <1>5, <2>1, OneTokenKeepsInv DEF SelectFrom
<1>6. CASE SelectTable
  <2>1. PICK k \in Kinds : Read(k) /\ ((k # EOF /\ Consume("where")) \/ Fail({}))
    BY <1>6 DEF SelectTable, EOF
  <2>2. QED
    BY <1>6, <2>1, OneTokenKeepsInv DEF SelectTable
<1>7. QED
  BY <1>1, <1>2, <1>3, <1>4, <1>5, <1>6

(* The steps of the WHERE clause.                                          *)
LEMMA WhereKeepsInv ==
  ASSUME ReadInv, OptionalWhere \/ WhereColumn \/ WhereOperator \/ WhereValue
  PROVE  ReadInv'
<1> USE DEF Parsing, Returned, Locations
<1>1. CASE OptionalWhere
  <2>1. PICK k \in Kinds : Read(k) /\ \/ k # EOF /\ Consume("where_column")
                                      \/ Keep("accepted")
    BY <1>1 DEF OptionalWhere, EOF
  <2>2. QED
    BY <1>1, <2>1, OneTokenKeepsInv DEF OptionalWhere
<1>2. CASE WhereColumn
  <2>1. PICK k \in Kinds : Read(k) /\ ((k # EOF /\ Consume("where_operator")) \/ Fail({}))
    BY <1>2 DEF WhereColumn, EOF
  <2>2. QED
    BY <1>2, <2>1, OneTokenKeepsInv DEF WhereColumn
<1>3. CASE WhereOperator
  <2>1. PICK k \in Kinds : Read(k) /\ ((k # EOF /\ Consume("where_value")) \/ Fail({}))
    BY <1>3 DEF WhereOperator, EOF
  <2>2. QED
    BY <1>3, <2>1, OneTokenKeepsInv DEF WhereOperator
<1>4. CASE WhereValue
  <2>1. PICK k \in Kinds : Read(k) /\ ((k # EOF /\ Consume("accepted")) \/ Fail({}))
    BY <1>4 DEF WhereValue, Literals, EOF
  <2>2. QED
    BY <1>4, <2>1, OneTokenKeepsInv DEF WhereValue
<1>5. QED
  BY <1>1, <1>2, <1>3, <1>4

LEMMA ReleaseKeepsInv == ReadInv /\ Release => ReadInv'
  BY DEF Release, ReadInv, ReadsInsideStatement, Parsing, Returned, Locations

(* The next statement begins with no token read.                           *)
LEMMA NextStatementKeepsInv == ReadInv /\ NextStatement => ReadInv'
<1> SUFFICES ASSUME ReadInv, NextStatement PROVE ReadInv'
  OBVIOUS
<1>1. pc' = "start" /\ tokens' = <<>> /\ index' = 0
  BY DEF NextStatement
<1>2. QED
  BY <1>1 DEF ReadInv, ReadsInsideStatement, Locations

LEMMA StutterKeepsInv == ReadInv /\ UNCHANGED vars => ReadInv'
  BY DEF vars, ReadInv, ReadsInsideStatement, Parsing

LEMMA NextKeepsInv == ReadInv /\ [Next]_vars => ReadInv'
<1> SUFFICES ASSUME ReadInv, [Next]_vars PROVE ReadInv'
  OBVIOUS
<1>1. CASE Dispatch
  BY <1>1, DispatchKeepsInv
<1>2. CASE ExpectHead
  BY <1>2, ExpectHeadKeepsInv
<1>3. CASE ColumnName \/ ColumnKeyword \/ ColumnEnd \/ InsertValue \/ InsertEnd
  BY <1>3, ListKeepsInv
<1>4. CASE \/ SelectAll \/ SelectColumn \/ SelectOther
           \/ SelectEnd \/ SelectFrom \/ SelectTable
  BY <1>4, SelectKeepsInv
<1>5. CASE OptionalWhere \/ WhereColumn \/ WhereOperator \/ WhereValue
  BY <1>5, WhereKeepsInv
<1>6. CASE Release
  BY <1>6, ReleaseKeepsInv
<1>7. CASE NextStatement
  BY <1>7, NextStatementKeepsInv
<1>8. CASE UNCHANGED vars
  BY <1>8, StutterKeepsInv
<1>9. QED
  BY <1>1, <1>2, <1>3, <1>4, <1>5, <1>6, <1>7, <1>8 DEF Next

(* Whatever the statement, no parser (parser_table_create, ...,            *)
(* parser_where_condition) reads tokens[i] for an i behind the semicolon   *)
(* that ends the array.                                                    *)
THEOREM ReadsAreInside == Spec => []ReadsInsideStatement
<1>1. ReadInv => ReadsInsideStatement
  BY DEF ReadInv
<1>2. QED
  BY <1>1, InitReadInv, NextKeepsInv, PTL DEF Spec

-----------------------------------------------------------------------------
(* The memory of a statement. *)
ColumnTypes == TypeKeywords \cup {"UNKNOWN"}

Nodes ==
  [type : Statements, table : BOOLEAN, columns : Seq(ColumnTypes), values : Seq(TypeKeywords),
   selected : Nat, all : BOOLEAN, column : BOOLEAN, op : BOOLEAN, value : TypeKeywords \cup {"NULL"}]

InColumns == {"column_name", "column_type", "column_end"}
InValues == {"value", "value_end"}
InSelect == {"select", "select_next", "select_end", "from", "table"}
BeforeWhere == {"where", "where_column"}
BehindColumn == {"where_operator", "where_value"}

NoCondition == ~node.column /\ node.value = "NULL"

(* The node under construction at each place of the parser. *)
NodeFits ==
  /\ node \in Nodes \cup {NoNode}
  /\ columns \in Seq(ColumnTypes)
  /\ pc \notin InColumns => columns = <<>>
  /\ pc = "column_end" => columns # <<>>
  /\ pc \in {"start", "rejected", "released"} => node = NoNode
  /\ pc \notin {"start", "rejected", "released", "head"} => node # NoNode
  /\ pc = "head" /\ node # NoNode =>
       node.type \in {"CREATE", "INSERT"} /\ node.columns = <<>> /\ node.values = <<>>
  /\ pc = "head" /\ node # NoNode => node.type = tokens[1] /\ index > 2
  /\ pc = "head" /\ index > 2 => node # NoNode
  /\ pc \in InColumns => node.type = "CREATE" /\ node.columns = <<>>
  /\ pc \in InValues => node.type = "INSERT"
  /\ pc \in InSelect => node.type = "SELECT" /\ NoCondition
  /\ pc \in BeforeWhere => node.type \in {"SELECT", "DELETE"} /\ NoCondition
  /\ pc \in BehindColumn =>
       node.type \in {"SELECT", "DELETE"} /\ node.column /\ node.value = "NULL"
  /\ pc = "where_value" => node.op

(* The blocks of the column list that no node refers to yet. *)
Pending ==
  IF pc \in InColumns
  THEN ColumnsFree(Len(columns)) \cup If(pc = "column_type", {<<"column", Len(columns) + 1>>})
  ELSE {}

Held == Pending \cup (IF node = NoNode THEN {} ELSE AstFree(node))

(* All that is held is allocated, and no more but for the column name.     *)
HeapFits ==
  /\ Held \subseteq heap
  /\ heap \subseteq Held \cup Block("where_column")
  /\ node # NoNode /\ node.column => Block("where_column") \subseteq heap
  /\ pc = "start" => heap = {}
  /\ leaked \subseteq Block("where_column")

MemoryInv == ReadInv /\ NodeFits /\ HeapFits

-----------------------------------------------------------------------------
(* What ast_free releases, by the kind of node. *)

LEMMA NodeIsNone == NoNode \notin Nodes
  BY DEF NoNode, Nodes, Statements

LEMMA AstFreeCreate ==
  ASSUME NEW n \in Nodes, n.type = "CREATE"
  PROVE  AstFree(n) = Block("node") \cup If(n.table, Block("table"))
                        \cup If(n.columns # <<>>, ColumnsFree(Len(n.columns)))
  BY DEF AstFree

LEMMA AstFreeInsert ==
  ASSUME NEW n \in Nodes, n.type = "INSERT"
  PROVE  AstFree(n) = Block("node") \cup If(n.table, Block("table"))
                        \cup If(n.values # <<>>, ValuesFree(n))
  BY DEF AstFree

LEMMA AstFreeSelect ==
  ASSUME NEW n \in Nodes, n.type = "SELECT"
  PROVE  AstFree(n) = Block("node") \cup If(n.table, Block("table"))
                        \cup If(n.selected > 0, Block("selected") \cup Each("name", n.selected))
                        \cup WhereFree(n)
  BY DEF AstFree

LEMMA AstFreeDelete ==
  ASSUME NEW n \in Nodes, n.type = "DELETE"
  PROVE  AstFree(n) = Block("node") \cup If(n.table, Block("table"))
                        \cup If(HasWhere(n), WhereFree(n))
  BY DEF AstFree

LEMMA AstFreeDrop ==
  ASSUME NEW n \in Nodes, n.type = "DROP"
  PROVE  AstFree(n) = Block("node") \cup If(n.table, Block("table"))
  BY DEF AstFree

-----------------------------------------------------------------------------
(* How the heap changes. *)

(* A step that allocates what the node and the column list then hold, or a *)
(* column name.                                                            *)
LEMMA HeapGrows ==
  ASSUME HeapFits, NEW new, heap' = heap \cup new, leaked' = leaked,
         Held \subseteq Held', Held' \subseteq heap', new \subseteq Held' \cup Block("where_column"),
         node' # NoNode /\ node'.column => Block("where_column") \subseteq heap',
         pc' # "start"
  PROVE  HeapFits'
  BY DEF HeapFits, Block

(* A parser that gives up frees the column list and the node. *)
LEMMA FailFrees ==
  ASSUME MemoryInv, Parsing, NEW k \in Kinds, Read(k),
         NEW freed, Pending \subseteq freed, Fail(freed), leaked' = leaked
  PROVE  NodeFits' /\ HeapFits'
  <1>1. /\ pc' = "rejected" /\ node' = NoNode /\ columns' = <<>>
        /\ heap' = (heap \ freed) \ (IF node = NoNode THEN {} ELSE AstFree(node))
    BY DEF Fail
  <1>2. NodeFits'
    BY <1>1 DEF NodeFits, InColumns, InValues, InSelect, BeforeWhere, BehindColumn
  <1>3. Held' = {}
    BY <1>1 DEF Held, Pending, InColumns
  <1>4. heap' \subseteq Block("where_column")
    BY <1>1 DEF MemoryInv, HeapFits, Held
  <1>5. HeapFits'
    BY <1>1, <1>3, <1>4 DEF MemoryInv, HeapFits, Block
  <1> QED BY <1>2, <1>5

LEMMA MemoryInit == Init => MemoryInv
  <1> SUFFICES ASSUME Init PROVE MemoryInv
    OBVIOUS
  <1>1. NodeFits
    BY DEF Init, NodeFits, InColumns, InValues, InSelect, BeforeWhere, BehindColumn
  <1>2. Held = {}
    BY DEF Init, Held, Pending, InColumns
  <1>3. HeapFits
    BY <1>2 DEF Init, HeapFits
  <1> QED BY <1>1, <1>3, InitReadInv DEF MemoryInv

(* A new node owns itself and perhaps its table name. *)
LEMMA NewNodeOwns ==
  ASSUME NEW t \in Statements, NEW h \in BOOLEAN, NEW n, n = NewNode(t, h)
  PROVE  /\ n \in Nodes /\ n # NoNode /\ n.type = t
         /\ n.columns = <<>> /\ n.values = <<>>
         /\ ~n.column /\ n.value = "NULL"
         /\ AstFree(n) = Block("node") \cup If(h, Block("table"))
  <1>1. /\ n.type = t /\ n.table = h /\ n.columns = <<>> /\ n.values = <<>>
        /\ n.selected = 0 /\ ~n.column /\ n.value = "NULL" /\ ~HasWhere(n)
    BY DEF NewNode, HasWhere
  <1>2. n \in Nodes
    BY DEF NewNode, Nodes
  <1>3. WhereFree(n) = {}
    BY <1>1 DEF WhereFree, If
  <1>4. AstFree(n) = Block("node") \cup If(h, Block("table"))
    BY <1>1, <1>2, <1>3, AstFreeCreate, AstFreeInsert, AstFreeSelect, AstFreeDelete, AstFreeDrop
       DEF Statements, If
  <1> QED BY <1>1, <1>2, <1>4, NodeIsNone

-----------------------------------------------------------------------------
(* The beginning of a statement. *)

LEMMA DispatchKeepsMemory ==
  ASSUME MemoryInv, Dispatch
  PROVE  NodeFits' /\ HeapFits'
  <1>0. pc = "start" /\ node = NoNode /\ columns = <<>> /\ heap = {} /\ leaked' = leaked
        /\ index = 0 /\ Parsing
    BY DEF Dispatch, MemoryInv, NodeFits, HeapFits, ReadInv, InColumns, Parsing, Returned
  <1>1. PICK k \in Kinds :
          /\ Read(k)
          /\ \/ /\ k \in Statements \ {"SELECT"} /\ Consume("head")
                /\ UNCHANGED <<columns, node, heap>>
             \/ /\ k = "SELECT" /\ Consume(Body.SELECT)
                /\ node' = NewNode("SELECT", FALSE)
                /\ Allocate(Block("node"))
                /\ UNCHANGED columns
             \/ Fail({})
    BY DEF Dispatch
  <1>2. CASE Consume("head") /\ UNCHANGED <<columns, node, heap>>
    <2>1. pc' = "head" /\ index' = 1 /\ node' = NoNode /\ columns' = <<>> /\ heap' = {}
      BY <1>0, <1>2 DEF Consume
    <2>2. NodeFits'
      BY <2>1 DEF NodeFits, InColumns, InValues, InSelect, BeforeWhere, BehindColumn
    <2>3. Held' = {}
      BY <2>1 DEF Held, Pending, InColumns
    <2>4. HeapFits'
      BY <1>0, <2>1, <2>3 DEF MemoryInv, HeapFits
    <2> QED BY <2>2, <2>4
  <1>3. CASE /\ Consume(Body.SELECT) /\ node' = NewNode("SELECT", FALSE)
             /\ Allocate(Block("node")) /\ UNCHANGED columns
    <2>1. pc' = "select" /\ columns' = <<>> /\ heap' = Block("node")
      BY <1>0, <1>3 DEF Consume, Body, Allocate
    <2>2. /\ node' \in Nodes /\ node' # NoNode /\ node'.type = "SELECT"
          /\ ~node'.column /\ node'.value = "NULL"
          /\ AstFree(node') = Block("node")
      BY <1>3, NewNodeOwns DEF Statements, If
    <2>3. NodeFits'
      BY <2>1, <2>2 DEF NodeFits, NoCondition, InColumns, InValues, InSelect, BeforeWhere, BehindColumn
    <2>4. Held' = Block("node")
      BY <2>1, <2>2 DEF Held, Pending, InColumns
    <2>5. HeapFits'
      BY <1>0, <2>1, <2>2, <2>4 DEF MemoryInv, HeapFits
    <2> QED BY <2>3, <2>5
  <1>4. CASE Fail({})
    <2>1. Pending = {}
      BY <1>0 DEF Pending, InColumns
    <2> QED BY <1>0, <1>1, <1>4, <2>1, FailFrees
  <1> QED BY <1>1, <1>2, <1>3, <1>4

(* The table name is the third token of each fixed beginning. *)
LEMMA TableNameIsThird ==
  ASSUME NEW t \in Statements \ {"SELECT"}, NEW i \in 1 .. Len(Prefix[t]) - 1
  PROVE  /\ Prefix[t][i + 1] = "identifier" <=> i = 2
         /\ i > 2 => t \in {"CREATE", "INSERT"}
         /\ i = 2 /\ i + 1 # Len(Prefix[t]) => t \in {"CREATE", "INSERT"}
         /\ i = 2 /\ i + 1 = Len(Prefix[t]) => t \in {"DROP", "DELETE"}
         /\ i + 1 = Len(Prefix[t]) => i >= 2
  <1>1. CASE t = "CREATE"
    <2>1. Prefix[t] = <<"CREATE", "TABLE", "identifier", "open">>
      BY <1>1 DEF Prefix, CreateHead
    <2>2. i \in 1 .. 3
      BY <2>1
    <2> QED BY <1>1, <2>1, <2>2
  <1>2. CASE t = "DROP"
    <2>1. Prefix[t] = <<"DROP", "TABLE", "identifier">>
      BY <1>2 DEF Prefix, DropHead
    <2>2. i \in 1 .. 2
      BY <2>1
    <2> QED BY <1>2, <2>1, <2>2
  <1>3. CASE t = "INSERT"
    <2>1. Prefix[t] = <<"INSERT", "INTO", "identifier", "VALUES", "open">>
      BY <1>3 DEF Prefix, InsertHead
    <2>2. i \in 1 .. 4
      BY <2>1
    <2> QED BY <1>3, <2>1, <2>2
  <1>4. CASE t = "DELETE"
    <2>1. Prefix[t] = <<"DELETE", "FROM", "identifier">>
      BY <1>4 DEF Prefix, DeleteHead
    <2>2. i \in 1 .. 2
      BY <2>1
    <2> QED BY <1>4, <2>1, <2>2
  <1> QED BY <1>1, <1>2, <1>3, <1>4 DEF Statements

LEMMA ExpectHeadKeepsMemory ==
  ASSUME MemoryInv, ExpectHead
  PROVE  NodeFits' /\ HeapFits'
  <1> DEFINE type == tokens[1]
             isLast == index + 1 = Len(Prefix[type])
  <1>0. /\ pc = "head" /\ Parsing /\ columns = <<>> /\ leaked' = leaked
        /\ type \in Statements \ {"SELECT"} /\ index \in 1 .. Len(Prefix[type]) - 1
        /\ Pending = {}
    BY DEF ExpectHead, MemoryInv, NodeFits, ReadInv, Parsing, Returned, InColumns, Pending
  <1>1. PICK k \in Kinds :
          /\ Read(k)
          /\ \/ Fail({})
             \/ /\ k = Prefix[type][index + 1]
                /\ Consume(IF isLast THEN Body[type] ELSE "head")
                /\ node' = IF k = "identifier" THEN NewNode(type, TRUE) ELSE node
                /\ Allocate(If(k = "identifier", Block("node") \cup Block("table"))
                              \cup If(isLast /\ type = "CREATE", Block("columns")))
                /\ UNCHANGED columns
    BY DEF ExpectHead
  <1>2. CASE Fail({})
    BY <1>0, <1>1, <1>2, FailFrees
  <1>3. CASE /\ k = Prefix[type][index + 1]
             /\ Consume(IF isLast THEN Body[type] ELSE "head")
             /\ node' = IF k = "identifier" THEN NewNode(type, TRUE) ELSE node
             /\ Allocate(If(k = "identifier", Block("node") \cup Block("table"))
                           \cup If(isLast /\ type = "CREATE", Block("columns")))
             /\ UNCHANGED columns
    <2> DEFINE new == If(index = 2, Block("node") \cup Block("table"))
                       \cup If(isLast /\ type = "CREATE", Block("columns"))
    <2>1. k = "identifier" <=> index = 2
      BY <1>0, <1>3, TableNameIsThird
    <2>2. /\ index' = index + 1 /\ columns' = <<>> /\ heap' = heap \cup new
          /\ pc' = IF isLast THEN Body[type] ELSE "head"
      BY <1>0, <1>3, <2>1 DEF Consume, Allocate
    <2>3. tokens'[1] = type
      <3>1. k # EOF
        BY <1>0, <1>3, PrefixHasNoEOF
      <3> QED BY <1>0, <1>1, <1>3, <3>1, ConsumeMovesOn DEF MemoryInv
    <2>4. /\ index = 2 => node' = NewNode(type, TRUE)
          /\ index # 2 => node' = node
      BY <1>3, <2>1
    <2>5. /\ node # NoNode <=> index > 2
          /\ node # NoNode => /\ node \in Nodes /\ node.type = type
                              /\ node.columns = <<>> /\ node.values = <<>>
      BY <1>0 DEF MemoryInv, NodeFits
    <2>6. /\ index >= 2 => node' # NoNode /\ node' \in Nodes /\ node'.type = type
                            /\ node'.columns = <<>> /\ node'.values = <<>>
          /\ index < 2 => node' = NoNode
          /\ index = 2 => ~node'.column /\ node'.value = "NULL"
                          /\ AstFree(node') = Block("node") \cup Block("table")
      <3>1. CASE index = 2
        <4>1. /\ node' \in Nodes /\ node' # NoNode /\ node'.type = type
              /\ node'.columns = <<>> /\ node'.values = <<>>
              /\ ~node'.column /\ node'.value = "NULL"
              /\ AstFree(node') = Block("node") \cup If(TRUE, Block("table"))
          BY <1>0, <2>4, <3>1, NewNodeOwns
        <4> QED BY <3>1, <4>1 DEF If
      <3>2. CASE index # 2
        <4>1. index \in Nat /\ node' = node
          BY <1>0, <2>4, <3>2
        <4> QED BY <2>5, <3>2, <4>1
      <3> QED BY <3>1, <3>2
    <2>7. CASE ~isLast
      <3>1. pc' = "head"
        BY <2>2, <2>7
      <3>2. NodeFits'
        <4>1. index >= 2 => type \in {"CREATE", "INSERT"}
          BY <1>0, <2>7, TableNameIsThird
        <4> QED BY <1>0, <2>2, <2>3, <2>6, <3>1, <4>1
                DEF NodeFits, InColumns, InValues, InSelect, BeforeWhere, BehindColumn
      <3>3. Held' = IF node' = NoNode THEN {} ELSE AstFree(node')
        BY <3>1 DEF Held, Pending, InColumns
      <3>4. Held = IF node = NoNode THEN {} ELSE AstFree(node)
        BY <1>0 DEF Held
      <3>5. CASE index = 2
        <4>1. node = NoNode /\ Held = {} /\ Held' = new /\ node' # NoNode
          BY <2>5, <2>6, <2>7, <3>3, <3>4, <3>5 DEF If
        <4>2. heap' = heap \cup Held'
          BY <2>2, <4>1
        <4> QED BY <1>0, <2>6, <3>1, <3>2, <3>5, <4>1, <4>2, HeapGrows DEF MemoryInv
      <3>6. CASE index # 2
        <4>1. node' = node /\ heap' = heap /\ Held' = Held
          BY <2>2, <2>4, <2>7, <3>3, <3>4, <3>6 DEF If
        <4> QED BY <1>0, <3>1, <3>2, <4>1 DEF MemoryInv, HeapFits
      <3> QED BY <3>5, <3>6
    <2>8. CASE isLast
      <3>1. index >= 2 /\ pc' = Body[type]
        BY <1>0, <2>2, <2>8, TableNameIsThird
      <3>2. CASE index = 2
        <4>1. type \in {"DROP", "DELETE"}
          BY <1>0, <2>8, <3>2, TableNameIsThird
        <4>2. pc' \in {"accepted", "where"} /\ (type = "DROP" => pc' = "accepted")
          BY <3>1, <4>1 DEF Body
        <4>3. NodeFits'
          BY <1>0, <2>2, <2>6, <3>1, <3>2, <4>1, <4>2
             DEF NodeFits, NoCondition, InColumns, InValues, InSelect, BeforeWhere, BehindColumn
        <4>4. Held' = Block("node") \cup Block("table")
          BY <2>6, <3>1, <3>2, <4>2 DEF Held, Pending, InColumns
        <4>5. Held = {} /\ new = Block("node") \cup Block("table")
          BY <1>0, <2>5, <3>2, <4>1 DEF Held, If
        <4>6. heap' = heap \cup Held' /\ Held \subseteq Held' /\ pc' # "start"
          BY <2>2, <4>2, <4>4, <4>5
        <4> QED BY <1>0, <2>6, <3>2, <4>3, <4>6, HeapGrows DEF MemoryInv
      <3>3. CASE index > 2
        <4>1. type \in {"CREATE", "INSERT"} /\ node' = node /\ node # NoNode
          BY <1>0, <2>4, <2>5, <3>3, TableNameIsThird
        <4>2. /\ type = "CREATE" => pc' = "column_name"
              /\ type = "INSERT" => pc' = "value"
          BY <3>1, <4>1 DEF Body
        <4>3. NodeFits'
          BY <1>0, <2>2, <2>5, <3>1, <3>3, <4>1, <4>2
             DEF NodeFits, InColumns, InValues, InSelect, BeforeWhere, BehindColumn
        <4>4. Held = AstFree(node)
          BY <1>0, <4>1 DEF Held
        <4>5. new = If(type = "CREATE", Block("columns"))
          BY <2>8, <3>3, <1>0 DEF If
        <4>6. Held' = Held \cup new
          <5>1. CASE type = "CREATE"
            <6>1. Pending' = Block("columns")
              BY <2>2, <4>2, <5>1 DEF Pending, InColumns, ColumnsFree, Each, If
            <6> QED BY <4>1, <4>4, <4>5, <5>1, <6>1 DEF Held, If
          <5>2. CASE type = "INSERT"
            <6>1. Pending' = {}
              BY <4>2, <5>2 DEF Pending, InColumns
            <6> QED BY <4>1, <4>4, <4>5, <5>2, <6>1 DEF Held, If
          <5> QED BY <4>1, <5>1, <5>2
        <4>7. /\ Held' \subseteq heap' /\ pc' # "start"
              /\ node'.column => Block("where_column") \subseteq heap'
          BY <2>2, <4>1, <4>2, <4>6 DEF MemoryInv, HeapFits
        <4> QED BY <1>0, <2>2, <4>3, <4>6, <4>7, HeapGrows DEF MemoryInv
      <3> QED BY <1>0, <3>1, <3>2, <3>3
    <2> QED BY <2>7, <2>8
  <1> QED BY <1>1, <1>2, <1>3

-----------------------------------------------------------------------------
(* The columns of CREATE and the values of INSERT. *)

LEMMA ColumnsFreeGrows ==
  ASSUME NEW n \in Nat
  PROVE  ColumnsFree(n + 1) = ColumnsFree(n) \cup {<<"column", n + 1>>}
  <1>1. 1 .. n + 1 = 1 .. n \cup {n + 1}
    OBVIOUS
  <1> QED BY <1>1 DEF ColumnsFree, Each

LEMMA ColumnsKeepMemory ==
  ASSUME MemoryInv, ColumnName \/ ColumnKeyword \/ ColumnEnd
  PROVE  NodeFits' /\ HeapFits'
  <1>0. /\ pc \in InColumns /\ Parsing /\ leaked' = leaked /\ columns \in Seq(ColumnTypes)
        /\ node # NoNode /\ node \in Nodes /\ node.type = "CREATE" /\ node.columns = <<>>
    BY DEF MemoryInv, NodeFits, InColumns, ColumnName, ColumnKeyword, ColumnEnd, Parsing, Returned
  <1>1. CASE ColumnName
    <2>0. pc = "column_name" /\ Pending = ColumnsFree(Len(columns))
      BY <1>1 DEF ColumnName, Pending, InColumns, If
    <2>1. PICK k \in Kinds :
            /\ Read(k)
            /\ \/ /\ Consume("column_type")
                  /\ Allocate({<<"column", Len(columns) + 1>>})
                  /\ UNCHANGED <<columns, node>>
               \/ Fail(ColumnsFree(Len(columns)))
      BY <1>1 DEF ColumnName
    <2>2. CASE /\ Consume("column_type")
               /\ Allocate({<<"column", Len(columns) + 1>>})
               /\ UNCHANGED <<columns, node>>
      <3> DEFINE new == {<<"column", Len(columns) + 1>>}
      <3>1. pc' = "column_type" /\ heap' = heap \cup new /\ columns' = columns /\ node' = node
        BY <2>2 DEF Consume, Allocate
      <3>2. NodeFits'
        BY <1>0, <3>1 DEF NodeFits, InColumns, InValues, InSelect, BeforeWhere, BehindColumn
      <3>3. Held' = Held \cup new
        BY <2>0, <3>1 DEF Held, Pending, InColumns, If
      <3>4. /\ Held' \subseteq heap'
            /\ node'.column => Block("where_column") \subseteq heap'
        BY <1>0, <3>1, <3>3 DEF MemoryInv, HeapFits
      <3> QED BY <1>0, <3>1, <3>2, <3>3, <3>4, HeapGrows DEF MemoryInv
    <2>3. CASE Fail(ColumnsFree(Len(columns)))
      BY <1>0, <2>0, <2>1, <2>3, FailFrees
    <2> QED BY <2>1, <2>2, <2>3
  <1>2. CASE ColumnKeyword
    <2>0. /\ pc = "column_type"
          /\ Pending = ColumnsFree(Len(columns)) \cup {<<"column", Len(columns) + 1>>}
      BY <1>2 DEF ColumnKeyword, Pending, InColumns, If
    <2>1. PICK k \in Kinds :
            /\ Read(k)
            /\ \/ /\ Consume("column_end")
                  /\ columns' = Append(columns, ColumnType(k))
                  /\ UNCHANGED <<node, heap>>
               \/ Fail(ColumnsFree(Len(columns)) \cup {<<"column", Len(columns) + 1>>})
      BY <1>2 DEF ColumnKeyword
    <2>2. CASE /\ Consume("column_end")
               /\ columns' = Append(columns, ColumnType(k))
               /\ UNCHANGED <<node, heap>>
      <3>1. ColumnType(k) \in ColumnTypes
        BY DEF ColumnType, ColumnTypes
      <3>2. /\ pc' = "column_end" /\ heap' = heap /\ node' = node
            /\ columns' \in Seq(ColumnTypes) /\ columns' # <<>> /\ Len(columns') = Len(columns) + 1
        BY <1>0, <2>2, <3>1 DEF Consume
      <3>3. NodeFits'
        BY <1>0, <3>2 DEF NodeFits, InColumns, InValues, InSelect, BeforeWhere, BehindColumn
      <3>4. Pending' = Pending
        <4>1. Len(columns) \in Nat
          BY <1>0
        <4>2. Pending' = ColumnsFree(Len(columns'))
          BY <3>2 DEF Pending, InColumns, If
        <4> QED BY <2>0, <3>2, <4>1, <4>2, ColumnsFreeGrows
      <3>5. Held' = Held
        BY <3>2, <3>4 DEF Held
      <3> QED BY <1>0, <3>2, <3>3, <3>5 DEF MemoryInv, HeapFits
    <2>3. CASE Fail(ColumnsFree(Len(columns)) \cup {<<"column", Len(columns) + 1>>})
      BY <1>0, <2>0, <2>1, <2>3, FailFrees
    <2> QED BY <2>1, <2>2, <2>3
  <1>3. CASE ColumnEnd
    <2>0. pc = "column_end" /\ Pending = ColumnsFree(Len(columns)) /\ columns # <<>>
      BY <1>3 DEF ColumnEnd, Pending, InColumns, If, MemoryInv, NodeFits
    <2>1. PICK k \in Kinds :
            /\ Read(k)
            /\ \/ /\ Consume("column_name")
                  /\ UNCHANGED <<columns, node, heap>>
               \/ /\ Consume("accepted")
                  /\ node' = [node EXCEPT !.columns = columns]
                  /\ columns' = <<>>
                  /\ UNCHANGED heap
               \/ Fail(ColumnsFree(Len(columns)))
      BY <1>3 DEF ColumnEnd
    <2>2. CASE Consume("column_name") /\ UNCHANGED <<columns, node, heap>>
      <3>1. pc' = "column_name" /\ heap' = heap /\ columns' = columns /\ node' = node
        BY <2>2 DEF Consume
      <3>2. NodeFits'
        BY <1>0, <3>1 DEF NodeFits, InColumns, InValues, InSelect, BeforeWhere, BehindColumn
      <3>3. Held' = Held
        BY <2>0, <3>1 DEF Held, Pending, InColumns, If
      <3> QED BY <1>0, <3>1, <3>2, <3>3 DEF MemoryInv, HeapFits
    <2>3. CASE /\ Consume("accepted") /\ node' = [node EXCEPT !.columns = columns]
               /\ columns' = <<>> /\ UNCHANGED heap
      <3>1. pc' = "accepted" /\ heap' = heap /\ columns' = <<>>
        BY <2>3 DEF Consume
      <3>2. /\ node' \in Nodes /\ node'.type = "CREATE" /\ node'.columns = columns
            /\ node'.table = node.table /\ node'.column = node.column
        BY <1>0, <2>3 DEF Nodes
      <3>3. node' # NoNode
        BY <3>2, NodeIsNone
      <3>4. NodeFits'
        BY <3>1, <3>2, <3>3 DEF NodeFits, InColumns, InValues, InSelect, BeforeWhere, BehindColumn
      <3>5. AstFree(node) = Block("node") \cup If(node.table, Block("table"))
        BY <1>0, AstFreeCreate DEF If
      <3>6. AstFree(node') = Block("node") \cup If(node.table, Block("table"))
                               \cup ColumnsFree(Len(columns))
        BY <2>0, <3>2, AstFreeCreate DEF If
      <3>7. Held' = Held
        BY <1>0, <2>0, <3>1, <3>3, <3>5, <3>6 DEF Held, Pending, InColumns
      <3> QED BY <1>0, <3>1, <3>2, <3>4, <3>7 DEF MemoryInv, HeapFits
    <2>4. CASE Fail(ColumnsFree(Len(columns)))
      BY <1>0, <2>0, <2>1, <2>4, FailFrees
    <2> QED BY <2>1, <2>2, <2>3, <2>4
  <1> QED BY <1>1, <1>2, <1>3

(* The blocks of n values and one more. *)
LEMMA ValuesFreeGrows ==
  ASSUME NEW m \in Nodes, NEW n \in Nodes, NEW v \in TypeKeywords,
         n.values = Append(m.values, v)
  PROVE  ValuesFree(n) = ValuesFree(m) \cup ValueBlocks("value", Len(m.values) + 1, v)
  <1>1. m.values \in Seq(TypeKeywords) /\ Len(m.values) \in Nat
    BY DEF Nodes
  <1>2. /\ Len(n.values) = Len(m.values) + 1
        /\ \A i \in 1 .. Len(m.values) : n.values[i] = m.values[i]
        /\ n.values[Len(m.values) + 1] = v
    BY <1>1
  <1>3. 1 .. Len(n.values) = 1 .. Len(m.values) \cup {Len(m.values) + 1}
    BY <1>1, <1>2
  <1> DEFINE B(i) == ValueBlocks("value", i, n.values[i])
             C(i) == ValueBlocks("value", i, m.values[i])
  <1>4. \A i \in 1 .. Len(m.values) : B(i) = C(i)
    BY <1>2
  <1>5. B(Len(m.values) + 1) = ValueBlocks("value", Len(m.values) + 1, v)
    BY <1>2
  <1>6. /\ ValuesFree(n) = Block("values") \cup UNION {B(i) : i \in 1 .. Len(n.values)}
        /\ ValuesFree(m) = Block("values") \cup UNION {C(i) : i \in 1 .. Len(m.values)}
    BY DEF ValuesFree
  <1> HIDE DEF B, C
  <1>7. UNION {B(i) : i \in 1 .. Len(n.values)} =
          (UNION {C(i) : i \in 1 .. Len(m.values)}) \cup B(Len(m.values) + 1)
    BY <1>3, <1>4
  <1> QED BY <1>5, <1>6, <1>7

LEMMA ValuesKeepMemory ==
  ASSUME MemoryInv, InsertValue \/ InsertEnd
  PROVE  NodeFits' /\ HeapFits'
  <1>0. /\ pc \in InValues /\ Parsing /\ leaked' = leaked /\ columns = <<>>
        /\ node # NoNode /\ node \in Nodes /\ node.type = "INSERT" /\ Pending = {}
    BY DEF MemoryInv, NodeFits, InColumns, InValues, InsertValue, InsertEnd, Parsing, Returned,
           Pending
  <1>1. CASE InsertValue
    <2>1. PICK k \in Kinds :
            /\ Read(k)
            /\ \/ /\ k \in Literals
                  /\ Consume("value_end")
                  /\ node' = [node EXCEPT !.values = Append(@, LiteralType[k])]
                  /\ Allocate(Block("values") \cup
                              ValueBlocks("value", Len(node.values) + 1, LiteralType[k]))
                  /\ UNCHANGED columns
               \/ Fail({})
      BY <1>1 DEF InsertValue
    <2>2. CASE /\ k \in Literals
               /\ Consume("value_end")
               /\ node' = [node EXCEPT !.values = Append(@, LiteralType[k])]
               /\ Allocate(Block("values") \cup
                           ValueBlocks("value", Len(node.values) + 1, LiteralType[k]))
               /\ UNCHANGED columns
      <3> DEFINE v == LiteralType[k]
                 new == Block("values") \cup ValueBlocks("value", Len(node.values) + 1, v)
      <3>1. v \in TypeKeywords
        BY <2>2 DEF Literals, LiteralType, TypeKeywords
      <3>2. pc' = "value_end" /\ heap' = heap \cup new /\ columns' = <<>>
        BY <1>0, <2>2 DEF Consume, Allocate
      <3>3. node.values \in Seq(TypeKeywords) /\ node' = [node EXCEPT !.values = Append(node.values, v)]
        BY <1>0, <2>2 DEF Nodes
      <3> HIDE DEF v, new
      <3>4. /\ node' \in Nodes /\ node'.type = "INSERT" /\ node'.values = Append(node.values, v)
            /\ node'.table = node.table /\ node'.column = node.column
        <4>1. Append(node.values, v) \in Seq(TypeKeywords)
          BY <3>1, <3>3
        <4> QED BY <1>0, <3>3, <4>1 DEF Nodes
      <3>5. node' # NoNode /\ node'.values # <<>>
        <4>1. Len(Append(node.values, v)) = Len(node.values) + 1 /\ Len(node.values) \in Nat
          BY <3>1, <3>3
        <4>2. Append(node.values, v) # <<>>
          BY <4>1
        <4> QED BY <3>4, <4>2, NodeIsNone
      <3>6. NodeFits'
        BY <3>2, <3>4, <3>5 DEF NodeFits, InColumns, InValues, InSelect, BeforeWhere, BehindColumn
      <3>7. ValuesFree(node') = ValuesFree(node) \cup new
        <4>1. ValuesFree(node') = ValuesFree(node) \cup ValueBlocks("value", Len(node.values) + 1, v)
          BY <1>0, <3>1, <3>4, ValuesFreeGrows
        <4>2. Block("values") \subseteq ValuesFree(node)
          BY DEF ValuesFree
        <4> QED BY <4>1, <4>2 DEF new
      <3>8. AstFree(node') = Block("node") \cup If(node.table, Block("table"))
                               \cup ValuesFree(node) \cup new
        BY <3>4, <3>5, <3>7, AstFreeInsert DEF If
      <3>9. AstFree(node) = Block("node") \cup If(node.table, Block("table"))
                              \cup If(node.values # <<>>, ValuesFree(node))
        BY <1>0, AstFreeInsert
      <3>10. node.values = <<>> => ValuesFree(node) \subseteq new
        BY DEF ValuesFree, new
      <3>11. AstFree(node') = AstFree(node) \cup new
        <4>1. CASE node.values = <<>>
          BY <3>8, <3>9, <3>10, <4>1 DEF If
        <4>2. CASE node.values # <<>>
          BY <3>8, <3>9, <4>2 DEF If
        <4> QED BY <4>1, <4>2
      <3>12. Held' = Held \cup new
        BY <1>0, <3>2, <3>5, <3>11 DEF Held, Pending, InColumns
      <3>13. /\ Held' \subseteq heap' /\ pc' # "start"
             /\ node'.column => Block("where_column") \subseteq heap'
        BY <1>0, <3>2, <3>4, <3>12 DEF MemoryInv, HeapFits
      <3> QED BY <1>0, <3>2, <3>6, <3>12, <3>13, HeapGrows DEF MemoryInv
    <2>3. CASE Fail({})
      BY <1>0, <2>1, <2>3, FailFrees
    <2> QED BY <2>1, <2>2, <2>3
  <1>2. CASE InsertEnd
    <2>1. PICK k \in Kinds :
            /\ Read(k)
            /\ \/ /\ pc' \in {"value", "accepted"}
                  /\ UNCHANGED <<columns, node, heap>>
               \/ Fail({})
      BY <1>2 DEF InsertEnd, Consume, Keep
    <2>2. CASE pc' \in {"value", "accepted"} /\ UNCHANGED <<columns, node, heap>>
      <3>1. NodeFits'
        BY <1>0, <2>2 DEF NodeFits, InColumns, InValues, InSelect, BeforeWhere, BehindColumn
      <3>2. Held' = Held
        BY <1>0, <2>2 DEF Held, Pending, InColumns
      <3> QED BY <1>0, <2>2, <3>1, <3>2 DEF MemoryInv, HeapFits
    <2>3. CASE Fail({})
      BY <1>0, <2>1, <2>3, FailFrees
    <2> QED BY <2>1, <2>2, <2>3
  <1> QED BY <1>1, <1>2

-----------------------------------------------------------------------------
(* SELECT up to its table. *)

LEMMA SelectKeepsMemory ==
  ASSUME MemoryInv,
         \/ SelectAll \/ SelectColumn \/ SelectOther
         \/ SelectEnd \/ SelectFrom \/ SelectTable
  PROVE  NodeFits' /\ HeapFits'
  <1>0. /\ pc \in InSelect /\ Parsing /\ leaked' = leaked /\ columns = <<>>
        /\ node # NoNode /\ node \in Nodes /\ node.type = "SELECT" /\ Pending = {}
        /\ node.column = FALSE /\ node.value = "NULL"
    BY DEF MemoryInv, NodeFits, NoCondition, Nodes, InColumns, InSelect, Pending, Parsing, Returned,
           SelectAll, SelectColumn, SelectOther, SelectEnd, SelectFrom, SelectTable
  <1>1. ASSUME pc' \in InSelect, UNCHANGED <<columns, node, heap>>
        PROVE  NodeFits' /\ HeapFits'
    <2>1. NodeFits'
      BY <1>0, <1>1 DEF NodeFits, NoCondition, InColumns, InValues, InSelect, BeforeWhere, BehindColumn
    <2>2. Held' = Held
      BY <1>0, <1>1 DEF Held, Pending, InColumns, InSelect
    <2> QED BY <1>0, <1>1, <2>1, <2>2 DEF MemoryInv, HeapFits, InSelect
  <1>2. ASSUME NEW k \in Kinds, Read(k), Fail({})
        PROVE  NodeFits' /\ HeapFits'
    BY <1>0, <1>2, FailFrees
  <1>3. AstFree(node) = Block("node") \cup If(node.table, Block("table"))
          \cup If(node.selected > 0, Block("selected") \cup Each("name", node.selected))
    <2>1. WhereFree(node) = {}
      BY <1>0 DEF WhereFree, If
    <2> QED BY <1>0, <2>1, AstFreeSelect
  <1>4. ASSUME NEW new, pc' \in InSelect \cup BeforeWhere, columns' = columns,
               heap' = heap \cup new,
               node' \in Nodes, node'.type = "SELECT", ~node'.column, node'.value = "NULL",
               AstFree(node') = AstFree(node) \cup new
        PROVE  NodeFits' /\ HeapFits'
    <2>1. node' # NoNode
      BY <1>4, NodeIsNone
    <2>2. NodeFits'
      BY <1>0, <1>4, <2>1 DEF NodeFits, NoCondition, InColumns, InValues, InSelect, BeforeWhere, BehindColumn
    <2>3. Held' = Held \cup new
      BY <1>0, <1>4, <2>1 DEF Held, Pending, InColumns, InSelect, BeforeWhere
    <2>4. Held' \subseteq heap' /\ pc' # "start"
      BY <1>4, <2>3 DEF MemoryInv, HeapFits, InSelect, BeforeWhere
    <2> QED BY <1>0, <1>4, <2>2, <2>3, <2>4, HeapGrows DEF MemoryInv
  <1>5. CASE SelectAll
    BY <1>1, <1>5 DEF SelectAll, Consume, InSelect
  <1>6. CASE SelectColumn
    <2> DEFINE n == node.selected
               new == Block("selected") \cup {<<"name", n + 1>>}
    <2>1. /\ pc' \in InSelect /\ columns' = columns /\ heap' = heap \cup new
          /\ node' = [node EXCEPT !.selected = n + 1]
      BY <1>6 DEF SelectColumn, Consume, Allocate, InSelect
    <2>2. n \in Nat /\ n + 1 \in Nat
      BY <1>0 DEF Nodes
    <2>3. /\ node' \in Nodes /\ node'.type = "SELECT" /\ ~node'.column /\ node'.value = "NULL"
          /\ node'.selected = n + 1 /\ node'.table = node.table
      BY <1>0, <2>1, <2>2 DEF Nodes
    <2>4. WhereFree(node') = {}
      BY <2>3 DEF WhereFree, If
    <2>5. AstFree(node') = Block("node") \cup If(node.table, Block("table"))
                             \cup Block("selected") \cup Each("name", n + 1)
      <3>1. n + 1 > 0
        BY <2>2
      <3> QED BY <2>3, <2>4, <3>1, AstFreeSelect DEF If
    <2>6. Each("name", n + 1) = Each("name", n) \cup {<<"name", n + 1>>}
      <3>1. 1 .. n + 1 = 1 .. n \cup {n + 1}
        BY <2>2
      <3> QED BY <3>1 DEF Each
    <2>7. n = 0 => Each("name", n) = {}
      BY DEF Each
    <2>8. AstFree(node') = AstFree(node) \cup new
      <3>1. CASE n = 0
        BY <1>3, <2>5, <2>6, <2>7, <3>1 DEF If
      <3>2. CASE n > 0
        BY <1>3, <2>5, <2>6, <3>2 DEF If
      <3> QED BY <2>2, <3>1, <3>2
    <2> HIDE DEF new
    <2> QED BY <1>4, <2>1, <2>3, <2>8
  <1>7. CASE SelectOther
    <2>1. PICK k \in Kinds : Read(k) /\ \/ Fail({})
                                        \/ Keep("from") /\ UNCHANGED <<columns, node, heap>>
      BY <1>7 DEF SelectOther
    <2> QED BY <1>1, <1>2, <2>1 DEF Keep, InSelect
  <1>8. CASE SelectEnd
    BY <1>1, <1>8 DEF SelectEnd, Consume, Keep, InSelect
  <1>9. CASE SelectFrom
    <2>1. PICK k \in Kinds : Read(k) /\ \/ Fail({})
                                        \/ Consume("table") /\ UNCHANGED <<columns, node, heap>>
      BY <1>9 DEF SelectFrom
    <2> QED BY <1>1, <1>2, <2>1 DEF Consume, InSelect
  <1>10. CASE SelectTable
    <2>1. PICK k \in Kinds : Read(k) /\ \/ Fail({})
                                        \/ /\ Consume("where")
                                           /\ node' = [node EXCEPT !.table = TRUE]
                                           /\ Allocate(Block("table"))
                                           /\ UNCHANGED columns
      BY <1>10 DEF SelectTable
    <2>2. CASE /\ Consume("where")
               /\ node' = [node EXCEPT !.table = TRUE]
               /\ Allocate(Block("table"))
               /\ UNCHANGED columns
      <3>1. /\ pc' \in BeforeWhere /\ columns' = columns /\ heap' = heap \cup Block("table")
        BY <2>2 DEF Consume, Allocate, BeforeWhere
      <3>2. /\ node' \in Nodes /\ node'.type = "SELECT" /\ ~node'.column /\ node'.value = "NULL"
            /\ node'.selected = node.selected /\ node'.table = TRUE
        BY <1>0, <2>2 DEF Nodes
      <3>3. WhereFree(node') = {}
        BY <3>2 DEF WhereFree, If
      <3>4. AstFree(node') = AstFree(node) \cup Block("table")
        BY <1>3, <3>2, <3>3, AstFreeSelect DEF If
      <3> QED BY <1>4, <3>1, <3>2, <3>4
    <2> QED BY <1>2, <2>1, <2>2
  <1> QED BY <1>5, <1>6, <1>7, <1>8, <1>9, <1>10

-----------------------------------------------------------------------------
(* The WHERE of SELECT and DELETE. *)

(* Setting select_all or delete_all moves no memory. *)
LEMMA FinishedOwnsTheSame ==
  ASSUME NEW n \in Nodes, n.type \in {"SELECT", "DELETE"}
  PROVE  /\ Finished(n) \in Nodes /\ Finished(n).type = n.type
         /\ Finished(n).column = n.column
         /\ AstFree(Finished(n)) = AstFree(n)
  <1> DEFINE all == IF n.type = "SELECT" THEN tokens[2] = "wildcard" ELSE ~HasWhere(n)
             m == Finished(n)
  <1>1. all \in BOOLEAN
    BY DEF HasWhere, Nodes
  <1>2. m = [n EXCEPT !.all = all]
    BY DEF Finished
  <1> HIDE DEF all, m
  <1>3. /\ m \in Nodes /\ m.type = n.type /\ m.table = n.table /\ m.selected = n.selected
        /\ m.column = n.column /\ m.op = n.op /\ m.value = n.value
    BY <1>1, <1>2 DEF Nodes
  <1>4. WhereFree(m) = WhereFree(n) /\ HasWhere(m) = HasWhere(n)
    BY <1>3 DEF WhereFree, HasWhere
  <1>5. AstFree(m) = AstFree(n)
    BY <1>3, <1>4, AstFreeSelect, AstFreeDelete
  <1> QED BY <1>3, <1>5 DEF m

LEMMA WhereKeepsMemory ==
  ASSUME MemoryInv, OptionalWhere \/ WhereColumn \/ WhereOperator \/ WhereValue
  PROVE  NodeFits' /\ HeapFits'
  <1>0. /\ pc \in BeforeWhere \cup BehindColumn /\ Parsing /\ leaked' = leaked /\ columns = <<>>
        /\ node # NoNode /\ node \in Nodes /\ node.type \in {"SELECT", "DELETE"} /\ Pending = {}
        /\ node.value = "NULL" /\ node.column \in BOOLEAN
    BY DEF MemoryInv, NodeFits, NoCondition, Nodes, InColumns, BeforeWhere, BehindColumn, Pending,
           Parsing, Returned, OptionalWhere, WhereColumn, WhereOperator, WhereValue
  <1>1. ASSUME NEW k \in Kinds, Read(k), Fail({})
        PROVE  NodeFits' /\ HeapFits'
    BY <1>0, <1>1, FailFrees
  <1>2. HeapFits /\ Held = AstFree(node)
    BY <1>0 DEF Held, MemoryInv
  <1>3. ASSUME pc' \notin InColumns, node' # NoNode
        PROVE  Held' = AstFree(node')
    BY <1>3 DEF Held, Pending
  <1>4. CASE OptionalWhere
    <2>0. pc = "where" /\ ~node.column
      BY <1>4 DEF OptionalWhere, MemoryInv, NodeFits, NoCondition, BeforeWhere
    <2>1. \/ Consume("where_column") /\ UNCHANGED <<columns, heap, node>>
          \/ Keep("accepted") /\ UNCHANGED <<columns, heap>> /\ node' = Finished(node)
      BY <1>4 DEF OptionalWhere
    <2>2. CASE Consume("where_column") /\ UNCHANGED <<columns, heap, node>>
      <3>1. pc' = "where_column"
        BY <2>2 DEF Consume
      <3>2. NodeFits'
        BY <1>0, <2>0, <2>2, <3>1 DEF NodeFits, NoCondition, InColumns, InValues, InSelect, BeforeWhere, BehindColumn
      <3>3. Held' = Held
        BY <1>0, <1>2, <1>3, <2>2, <3>1 DEF InColumns
      <3> QED BY <1>0, <1>2, <2>2, <3>1, <3>2, <3>3 DEF HeapFits
    <2>3. CASE Keep("accepted") /\ UNCHANGED <<columns, heap>> /\ node' = Finished(node)
      <3>1. pc' = "accepted"
        BY <2>3 DEF Keep
      <3>2. node' \in Nodes /\ ~node'.column /\ AstFree(node') = AstFree(node)
        BY <1>0, <2>0, <2>3, FinishedOwnsTheSame
      <3>3. node' # NoNode
        BY <3>2, NodeIsNone
      <3>4. NodeFits'
        BY <1>0, <2>3, <3>1, <3>2, <3>3 DEF NodeFits, NoCondition, InColumns, InValues, InSelect, BeforeWhere, BehindColumn
      <3>5. Held' = Held
        BY <1>2, <1>3, <3>1, <3>2, <3>3 DEF InColumns
      <3> QED BY <1>0, <1>2, <2>3, <3>1, <3>2, <3>4, <3>5 DEF HeapFits
    <2> QED BY <2>1, <2>2, <2>3
  <1>5. CASE WhereColumn
    <2>1. PICK k \in Kinds : Read(k) /\ \/ /\ Consume("where_operator")
                                           /\ node' = [node EXCEPT !.column = TRUE]
                                           /\ Allocate(Block("where_column"))
                                           /\ UNCHANGED columns
                                        \/ Fail({})
      BY <1>5 DEF WhereColumn
    <2>2. CASE /\ Consume("where_operator")
               /\ node' = [node EXCEPT !.column = TRUE]
               /\ Allocate(Block("where_column"))
               /\ UNCHANGED columns
      <3>0. ~node.column
        BY <1>5 DEF WhereColumn, MemoryInv, NodeFits, NoCondition, BeforeWhere
      <3>1. pc' = "where_operator" /\ heap' = heap \cup Block("where_column")
        BY <2>2 DEF Consume, Allocate
      <3>2. /\ node' \in Nodes /\ node'.type = node.type /\ node'.column = TRUE
            /\ node'.value = "NULL" /\ node'.table = node.table /\ node'.selected = node.selected
        BY <1>0, <2>2 DEF Nodes
      <3>3. node' # NoNode
        BY <3>2, NodeIsNone
      <3>4. NodeFits'
        BY <1>0, <2>2, <3>1, <3>2, <3>3 DEF NodeFits, NoCondition, InColumns, InValues, InSelect, BeforeWhere, BehindColumn
      <3>5. /\ ~HasWhere(node) /\ ~HasWhere(node')
            /\ WhereFree(node) = {} /\ WhereFree(node') = Block("where_column")
        BY <1>0, <3>0, <3>2 DEF HasWhere, WhereFree, If
      <3>6. /\ Held \subseteq Held' /\ Held' \subseteq Held \cup Block("where_column")
        <4>1. CASE node.type = "SELECT"
          BY <1>0, <1>2, <1>3, <3>1, <3>2, <3>3, <3>5, <4>1, AstFreeSelect DEF InColumns
        <4>2. CASE node.type = "DELETE"
          BY <1>0, <1>2, <1>3, <3>1, <3>2, <3>3, <3>5, <4>2, AstFreeDelete DEF InColumns, If
        <4> QED BY <1>0, <4>1, <4>2
      <3>7. Held' \subseteq heap' /\ Block("where_column") \subseteq heap'
        BY <1>2, <3>1, <3>6 DEF HeapFits
      <3> QED BY <1>0, <1>2, <3>1, <3>4, <3>6, <3>7, HeapGrows
    <2> QED BY <1>1, <2>1, <2>2
  <1>6. CASE WhereOperator
    <2>1. PICK k \in Kinds : Read(k) /\ \/ /\ Consume("where_value")
                                           /\ node' = [node EXCEPT !.op = TRUE]
                                           /\ UNCHANGED <<columns, heap>>
                                        \/ Fail({})
      BY <1>6 DEF WhereOperator
    <2>2. CASE /\ Consume("where_value")
               /\ node' = [node EXCEPT !.op = TRUE]
               /\ UNCHANGED <<columns, heap>>
      <3>0. node.column
        BY <1>6 DEF WhereOperator, MemoryInv, NodeFits, BehindColumn
      <3>1. pc' = "where_value" /\ heap' = heap
        BY <2>2 DEF Consume
      <3>2. /\ node' \in Nodes /\ node'.type = node.type /\ node'.column /\ node'.op
            /\ node'.value = "NULL" /\ node'.table = node.table /\ node'.selected = node.selected
        BY <1>0, <2>2, <3>0 DEF Nodes
      <3>3. node' # NoNode
        BY <3>2, NodeIsNone
      <3>4. NodeFits'
        BY <1>0, <2>2, <3>1, <3>2, <3>3 DEF NodeFits, NoCondition, InColumns, InValues, InSelect, BeforeWhere, BehindColumn
      <3>5. /\ ~HasWhere(node) /\ ~HasWhere(node') /\ WhereFree(node') = WhereFree(node)
        BY <1>0, <3>0, <3>2 DEF HasWhere, WhereFree, If
      <3>6. Held' = Held
        <4>1. CASE node.type = "SELECT"
          BY <1>0, <1>2, <1>3, <3>1, <3>2, <3>3, <3>5, <4>1, AstFreeSelect DEF InColumns
        <4>2. CASE node.type = "DELETE"
          BY <1>0, <1>2, <1>3, <3>1, <3>2, <3>3, <3>5, <4>2, AstFreeDelete DEF InColumns, If
        <4> QED BY <1>0, <4>1, <4>2
      <3> QED BY <1>0, <1>2, <3>0, <3>1, <3>4, <3>6 DEF HeapFits
    <2> QED BY <1>1, <2>1, <2>2
  <1>7. CASE WhereValue
    <2>1. PICK k \in Kinds : Read(k) /\ \/ /\ k \in Literals
                                           /\ Consume("accepted")
                                           /\ node' = Finished([node EXCEPT !.value = LiteralType[k]])
                                           /\ Allocate(ValueBlocks("where_value", 0, LiteralType[k]))
                                           /\ UNCHANGED columns
                                        \/ Fail({})
      BY <1>7 DEF WhereValue
    <2>2. CASE /\ k \in Literals
               /\ Consume("accepted")
               /\ node' = Finished([node EXCEPT !.value = LiteralType[k]])
               /\ Allocate(ValueBlocks("where_value", 0, LiteralType[k]))
               /\ UNCHANGED columns
      <3> DEFINE v == LiteralType[k]
                 new == ValueBlocks("where_value", 0, v)
                 n == [node EXCEPT !.value = v]
      <3>0. node.column /\ node.op
        BY <1>7 DEF WhereValue, MemoryInv, NodeFits, BehindColumn
      <3>1. v \in TypeKeywords /\ v # "NULL"
        BY <2>2 DEF Literals, LiteralType, TypeKeywords
      <3>2. pc' = "accepted" /\ heap' = heap \cup new /\ node' = Finished(n)
        BY <2>2 DEF Consume, Allocate
      <3> HIDE DEF v, new
      <3>3. /\ n \in Nodes /\ n.type = node.type /\ n.column /\ n.op
            /\ n.value = v /\ n.table = node.table /\ n.selected = node.selected
        BY <1>0, <3>0, <3>1 DEF Nodes
      <3> HIDE DEF n
      <3>4. node' \in Nodes /\ node' # NoNode /\ AstFree(node') = AstFree(n)
        BY <1>0, <3>2, <3>3, FinishedOwnsTheSame, NodeIsNone
      <3>5. NodeFits'
        BY <1>0, <2>2, <3>2, <3>4 DEF NodeFits, NoCondition, InColumns, InValues, InSelect, BeforeWhere, BehindColumn
      <3>6. /\ ~HasWhere(node) /\ HasWhere(n) /\ WhereFree(node) = Block("where_column")
            /\ WhereFree(n) = new \cup Block("where_column")
        BY <1>0, <3>0, <3>1, <3>3 DEF HasWhere, WhereFree, If, new
      <3>7. /\ Held \subseteq Held' /\ Held' \subseteq Held \cup new \cup Block("where_column")
            /\ new \subseteq Held'
        <4>1. CASE node.type = "SELECT"
          <5> DEFINE base == Block("node") \cup If(node.table, Block("table"))
                       \cup If(node.selected > 0, Block("selected") \cup Each("name", node.selected))
          <5>1. AstFree(node) = base \cup Block("where_column")
            BY <1>0, <3>6, <4>1, AstFreeSelect
          <5>2. AstFree(n) = base \cup new \cup Block("where_column")
            BY <3>3, <3>6, <4>1, AstFreeSelect
          <5> HIDE DEF base
          <5> QED BY <1>2, <1>3, <3>2, <3>4, <5>1, <5>2 DEF InColumns
        <4>2. CASE node.type = "DELETE"
          <5>1. /\ AstFree(node) = Block("node") \cup If(node.table, Block("table"))
                /\ AstFree(n) = Block("node") \cup If(node.table, Block("table"))
                                  \cup new \cup Block("where_column")
            BY <1>0, <3>3, <3>6, <4>2, AstFreeDelete DEF If
          <5> QED BY <1>2, <1>3, <3>2, <3>4, <5>1 DEF InColumns
        <4> QED BY <1>0, <4>1, <4>2
      <3>8. Held' \subseteq heap' /\ Block("where_column") \subseteq heap'
        BY <1>0, <1>2, <3>0, <3>2, <3>7 DEF HeapFits
      <3> QED BY <1>0, <1>2, <3>2, <3>5, <3>7, <3>8, HeapGrows
    <2> QED BY <1>1, <2>1, <2>2
  <1> QED BY <1>4, <1>5, <1>6, <1>7

-----------------------------------------------------------------------------
(* The main loop, and the invariant. *)

LEMMA MainLoopKeepsMemory ==
  ASSUME MemoryInv, Release \/ NextStatement
  PROVE  NodeFits' /\ HeapFits'
  <1>1. CASE Release
    <2>1. /\ pc' = "released" /\ node' = NoNode /\ heap' = heap \ AstFree(node)
          /\ columns' = columns /\ leaked' = leaked /\ pc = "accepted"
      BY <1>1 DEF Release
    <2>2. node # NoNode /\ Pending = {} /\ columns = <<>>
      BY <2>1 DEF MemoryInv, NodeFits, Pending, InColumns
    <2>3. NodeFits'
      BY <2>1, <2>2 DEF NodeFits, NoCondition, InColumns, InValues, InSelect, BeforeWhere, BehindColumn
    <2>4. Held' = {} /\ Held = AstFree(node)
      BY <2>1, <2>2 DEF Held, Pending, InColumns
    <2> QED BY <2>1, <2>3, <2>4 DEF MemoryInv, HeapFits
  <1>2. CASE NextStatement
    <2>1. /\ pc' = "start" /\ heap' = {} /\ leaked' = leaked \cup heap
          /\ pc \in {"rejected", "released"} /\ UNCHANGED <<columns, node>>
      BY <1>2 DEF NextStatement
    <2>2. node = NoNode /\ Pending = {} /\ columns = <<>>
      BY <2>1 DEF MemoryInv, NodeFits, Pending, InColumns
    <2>3. NodeFits'
      BY <2>1, <2>2 DEF NodeFits, NoCondition, InColumns, InValues, InSelect, BeforeWhere, BehindColumn
    <2>4. Held' = {} /\ Held = {}
      BY <2>1, <2>2 DEF Held, Pending, InColumns
    <2> QED BY <2>1, <2>2, <2>3, <2>4 DEF MemoryInv, HeapFits
  <1> QED BY <1>1, <1>2

LEMMA MemoryNext == MemoryInv /\ [Next]_vars => MemoryInv'
  <1> SUFFICES ASSUME MemoryInv, [Next]_vars PROVE MemoryInv'
    OBVIOUS
  <1>1. ReadInv'
    BY NextKeepsInv DEF MemoryInv
  <1>2. CASE Dispatch
    BY <1>1, <1>2, DispatchKeepsMemory DEF MemoryInv
  <1>3. CASE ExpectHead
    BY <1>1, <1>3, ExpectHeadKeepsMemory DEF MemoryInv
  <1>4. CASE ColumnName \/ ColumnKeyword \/ ColumnEnd
    BY <1>1, <1>4, ColumnsKeepMemory DEF MemoryInv
  <1>5. CASE InsertValue \/ InsertEnd
    BY <1>1, <1>5, ValuesKeepMemory DEF MemoryInv
  <1>6. CASE \/ SelectAll \/ SelectColumn \/ SelectOther
             \/ SelectEnd \/ SelectFrom \/ SelectTable
    BY <1>1, <1>6, SelectKeepsMemory DEF MemoryInv
  <1>7. CASE OptionalWhere \/ WhereColumn \/ WhereOperator \/ WhereValue
    BY <1>1, <1>7, WhereKeepsMemory DEF MemoryInv
  <1>8. CASE Release \/ NextStatement
    BY <1>1, <1>8, MainLoopKeepsMemory DEF MemoryInv
  <1>9. CASE UNCHANGED vars
    BY <1>1, <1>9 DEF vars, MemoryInv, NodeFits, NoCondition, HeapFits, Held, Pending
  <1> QED BY <1>2, <1>3, <1>4, <1>5, <1>6, <1>7, <1>8, <1>9 DEF Next

(* Wherever a parser gives up, and whatever statement it accepts, ast_free *)
(* frees only what is allocated, and all of it but the column name of a    *)
(* DELETE whose WHERE breaks off.                                          *)
THEOREM MemoryFreedOnce == Spec => []FreesWhatItAllocates
  <1>1. MemoryInv => FreesWhatItAllocates
    <2> SUFFICES ASSUME MemoryInv PROVE FreesOnlyLive /\ LeaksOnlyDeleteColumn
      BY DEF FreesWhatItAllocates
    <2>1. FreesOnlyLive
      BY DEF MemoryInv, HeapFits, Held, FreesOnlyLive
    <2>2. LeaksOnlyDeleteColumn
      BY DEF MemoryInv, HeapFits, LeaksOnlyDeleteColumn
    <2> QED BY <2>1, <2>2
  <1> QED BY <1>1, MemoryInit, MemoryNext, PTL DEF Spec

-----------------------------------------------------------------------------
(* Types: a statement stays within its length, and a node has selected no  *)
(* more columns than tokens were consumed.                                 *)

LengthInv ==
  /\ Len(tokens) <= MaxTokens
  /\ ~Ended => Len(tokens) < MaxTokens
  /\ index <= Len(tokens)
  /\ node # NoNode => node.selected <= index

LEMMA ReadStaysWithin ==
  ASSUME MemoryInv, LengthInv, Parsing, NEW k \in Kinds, Read(k)
  PROVE  /\ Len(tokens') <= MaxTokens
         /\ ~Ended' => Len(tokens') < MaxTokens
         /\ Len(tokens') = index + 1
  <1>1. AfterRead(k)
    BY ReadFindsToken DEF MemoryInv
  <1>2. index \in Nat /\ MaxTokens \in Nat /\ tokens \in Seq(Kinds)
    BY MaxTokensAssumption DEF MemoryInv, ReadInv
  <1>3. CASE index < Len(tokens)
    BY <1>1, <1>3 DEF Read, AfterRead, LengthInv, Ended
  <1>4. CASE ~(index < Len(tokens))
    <2>1. index = Len(tokens) /\ k \in Supply
      BY <1>2, <1>4 DEF LengthInv, Read
    <2>2. ~Ended
      BY <2>1 DEF Ended, MemoryInv, ReadInv
    <2>3. k = EOF => Ended'
      BY <1>1, <1>2 DEF AfterRead, Ended
    <2>4. Len(tokens) + 1 >= MaxTokens => k = EOF
      BY <2>1, <2>2 DEF Supply
    <2> QED BY <1>1, <1>2, <2>1, <2>2, <2>3, <2>4 DEF AfterRead, LengthInv
  <1> QED BY <1>3, <1>4

(* What a step reads, how far it goes and what it selects. *)
Advances(k) ==
  /\ Read(k)
  /\ \/ index' = index
     \/ index' = index + 1
  /\ \/ node' = NoNode
     \/ node'.selected = 0
     \/ node # NoNode /\ node'.selected = node.selected
     \/ node # NoNode /\ node'.selected = node.selected + 1 /\ index' = index + 1

LEMMA StepsAdvance ==
  ASSUME MemoryInv, Next, ~Release, ~NextStatement
  PROVE  Parsing /\ \E k \in Kinds : Advances(k)
  <1>0. /\ node \in Nodes \cup {NoNode}
        /\ pc \notin {"start", "rejected", "released", "head"} => node # NoNode
    BY DEF MemoryInv, NodeFits
  <1> USE DEF Advances, Consume, Keep, Fail, Parsing, Returned
  <1>1. CASE Dispatch
    BY <1>1 DEF Dispatch, NewNode, MemoryInv, NodeFits
  <1>2. CASE ExpectHead
    BY <1>2 DEF ExpectHead, NewNode
  <1>3. CASE ColumnName \/ ColumnKeyword
    BY <1>0, <1>3 DEF ColumnName, ColumnKeyword
  <1>4. CASE ColumnEnd
    <2>1. node \in Nodes
      BY <1>0, <1>4 DEF ColumnEnd
    <2>2. [node EXCEPT !.columns = columns].selected = node.selected
      BY <2>1 DEF Nodes
    <2> QED BY <1>0, <1>4, <2>2 DEF ColumnEnd
  <1>5. CASE InsertValue
    <2>1. node \in Nodes
      BY <1>0, <1>5 DEF InsertValue
    <2>2. \A v : [node EXCEPT !.values = v].selected = node.selected
      BY <2>1 DEF Nodes
    <2> QED BY <1>0, <1>5, <2>2 DEF InsertValue
  <1>6. CASE InsertEnd \/ SelectOther \/ SelectEnd \/ SelectFrom
    BY <1>0, <1>6 DEF InsertEnd, SelectOther, SelectEnd, SelectFrom
  <1>7. CASE SelectAll
    BY <1>0, <1>7 DEF SelectAll, Kinds
  <1>8. CASE SelectColumn
    <2>1. node \in Nodes
      BY <1>0, <1>8 DEF SelectColumn
    <2>2. [node EXCEPT !.selected = @ + 1].selected = node.selected + 1
      BY <2>1 DEF Nodes
    <2> QED BY <1>0, <1>8, <2>2 DEF SelectColumn, Kinds
  <1>9. CASE SelectTable
    <2>1. node \in Nodes
      BY <1>0, <1>9 DEF SelectTable
    <2>2. [node EXCEPT !.table = TRUE].selected = node.selected
      BY <2>1 DEF Nodes
    <2> QED BY <1>0, <1>9, <2>2 DEF SelectTable
  <1>10. CASE OptionalWhere
    <2>1. node \in Nodes
      BY <1>0, <1>10 DEF OptionalWhere
    <2>2. Finished(node).selected = node.selected
      BY <2>1 DEF Finished, Nodes
    <2> QED BY <1>0, <1>10, <2>2 DEF OptionalWhere
  <1>11. CASE WhereColumn \/ WhereOperator
    <2>1. node \in Nodes
      BY <1>0, <1>11 DEF WhereColumn, WhereOperator
    <2>2. /\ [node EXCEPT !.column = TRUE].selected = node.selected
          /\ [node EXCEPT !.op = TRUE].selected = node.selected
      BY <2>1 DEF Nodes
    <2> QED BY <1>0, <1>11, <2>2 DEF WhereColumn, WhereOperator
  <1>12. CASE WhereValue
    <2>1. node \in Nodes
      BY <1>0, <1>12 DEF WhereValue
    <2>2. \A v : Finished([node EXCEPT !.value = v]).selected = node.selected
      BY <2>1 DEF Finished, Nodes
    <2> QED BY <1>0, <1>12, <2>2 DEF WhereValue
  <1> QED BY <1>1, <1>2, <1>3, <1>4, <1>5, <1>6, <1>7, <1>8, <1>9, <1>10, <1>11, <1>12 DEF Next

LEMMA LengthNext == MemoryInv /\ LengthInv /\ [Next]_vars => LengthInv'
  <1> SUFFICES ASSUME MemoryInv, LengthInv, [Next]_vars PROVE LengthInv'
    OBVIOUS
  <1>0. /\ index \in Nat /\ tokens \in Seq(Kinds) /\ MaxTokens \in Nat /\ MaxTokens > 0
        /\ node # NoNode => node.selected \in Nat
    BY MaxTokensAssumption DEF MemoryInv, ReadInv, NodeFits, Nodes
  <1>1. CASE Release
    BY <1>1 DEF Release, LengthInv, Ended
  <1>2. CASE NextStatement
    <2>1. tokens' = <<>> /\ index' = 0 /\ node' = NoNode
      BY <1>2 DEF NextStatement, MemoryInv, NodeFits
    <2> QED BY <1>0, <2>1 DEF LengthInv
  <1>3. CASE UNCHANGED vars
    BY <1>3 DEF vars, LengthInv, Ended
  <1>4. CASE Next /\ ~Release /\ ~NextStatement
    <2>1. PICK k \in Kinds : Advances(k)
      BY <1>4, StepsAdvance
    <2>2. /\ Len(tokens') <= MaxTokens /\ (~Ended' => Len(tokens') < MaxTokens)
          /\ Len(tokens') = index + 1
      BY <1>4, <2>1, StepsAdvance, ReadStaysWithin DEF Advances
    <2>3. index' \in {index, index + 1}
      BY <2>1 DEF Advances
    <2>4. node' # NoNode => node'.selected <= index'
      BY <1>0, <2>1, <2>3 DEF Advances, LengthInv
    <2> QED BY <1>0, <2>2, <2>3, <2>4 DEF LengthInv
  <1> QED BY <1>1, <1>2, <1>3, <1>4

(* Every variable keeps its type, for statements of every length.          *)
THEOREM TypeCorrect == Spec => []TypeOK
  <1>1. Init => MemoryInv /\ LengthInv
    BY MemoryInit, MaxTokensAssumption DEF Init, LengthInv
  <1>2. MemoryInv /\ LengthInv /\ [Next]_vars => MemoryInv' /\ LengthInv'
    BY MemoryNext, LengthNext
  <1>3. MemoryInv /\ LengthInv => TypeOK
    <2> SUFFICES ASSUME MemoryInv, LengthInv PROVE TypeOK
      OBVIOUS
    <2>1. /\ pc \in Locations /\ tokens \in Seq(Kinds) /\ index \in Nat /\ MaxTokens \in Nat
          /\ columns \in Seq(ColumnTypes) /\ node \in Nodes \cup {NoNode}
      BY MaxTokensAssumption DEF MemoryInv, ReadInv, NodeFits
    <2>2. Len(tokens) <= MaxTokens /\ index \in 0..MaxTokens
      BY <2>1 DEF LengthInv
    <2>3. ASSUME node # NoNode
          PROVE  /\ node.type \in Statements
                 /\ {node.table, node.all, node.column, node.op} \subseteq BOOLEAN
                 /\ node.columns \in Seq(ColumnTypes) /\ node.values \in Seq(TypeKeywords)
                 /\ node.selected \in 0..MaxTokens
                 /\ node.value \in TypeKeywords \cup {"NULL"}
      <3>1. node \in Nodes /\ node.selected <= index
        BY <2>1, <2>3 DEF LengthInv
      <3>2. /\ node.type \in Statements
            /\ node.table \in BOOLEAN /\ node.all \in BOOLEAN
            /\ node.column \in BOOLEAN /\ node.op \in BOOLEAN
            /\ node.columns \in Seq(ColumnTypes) /\ node.values \in Seq(TypeKeywords)
            /\ node.value \in TypeKeywords \cup {"NULL"} /\ node.selected \in Nat
        BY <3>1 DEF Nodes
      <3>3. {node.table, node.all, node.column, node.op} \subseteq BOOLEAN
        BY ONLY <3>2
      <3>4. node.selected \in 0..MaxTokens
        BY <2>1, <2>2, <3>1, <3>2
      <3> QED BY <3>2, <3>3, <3>4
    <2> QED BY <2>1, <2>2, <2>3 DEF TypeOK, ColumnTypes
  <1> QED BY <1>1, <1>2, <1>3, PTL DEF Spec

-----------------------------------------------------------------------------
(* The form of an accepted statement                                       *)

(* The operators below speak of a sequence s of tokens, for a step turns   *)
(* tokens into tokens' and leaves what was consumed alone.                 *)

BeginsWith(s, type, m) == \A i \in 1..m : s[i] = Prefix[type][i]

(* The columns c are those of the tokens from the fifth on, ... *)
Declares(s, c) ==
  /\ \A i \in 1..Len(c) : /\ s[2 + 3 * i] = "identifier"
                          /\ s[3 + 3 * i] \in Keywords
                          /\ c[i] = ColumnType(s[3 + 3 * i])
  /\ \A i \in 1..Len(c) - 1 : s[4 + 3 * i] = "comma"

(* ... the values v those of the tokens from the sixth on, ... *)
Lists(s, v) ==
  /\ \A i \in 1..Len(v) : s[4 + 2 * i] \in Literals /\ v[i] = LiteralType[s[4 + 2 * i]]
  /\ \A i \in 1..Len(v) - 1 : s[5 + 2 * i] = "comma"

(* ... and n the number of names from the second on. *)
Names(s, n) ==
  /\ \A i \in 1..n : s[2 * i] = "identifier"
  /\ \A i \in 1..n - 1 : s[1 + 2 * i] = "comma"

(* What SELECT selects, n names or all, ends with the i-th token. *)
SelectedUpTo(s, n, i) ==
  \/ n = 0 /\ i = 2 /\ s[2] = "wildcard"
  \/ n > 0 /\ Names(s, n) /\ (i = 2 * n \/ (i = 1 + 2 * n /\ s[i] = "comma"))

(* The statement of node n has its table: the WHERE would be the j-th token. *)
HasTable(s, n, j) ==
  /\ n.table
  /\ BeginsWith(s, n.type, Len(Prefix[n.type]))
  /\ n.type = "DELETE" => j = 4
  /\ n.type = "SELECT" =>
       /\ j > 4
       /\ SelectedUpTo(s, n.selected, j - 3)
       /\ s[j - 2] = "FROM" /\ s[j - 1] = "identifier"

InBeginning(s) ==
  /\ BeginsWith(s, s[1], index)
  /\ node # NoNode => node.table

InCreate(s) ==
  LET n == Len(columns)
  IN /\ node.table
     /\ BeginsWith(s, "CREATE", 4) /\ Declares(s, columns)
     /\ pc \in {"column_name", "column_type"} /\ n > 0 => s[4 + 3 * n] = "comma"
     /\ pc = "column_name" => index = 4 + 3 * n
     /\ pc = "column_type" => index = 5 + 3 * n /\ s[5 + 3 * n] = "identifier"
     /\ pc = "column_end" => index = 3 + 3 * n

InInsert(s) ==
  LET n == Len(node.values)
  IN /\ node.table
     /\ BeginsWith(s, "INSERT", 5) /\ Lists(s, node.values)
     /\ pc = "value" => index = 5 + 2 * n /\ (n > 0 => s[5 + 2 * n] = "comma")
     /\ pc = "value_end" => index = 4 + 2 * n /\ n > 0

InSelection(s) ==
  LET n == node.selected
  IN /\ BeginsWith(s, "SELECT", 1)
     /\ pc = "select" => n = 0 /\ index = 1
     /\ pc = "select_next" => n > 0 /\ index = 1 + 2 * n /\ Names(s, n) /\ s[index] = "comma"
     /\ pc = "select_end" => n > 0 /\ index = 2 * n /\ Names(s, n)
     /\ pc = "from" => SelectedUpTo(s, n, index)
     /\ pc = "table" => index > 2 /\ SelectedUpTo(s, n, index - 1) /\ s[index] = "FROM"

InWhere(s) ==
  /\ pc = "where" => HasTable(s, node, index + 1)
  /\ pc = "where_column" => HasTable(s, node, index) /\ s[index] = "WHERE"
  /\ pc = "where_operator" =>
       HasTable(s, node, index - 1) /\ s[index - 1] = "WHERE" /\ s[index] = "identifier"
  /\ pc = "where_value" =>
       /\ HasTable(s, node, index - 2)
       /\ s[index - 2] = "WHERE" /\ s[index - 1] = "identifier" /\ s[index] = "operator"

GrammarInv ==
  /\ pc = "head" => InBeginning(tokens)
  /\ pc \in InColumns => InCreate(tokens)
  /\ pc \in InValues => InInsert(tokens)
  /\ pc \in InSelect => InSelection(tokens)
  /\ pc \in BeforeWhere \cup BehindColumn => InWhere(tokens)
  /\ AcceptedFollowsGrammar

Invs == MemoryInv /\ GrammarInv

Agree(s, t, m) == \A i \in 1..m : t[i] = s[i]

-----------------------------------------------------------------------------
(* What the operators say of a sequence depends on the tokens up to where  *)
(* they look.                                                              *)

LEMMA BeginsWithStays ==
  ASSUME NEW s, NEW t, NEW m \in Nat, Agree(s, t, m), NEW type, NEW j \in Nat, j <= m,
         BeginsWith(s, type, j)
  PROVE  BeginsWith(t, type, j)
  BY DEF Agree, BeginsWith

LEMMA DeclaresStays ==
  ASSUME NEW s, NEW t, NEW m \in Nat, Agree(s, t, m), NEW S, NEW c \in Seq(S),
         3 + 3 * Len(c) <= m, Declares(s, c)
  PROVE  Declares(t, c)
  <1>1. \A i \in 1..Len(c) : 2 + 3 * i \in 1..m /\ 3 + 3 * i \in 1..m
    OBVIOUS
  <1>2. \A i \in 1..Len(c) - 1 : 4 + 3 * i \in 1..m
    OBVIOUS
  <1> QED BY <1>1, <1>2 DEF Agree, Declares

LEMMA ListsStay ==
  ASSUME NEW s, NEW t, NEW m \in Nat, Agree(s, t, m), NEW S, NEW v \in Seq(S),
         4 + 2 * Len(v) <= m \/ v = <<>>, Lists(s, v)
  PROVE  Lists(t, v)
  <1>1. \A i \in 1..Len(v) : 4 + 2 * i \in 1..m
    OBVIOUS
  <1>2. \A i \in 1..Len(v) - 1 : 5 + 2 * i \in 1..m
    OBVIOUS
  <1> QED BY <1>1, <1>2 DEF Agree, Lists

LEMMA NamesStay ==
  ASSUME NEW s, NEW t, NEW m \in Nat, Agree(s, t, m), NEW n \in Nat, 2 * n <= m, Names(s, n)
  PROVE  Names(t, n)
  <1>1. \A i \in 1..n : 2 * i \in 1..m
    OBVIOUS
  <1>2. \A i \in 1..n - 1 : 1 + 2 * i \in 1..m
    OBVIOUS
  <1> QED BY <1>1, <1>2 DEF Agree, Names

LEMMA SelectedStays ==
  ASSUME NEW s, NEW t, NEW m \in Nat, Agree(s, t, m), NEW n \in Nat, NEW i \in Nat, i <= m,
         SelectedUpTo(s, n, i)
  PROVE  SelectedUpTo(t, n, i)
  <1>1. CASE n = 0
    BY <1>1 DEF SelectedUpTo, Agree
  <1>2. CASE n > 0
    <2>1. Names(s, n) /\ 2 * n <= m /\ (i = 2 * n \/ (i = 1 + 2 * n /\ s[i] = "comma"))
      BY <1>2 DEF SelectedUpTo
    <2>2. Names(t, n)
      BY <2>1, NamesStay
    <2>3. t[i] = s[i]
      BY <1>2, <2>1 DEF Agree
    <2> QED BY <1>2, <2>1, <2>2, <2>3 DEF SelectedUpTo
  <1> QED BY <1>1, <1>2

LEMMA DeleteHeadIs ==
  Len(Prefix["DELETE"]) = 3 /\ Len(Prefix["SELECT"]) = 1
  <1>1. Prefix["DELETE"] = <<"DELETE", "FROM", "identifier">> /\ Prefix["SELECT"] = <<"SELECT">>
    BY DEF Prefix, CreateHead, DropHead, InsertHead, DeleteHead, SelectHead
  <1> QED BY <1>1

LEMMA HasTableStays ==
  ASSUME NEW s, NEW t, NEW m \in Nat, Agree(s, t, m), NEW n \in Nodes, NEW j \in Nat, j <= m + 1,
         n.type \in {"SELECT", "DELETE"}, HasTable(s, n, j)
  PROVE  HasTable(t, n, j)
  <1>1. CASE n.type = "DELETE"
    <2>1. j = 4 /\ Len(Prefix[n.type]) <= m /\ Len(Prefix[n.type]) \in Nat
      BY <1>1, DeleteHeadIs DEF HasTable
    <2> QED BY <1>1, <2>1, BeginsWithStays DEF HasTable
  <1>2. CASE n.type = "SELECT"
    <2>1. /\ j > 4 /\ SelectedUpTo(s, n.selected, j - 3) /\ s[j - 2] = "FROM"
          /\ s[j - 1] = "identifier" /\ n.table /\ BeginsWith(s, n.type, Len(Prefix[n.type]))
      BY <1>2 DEF HasTable
    <2>2. n.selected \in Nat
      BY DEF Nodes
    <2>3. SelectedUpTo(t, n.selected, j - 3)
      BY <2>1, <2>2, SelectedStays
    <2>4. t[j - 2] = s[j - 2] /\ t[j - 1] = s[j - 1]
      BY <2>1 DEF Agree
    <2>5. BeginsWith(t, n.type, Len(Prefix[n.type]))
      BY <1>2, <2>1, DeleteHeadIs, BeginsWithStays
    <2> QED BY <1>2, <2>1, <2>3, <2>4, <2>5 DEF HasTable
  <1> QED BY <1>1, <1>2

-----------------------------------------------------------------------------
(* The steps *)

(* What a step that reads leaves of the tokens, and where it stands then. *)
LEMMA ReadAgrees ==
  ASSUME MemoryInv, Parsing, NEW k \in Kinds, Read(k)
  PROVE  /\ Agree(tokens, tokens', index) /\ tokens'[index + 1] = k
         /\ index \in Nat /\ Len(tokens') = index + 1
  BY ReadFindsToken DEF MemoryInv, AfterRead, Agree, ReadInv

LEMMA GiveUpKeepsGrammar ==
  ASSUME pc' \in {"start", "rejected", "released"}
  PROVE  GrammarInv'
  BY DEF GrammarInv, InColumns, InValues, InSelect, BeforeWhere, BehindColumn, AcceptedFollowsGrammar

LEMMA GrammarInit == Init => GrammarInv
  BY DEF Init, GrammarInv, InColumns, InValues, InSelect, BeforeWhere, BehindColumn,
         AcceptedFollowsGrammar

(* The invariant holds when what it says of the place a step goes to does. *)
LEMMA GrammarAtPlace ==
  /\ pc' = "head" /\ InBeginning(tokens)' => GrammarInv'
  /\ pc' \in InColumns /\ InCreate(tokens)' => GrammarInv'
  /\ pc' \in InValues /\ InInsert(tokens)' => GrammarInv'
  /\ pc' \in InSelect /\ InSelection(tokens)' => GrammarInv'
  /\ pc' \in BeforeWhere \cup BehindColumn /\ InWhere(tokens)' => GrammarInv'
  /\ pc' = "accepted" /\ AcceptedFollowsGrammar' => GrammarInv'
  <1> USE DEF InColumns, InValues, InSelect, BeforeWhere, BehindColumn, AcceptedFollowsGrammar, GrammarInv
  <1>1. pc' = "head" /\ InBeginning(tokens)' => GrammarInv'
    OBVIOUS
  <1>2. pc' \in InColumns /\ InCreate(tokens)' => GrammarInv'
    OBVIOUS
  <1>3. pc' \in InValues /\ InInsert(tokens)' => GrammarInv'
    OBVIOUS
  <1>4. pc' \in InSelect /\ InSelection(tokens)' => GrammarInv'
    OBVIOUS
  <1>5. pc' \in BeforeWhere \cup BehindColumn /\ InWhere(tokens)' => GrammarInv'
    OBVIOUS
  <1>6. pc' = "accepted" /\ AcceptedFollowsGrammar' => GrammarInv'
    BY DEF GrammarInv
  <1> QED BY <1>1, <1>2, <1>3, <1>4, <1>5, <1>6

LEMMA HeadOfType ==
  \A t \in Statements : Prefix[t] \in Seq(Kinds) /\ Len(Prefix[t]) \in 1..5 /\ Prefix[t][1] = t
  <1> SUFFICES ASSUME NEW t \in Statements
               PROVE  Prefix[t] \in Seq(Kinds) /\ Len(Prefix[t]) \in 1..5 /\ Prefix[t][1] = t
    OBVIOUS
  <1> USE DEF Prefix, CreateHead, DropHead, InsertHead, DeleteHead, SelectHead
  <1>1. CASE t = "CREATE"
    <2>1. Prefix[t] = <<"CREATE", "TABLE", "identifier", "open">>
      BY <1>1
    <2> QED BY ONLY <1>1, <2>1 DEF Kinds, Keywords, Statements
  <1>2. CASE t = "DROP"
    <2>1. Prefix[t] = <<"DROP", "TABLE", "identifier">>
      BY <1>2
    <2> QED BY ONLY <1>2, <2>1 DEF Kinds, Keywords, Statements
  <1>3. CASE t = "INSERT"
    <2>1. Prefix[t] = <<"INSERT", "INTO", "identifier", "VALUES", "open">>
      BY <1>3
    <2> QED BY ONLY <1>3, <2>1 DEF Kinds, Keywords, Statements
  <1>4. CASE t = "DELETE"
    <2>1. Prefix[t] = <<"DELETE", "FROM", "identifier">>
      BY <1>4
    <2> QED BY ONLY <1>4, <2>1 DEF Kinds, Keywords, Statements
  <1>5. CASE t = "SELECT"
    <2>1. Prefix[t] = <<"SELECT">>
      BY <1>5
    <2> QED BY ONLY <1>5, <2>1 DEF Kinds, Keywords, Statements
  <1> QED BY <1>1, <1>2, <1>3, <1>4, <1>5 DEF Statements

LEMMA DispatchKeepsGrammar ==
  ASSUME Invs, Dispatch
  PROVE  GrammarInv'
  <1>0. Parsing /\ MemoryInv /\ index = 0 /\ node = NoNode
    BY DEF Invs, MemoryInv, ReadInv, NodeFits, Dispatch, Parsing, Returned
  <1>1. PICK k \in Kinds :
          /\ Read(k)
          /\ \/ k \in Statements /\ Consume("head") /\ node' = node
             \/ /\ k = "SELECT" /\ Consume("select") /\ node' = NewNode("SELECT", FALSE)
             \/ Fail({})
    BY DEF Dispatch, Body
  <1>2. tokens'[1] = k
    BY <1>0, <1>1, ReadAgrees
  <1>3. CASE k \in Statements /\ Consume("head") /\ node' = node
    <2>1. pc' = "head" /\ index' = 1 /\ node' = NoNode
      BY <1>0, <1>3 DEF Consume
    <2>2. InBeginning(tokens)'
      BY <1>2, <1>3, <2>1, HeadOfType DEF InBeginning, BeginsWith
    <2> QED BY <2>1, <2>2, GrammarAtPlace DEF InSelect
  <1>4. CASE k = "SELECT" /\ Consume("select") /\ node' = NewNode("SELECT", FALSE)
    <2>1. pc' = "select" /\ index' = 1 /\ node'.selected = 0
      BY <1>0, <1>4 DEF Consume, NewNode
    <2>2. BeginsWith(tokens', "SELECT", 1)
      BY <1>2, <1>4, HeadOfType DEF BeginsWith, Statements
    <2>3. InSelection(tokens)'
      BY <2>1, <2>2 DEF InSelection
    <2> QED BY <2>1, <2>3, GrammarAtPlace DEF InSelect
  <1>5. CASE Fail({})
    BY <1>5, GiveUpKeepsGrammar DEF Fail
  <1> QED BY <1>1, <1>3, <1>4, <1>5

LEMMA HeadBodies ==
  ASSUME NEW t \in Statements \ {"SELECT"}
  PROVE  /\ t = "CREATE" => Body[t] = "column_name" /\ Len(Prefix[t]) = 4
         /\ t = "DROP" => Body[t] = "accepted" /\ Len(Prefix[t]) = 3
         /\ t = "INSERT" => Body[t] = "value" /\ Len(Prefix[t]) = 5
         /\ t = "DELETE" => Body[t] = "where" /\ Len(Prefix[t]) = 3
  <1>1. t = "CREATE" => Body[t] = "column_name" /\ Prefix[t] = <<"CREATE", "TABLE", "identifier", "open">>
    BY DEF Body, Prefix, CreateHead
  <1>2. t = "DROP" => Body[t] = "accepted" /\ Prefix[t] = <<"DROP", "TABLE", "identifier">>
    BY DEF Body, Prefix, DropHead
  <1>3. t = "INSERT" => Body[t] = "value" /\ Prefix[t] = <<"INSERT", "INTO", "identifier", "VALUES", "open">>
    BY DEF Body, Prefix, InsertHead
  <1>4. t = "DELETE" => Body[t] = "where" /\ Prefix[t] = <<"DELETE", "FROM", "identifier">>
    BY DEF Body, Prefix, DeleteHead
  <1> QED BY <1>1, <1>2, <1>3, <1>4

LEMMA ExpectHeadKeepsGrammar ==
  ASSUME Invs, ExpectHead
  PROVE  GrammarInv'
  <1> DEFINE type == tokens[1]
  <1>0. /\ Parsing /\ MemoryInv /\ pc = "head" /\ index \in Nat /\ columns = <<>>
        /\ type \in Statements \ {"SELECT"} /\ index \in 1..Len(Prefix[type]) - 1
        /\ node # NoNode => /\ node \in Nodes /\ node.table /\ node.type = type
                            /\ node.columns = <<>> /\ node.values = <<>>
        /\ index > 2 => node # NoNode
        /\ BeginsWith(tokens, type, index)
    BY DEF Invs, MemoryInv, ReadInv, NodeFits, ExpectHead, Parsing, Returned, GrammarInv,
           InBeginning, InColumns
  <1>1. PICK k \in Kinds :
          /\ Read(k)
          /\ \/ /\ k = Prefix[type][index + 1]
                /\ Consume(IF index + 1 = Len(Prefix[type]) THEN Body[type] ELSE "head")
                /\ node' = IF k = "identifier" THEN NewNode(type, TRUE) ELSE node
                /\ columns' = columns
             \/ Fail({})
    BY <1>0 DEF ExpectHead
  <1>2. CASE Fail({})
    BY <1>2, GiveUpKeepsGrammar DEF Fail
  <1>3. CASE /\ k = Prefix[type][index + 1]
             /\ Consume(IF index + 1 = Len(Prefix[type]) THEN Body[type] ELSE "head")
             /\ node' = IF k = "identifier" THEN NewNode(type, TRUE) ELSE node
             /\ columns' = columns
    <2>1. /\ Agree(tokens, tokens', index) /\ tokens'[index + 1] = k
          /\ index' = index + 1 /\ tokens'[1] = type
      BY <1>0, <1>1, <1>3, ReadAgrees DEF Consume, Agree
    <2>2. BeginsWith(tokens', type, index')
      <3>1. ASSUME NEW i \in 1..index + 1 PROVE tokens'[i] = Prefix[type][i]
        <4>1. CASE i = index + 1
          BY <1>3, <2>1, <4>1
        <4>2. CASE i # index + 1
          <5>1. i \in 1..index
            BY <1>0, <4>2
          <5> QED BY <1>0, <2>1, <5>1 DEF BeginsWith, Agree
        <4> QED BY <4>1, <4>2
      <3> QED BY <2>1, <3>1 DEF BeginsWith
    <2>3. node' # NoNode =>
            /\ node' \in Nodes /\ node'.table /\ node'.type = type
            /\ node'.columns = <<>> /\ node'.values = <<>>
      <3>1. CASE k = "identifier"
        BY <1>0, <1>3, <3>1, NewNodeOwns DEF NewNode
      <3>2. CASE k # "identifier"
        BY <1>0, <1>3, <3>2
      <3> QED BY <3>1, <3>2
    <2>4. index' > 2 => node' # NoNode
      <3>1. CASE index = 2
        <4>1. k = "identifier"
          BY <1>0, <1>3, <3>1, TableNameIsThird
        <4>2. node' = NewNode(type, TRUE)
          BY <1>3, <4>1
        <4> QED BY <1>0, <4>2, NewNodeOwns
      <3>2. CASE index # 2
        <4>1. index' > 2 => index > 2
          BY <1>0, <2>1, <3>2
        <4>2. index > 2 => node' # NoNode
          <5>1. CASE k = "identifier"
            BY <1>0, <1>3, <5>1, NewNodeOwns
          <5> QED BY <1>0, <1>3, <5>1
        <4> QED BY <4>1, <4>2
      <3> QED BY <3>1, <3>2
    <2>5. CASE index' # Len(Prefix[type])
      <3>1. pc' = "head"
        BY <1>3, <2>1, <2>5 DEF Consume
      <3>2. InBeginning(tokens)'
        BY <2>1, <2>2, <2>3 DEF InBeginning
      <3> QED BY <3>1, <3>2, GrammarAtPlace
    <2>6. CASE index' = Len(Prefix[type])
      <3>0. pc' = Body[type]
        BY <1>3, <2>1, <2>6 DEF Consume
      <3>1. CASE type = "CREATE"
        <4>1. pc' = "column_name" /\ index' = 4 /\ columns' = <<>>
          BY <1>0, <1>3, <2>6, <3>0, <3>1, HeadBodies
        <4>2. node'.table
          BY <2>3, <2>4, <4>1
        <4>3. InCreate(tokens)'
          BY <2>2, <3>1, <4>1, <4>2 DEF InCreate, Declares
        <4> QED BY <4>1, <4>3, GrammarAtPlace DEF InColumns, InValues, BeforeWhere
      <3>2. CASE type = "DROP"
        <4>1. pc' = "accepted" /\ index' = 3 /\ Len(Prefix[type]) = 3
          BY <1>0, <2>6, <3>0, <3>2, HeadBodies
        <4>2. /\ node'.table /\ node'.type = "DROP"
              /\ \A i \in 1..Len(Prefix[type]) : tokens'[i] = Prefix[type][i]
          BY <2>2, <2>3, <2>4, <3>2, <4>1 DEF BeginsWith
        <4>3. PrefixGrammar(node.type)'
          BY <3>2, <4>2 DEF PrefixGrammar
        <4> QED BY <4>1, <4>2, <4>3, GrammarAtPlace DEF AcceptedFollowsGrammar
      <3>3. CASE type = "INSERT"
        <4>1. pc' = "value" /\ index' = 5
          BY <1>0, <2>6, <3>0, <3>3, HeadBodies
        <4>2. node'.values = <<>> /\ node'.table
          BY <2>3, <2>4, <4>1
        <4>3. InInsert(tokens)'
          BY <2>2, <3>3, <4>1, <4>2 DEF InInsert, Lists
        <4> QED BY <4>1, <4>3, GrammarAtPlace DEF InColumns, InValues, BeforeWhere
      <3>4. CASE type = "DELETE"
        <4>1. pc' = "where" /\ index' = 3
          BY <1>0, <2>6, <3>0, <3>4, HeadBodies
        <4>2. node'.table /\ node'.type = "DELETE"
          BY <2>3, <2>4, <3>4, <4>1
        <4>3. HasTable(tokens', node', 4)
          BY <2>2, <2>6, <3>4, <4>1, <4>2 DEF HasTable
        <4>4. InWhere(tokens)'
          BY <4>1, <4>3 DEF InWhere
        <4> QED BY <4>1, <4>4, GrammarAtPlace DEF InColumns, InValues, BeforeWhere
      <3> QED BY <1>0, <3>1, <3>2, <3>3, <3>4 DEF Statements
    <2> QED BY <2>5, <2>6
  <1> QED BY <1>1, <1>2, <1>3

(* A column more. *)
LEMMA DeclaresMore ==
  ASSUME NEW s, NEW c \in Seq(ColumnTypes), NEW k \in Keywords,
         Declares(s, c), Len(c) > 0 => s[4 + 3 * Len(c)] = "comma",
         s[5 + 3 * Len(c)] = "identifier", s[6 + 3 * Len(c)] = k
  PROVE  Declares(s, Append(c, ColumnType(k)))
  <1> DEFINE d == Append(c, ColumnType(k))
             n == Len(c)
  <1>1. /\ n \in Nat /\ Len(d) = n + 1 /\ d[n + 1] = ColumnType(k)
        /\ \A i \in 1..n : d[i] = c[i]
    BY DEF ColumnType, ColumnTypes
  <1>2. ASSUME NEW i \in 1..n + 1
        PROVE  /\ s[2 + 3 * i] = "identifier" /\ s[3 + 3 * i] \in Keywords
               /\ d[i] = ColumnType(s[3 + 3 * i])
    <2>1. CASE i = n + 1
      <3>1. 2 + 3 * i = 5 + 3 * n /\ 3 + 3 * i = 6 + 3 * n
        BY <1>1, <2>1
      <3> QED BY <1>1, <2>1, <3>1
    <2>2. CASE i # n + 1
      <3>1. i \in 1..n
        BY <1>1, <2>2
      <3> QED BY <1>1, <3>1 DEF Declares
    <2> QED BY <2>1, <2>2
  <1>3. ASSUME NEW i \in 1..n PROVE s[4 + 3 * i] = "comma"
    <2>1. CASE i = n
      BY <1>1, <2>1
    <2>2. CASE i # n
      BY <1>1, <2>2 DEF Declares
    <2> QED BY <2>1, <2>2
  <1>4. Len(d) - 1 = n
    BY <1>1
  <1> HIDE DEF d, n
  <1> QED BY <1>1, <1>2, <1>3, <1>4 DEF Declares, d

LEMMA ColumnsKeepGrammar ==
  ASSUME Invs, ColumnName \/ ColumnKeyword \/ ColumnEnd
  PROVE  GrammarInv'
  <1> DEFINE n == Len(columns)
  <1>0. /\ Parsing /\ MemoryInv /\ index \in Nat /\ pc \in InColumns
        /\ columns \in Seq(ColumnTypes) /\ n \in Nat /\ node \in Nodes /\ node.type = "CREATE"
        /\ InCreate(tokens)
        /\ pc = "column_end" => n > 0
    BY DEF Invs, MemoryInv, ReadInv, NodeFits, InColumns, ColumnName, ColumnKeyword, ColumnEnd,
           Parsing, Returned, GrammarInv
  <1>1. CASE ColumnName
    <2>0. /\ pc = "column_name" /\ index = 4 + 3 * n /\ node.table
          /\ BeginsWith(tokens, "CREATE", 4) /\ Declares(tokens, columns)
          /\ n > 0 => tokens[4 + 3 * n] = "comma"
      BY <1>0, <1>1 DEF ColumnName, InCreate
    <2>1. PICK k \in Kinds :
            /\ Read(k)
            /\ \/ k = "identifier" /\ Consume("column_type") /\ UNCHANGED <<columns, node>>
               \/ Fail(ColumnsFree(Len(columns)))
      BY <1>1 DEF ColumnName
    <2>2. CASE k = "identifier" /\ Consume("column_type") /\ UNCHANGED <<columns, node>>
      <3>1. /\ Agree(tokens, tokens', index) /\ tokens'[index + 1] = "identifier"
            /\ index' = index + 1 /\ pc' = "column_type" /\ columns' = columns /\ node' = node
        BY <1>0, <2>1, <2>2, ReadAgrees DEF Consume
      <3>2. /\ BeginsWith(tokens', "CREATE", 4) /\ Declares(tokens', columns)
            /\ n > 0 => tokens'[4 + 3 * n] = "comma"
        <4>1. BeginsWith(tokens', "CREATE", 4)
          BY <1>0, <2>0, <3>1, BeginsWithStays
        <4>2. Declares(tokens', columns)
          BY <1>0, <2>0, <3>1, DeclaresStays
        <4>3. n > 0 => tokens'[4 + 3 * n] = "comma"
          BY <1>0, <2>0, <3>1 DEF Agree
        <4> QED BY <4>1, <4>2, <4>3
      <3>3. index' = 5 + 3 * n
        BY <1>0, <2>0, <3>1
      <3>4. tokens'[5 + 3 * n] = "identifier"
        BY <1>0, <3>1, <3>3
      <3>5. InCreate(tokens)'
        BY <2>0, <3>1, <3>2, <3>3, <3>4 DEF InCreate
      <3> QED BY <3>1, <3>5, GrammarAtPlace DEF InColumns
    <2>3. CASE Fail(ColumnsFree(Len(columns)))
      BY <2>3, GiveUpKeepsGrammar DEF Fail
    <2> QED BY <2>1, <2>2, <2>3
  <1>2. CASE ColumnKeyword
    <2>0. /\ pc = "column_type" /\ index = 5 + 3 * n /\ node.table
          /\ BeginsWith(tokens, "CREATE", 4) /\ Declares(tokens, columns)
          /\ n > 0 => tokens[4 + 3 * n] = "comma"
          /\ tokens[5 + 3 * n] = "identifier"
      BY <1>0, <1>2 DEF ColumnKeyword, InCreate
    <2>1. PICK k \in Kinds :
            /\ Read(k)
            /\ \/ /\ k \in Keywords /\ Consume("column_end")
                  /\ columns' = Append(columns, ColumnType(k)) /\ node' = node
               \/ Fail(ColumnsFree(Len(columns)) \cup {<<"column", Len(columns) + 1>>})
      BY <1>2 DEF ColumnKeyword
    <2>2. CASE /\ k \in Keywords /\ Consume("column_end")
               /\ columns' = Append(columns, ColumnType(k)) /\ node' = node
      <3>1. /\ Agree(tokens, tokens', index) /\ tokens'[index + 1] = k
            /\ index' = index + 1 /\ pc' = "column_end" /\ node' = node
        BY <1>0, <2>1, <2>2, ReadAgrees DEF Consume
      <3>2. BeginsWith(tokens', "CREATE", 4)
        BY <1>0, <2>0, <3>1, BeginsWithStays
      <3>3. Declares(tokens', columns)
        BY <1>0, <2>0, <3>1, DeclaresStays
      <3>4. n > 0 => tokens'[4 + 3 * n] = "comma"
        BY <1>0, <2>0, <3>1 DEF Agree
      <3>5. tokens'[5 + 3 * n] = "identifier"
        BY <1>0, <2>0, <3>1 DEF Agree
      <3>6. tokens'[6 + 3 * n] = k
        BY <1>0, <2>0, <3>1
      <3>7. Declares(tokens', columns')
        BY <1>0, <2>2, <3>3, <3>4, <3>5, <3>6, DeclaresMore
      <3>8. Len(columns') = n + 1
        BY <1>0, <2>2 DEF ColumnType, ColumnTypes
      <3>9. index' = 3 + 3 * Len(columns')
        BY <1>0, <2>0, <3>1, <3>8
      <3>10. InCreate(tokens)'
        BY <2>0, <3>1, <3>2, <3>7, <3>9 DEF InCreate
      <3> QED BY <3>1, <3>10, GrammarAtPlace DEF InColumns
    <2>3. CASE Fail(ColumnsFree(Len(columns)) \cup {<<"column", Len(columns) + 1>>})
      BY <2>3, GiveUpKeepsGrammar DEF Fail
    <2> QED BY <2>1, <2>2, <2>3
  <1>3. CASE ColumnEnd
    <2>0. /\ pc = "column_end" /\ index = 3 + 3 * n /\ n > 0 /\ node.table
          /\ BeginsWith(tokens, "CREATE", 4) /\ Declares(tokens, columns)
      BY <1>0, <1>3 DEF ColumnEnd, InCreate
    <2>1. PICK k \in Kinds :
            /\ Read(k)
            /\ \/ k = "comma" /\ Consume("column_name") /\ UNCHANGED <<columns, node>>
               \/ k = "close" /\ Consume("accepted") /\ node' = [node EXCEPT !.columns = columns]
               \/ Fail(ColumnsFree(Len(columns)))
      BY <1>3 DEF ColumnEnd
    <2>2. ASSUME NEW next, Consume(next)
          PROVE  /\ BeginsWith(tokens', "CREATE", 4) /\ Declares(tokens', columns)
                 /\ tokens'[4 + 3 * n] = k /\ index' = 4 + 3 * n
      <3>1. /\ Agree(tokens, tokens', index) /\ tokens'[index + 1] = k /\ index' = index + 1
        BY <1>0, <2>1, <2>2, ReadAgrees DEF Consume
      <3>2. BeginsWith(tokens', "CREATE", 4)
        BY <1>0, <2>0, <3>1, BeginsWithStays
      <3>3. Declares(tokens', columns)
        BY <1>0, <2>0, <3>1, DeclaresStays
      <3> QED BY <1>0, <2>0, <3>1, <3>2, <3>3
    <2>3. CASE k = "comma" /\ Consume("column_name") /\ UNCHANGED <<columns, node>>
      <3>1. pc' = "column_name" /\ columns' = columns /\ node' = node
        BY <2>3 DEF Consume
      <3>2. InCreate(tokens)'
        BY <2>0, <2>2, <2>3, <3>1 DEF InCreate
      <3> QED BY <3>1, <3>2, GrammarAtPlace DEF InColumns
    <2>4. CASE k = "close" /\ Consume("accepted") /\ node' = [node EXCEPT !.columns = columns]
      <3>1. /\ pc' = "accepted" /\ node'.type = "CREATE" /\ node'.table /\ node'.columns = columns
        BY <1>0, <2>0, <2>4 DEF Consume, Nodes
      <3>2. PrefixGrammar(node.type)'
        BY <2>2, <2>4, <3>1, HeadBodies DEF PrefixGrammar, BeginsWith, Statements
      <3>3. ASSUME NEW i \in 1..n
            PROVE  /\ tokens'[2 + 3 * i] = "identifier" /\ tokens'[3 + 3 * i] \in Keywords
                   /\ columns[i] = ColumnType(tokens'[3 + 3 * i])
                   /\ tokens'[4 + 3 * i] = IF i = n THEN "close" ELSE "comma"
        <4>1. CASE i = n
          BY <2>2, <2>4, <4>1 DEF Declares
        <4>2. CASE i # n
          <5>1. i \in 1..n - 1
            BY <1>0, <4>2
          <5> QED BY <2>2, <2>4, <4>2, <5>1 DEF Declares
        <4> QED BY <4>1, <4>2
      <3>4. CreateGrammar'
        BY <2>0, <2>2, <2>4, <3>1, <3>3 DEF CreateGrammar
      <3>5. AcceptedFollowsGrammar'
        BY <3>1, <3>2, <3>4 DEF AcceptedFollowsGrammar
      <3> QED BY <3>1, <3>5, GrammarAtPlace
    <2>5. CASE Fail(ColumnsFree(Len(columns)))
      BY <2>5, GiveUpKeepsGrammar DEF Fail
    <2> QED BY <2>1, <2>3, <2>4, <2>5
  <1> QED BY <1>1, <1>2, <1>3

(* A value more. *)
LEMMA ListsMore ==
  ASSUME NEW s, NEW v \in Seq(TypeKeywords), NEW k \in Literals,
         Lists(s, v), Len(v) > 0 => s[5 + 2 * Len(v)] = "comma", s[6 + 2 * Len(v)] = k
  PROVE  Lists(s, Append(v, LiteralType[k]))
  <1> DEFINE d == Append(v, LiteralType[k])
             n == Len(v)
  <1>1. /\ n \in Nat /\ Len(d) = n + 1 /\ d[n + 1] = LiteralType[k]
        /\ \A i \in 1..n : d[i] = v[i]
    <2>1. LiteralType[k] \in TypeKeywords
      BY DEF LiteralType, TypeKeywords, Literals
    <2> QED BY <2>1
  <1>2. ASSUME NEW i \in 1..n + 1
        PROVE  s[4 + 2 * i] \in Literals /\ d[i] = LiteralType[s[4 + 2 * i]]
    <2>1. CASE i = n + 1
      <3>1. 4 + 2 * i = 6 + 2 * n
        BY <1>1, <2>1
      <3> QED BY <1>1, <2>1, <3>1
    <2>2. CASE i # n + 1
      <3>1. i \in 1..n
        BY <1>1, <2>2
      <3> QED BY <1>1, <3>1 DEF Lists
    <2> QED BY <2>1, <2>2
  <1>3. ASSUME NEW i \in 1..n PROVE s[5 + 2 * i] = "comma"
    <2>1. CASE i = n
      BY <1>1, <2>1
    <2>2. CASE i # n
      BY <1>1, <2>2 DEF Lists
    <2> QED BY <2>1, <2>2
  <1>4. Len(d) - 1 = n
    BY <1>1
  <1> HIDE DEF d, n
  <1> QED BY <1>1, <1>2, <1>3, <1>4 DEF Lists, d

LEMMA ValuesKeepGrammar ==
  ASSUME Invs, InsertValue \/ InsertEnd
  PROVE  GrammarInv'
  <1> DEFINE v == node.values
             n == Len(v)
  <1>0. /\ Parsing /\ MemoryInv /\ index \in Nat /\ pc \in InValues
        /\ node \in Nodes /\ v \in Seq(TypeKeywords) /\ n \in Nat /\ node.type = "INSERT"
        /\ node.table /\ BeginsWith(tokens, "INSERT", 5) /\ Lists(tokens, v)
        /\ pc = "value" => index = 5 + 2 * n /\ (n > 0 => tokens[5 + 2 * n] = "comma")
        /\ pc = "value_end" => index = 4 + 2 * n /\ n > 0
    <2>1. /\ Parsing /\ MemoryInv /\ index \in Nat /\ pc \in InValues
          /\ node \in Nodes /\ node.type = "INSERT"
      BY DEF Invs, MemoryInv, ReadInv, NodeFits, InValues, InsertValue, InsertEnd, Parsing, Returned
    <2>2. InInsert(tokens)
      BY <2>1 DEF Invs, GrammarInv
    <2>3. v \in Seq(TypeKeywords) /\ n \in Nat
      BY <2>1 DEF Nodes
    <2> QED BY <2>1, <2>2, <2>3 DEF InInsert
  <1> HIDE DEF v, n
  <1>1. CASE InsertValue
    <2>0. pc = "value"
      BY <1>1 DEF InsertValue
    <2>1. PICK k \in Kinds :
            /\ Read(k)
            /\ \/ /\ k \in Literals /\ Consume("value_end")
                  /\ node' = [node EXCEPT !.values = Append(@, LiteralType[k])]
               \/ Fail({})
      BY <1>1 DEF InsertValue
    <2>2. CASE /\ k \in Literals /\ Consume("value_end")
               /\ node' = [node EXCEPT !.values = Append(@, LiteralType[k])]
      <3>1. /\ Agree(tokens, tokens', index) /\ tokens'[index + 1] = k
            /\ index' = index + 1 /\ pc' = "value_end"
        BY <1>0, <2>1, <2>2, ReadAgrees DEF Consume
      <3>2. node'.table /\ node'.values = Append(v, LiteralType[k])
        BY <1>0, <2>2 DEF Nodes, v
      <3>3. BeginsWith(tokens', "INSERT", 5)
        BY <1>0, <2>0, <3>1, BeginsWithStays
      <3>4. Lists(tokens', v)
        <4>1. 4 + 2 * Len(v) <= index
          BY <1>0, <2>0 DEF n
        <4> QED BY <1>0, <3>1, <4>1, ListsStay
      <3>5. /\ n > 0 => tokens'[5 + 2 * n] = "comma"
            /\ tokens'[6 + 2 * n] = k
        BY <1>0, <2>0, <3>1 DEF Agree
      <3>6. Lists(tokens', node'.values)
        BY <1>0, <2>2, <3>2, <3>4, <3>5, ListsMore DEF n
      <3>7. Len(node'.values) = n + 1
        <4>1. LiteralType[k] \in TypeKeywords
          BY <2>2 DEF LiteralType, TypeKeywords, Literals
        <4> QED BY <1>0, <3>2, <4>1 DEF n
      <3>8. index' = 4 + 2 * Len(node'.values) /\ Len(node'.values) > 0
        BY <1>0, <2>0, <3>1, <3>7
      <3>9. InInsert(tokens)'
        BY <3>1, <3>2, <3>3, <3>6, <3>8 DEF InInsert
      <3> QED BY <3>1, <3>9, GrammarAtPlace DEF InValues
    <2>3. CASE Fail({})
      BY <2>3, GiveUpKeepsGrammar DEF Fail
    <2> QED BY <2>1, <2>2, <2>3
  <1>2. CASE InsertEnd
    <2>0. pc = "value_end"
      BY <1>2 DEF InsertEnd
    <2>1. PICK k \in Kinds :
            /\ Read(k)
            /\ \/ k = "comma" /\ Consume("value") /\ node' = node
               \/ k = "close" /\ Keep("accepted") /\ node' = node
               \/ Fail({})
      BY <1>2 DEF InsertEnd
    <2>2. /\ BeginsWith(tokens', "INSERT", 5) /\ Lists(tokens', v) /\ tokens'[5 + 2 * n] = k
      <3>1. Agree(tokens, tokens', index) /\ tokens'[index + 1] = k
        BY <1>0, <2>1, ReadAgrees
      <3>2. BeginsWith(tokens', "INSERT", 5)
        BY <1>0, <2>0, <3>1, BeginsWithStays
      <3>3. Lists(tokens', v)
        <4>1. 4 + 2 * Len(v) <= index
          BY <1>0, <2>0 DEF n
        <4> QED BY <1>0, <3>1, <4>1, ListsStay
      <3>4. index + 1 = 5 + 2 * n
        BY <1>0, <2>0
      <3> QED BY <3>1, <3>2, <3>3, <3>4
    <2>3. CASE k = "comma" /\ Consume("value") /\ node' = node
      <3>1. pc' = "value" /\ index' = 5 + 2 * n
        BY <1>0, <2>0, <2>3 DEF Consume
      <3>2. InInsert(tokens)'
        BY <1>0, <2>2, <2>3, <3>1 DEF InInsert, v, n
      <3> QED BY <3>1, <3>2, GrammarAtPlace DEF InValues
    <2>4. CASE k = "close" /\ Keep("accepted") /\ node' = node
      <3>1. pc' = "accepted" /\ index' = index /\ node'.type = "INSERT" /\ node'.table
        BY <1>0, <2>4 DEF Keep
      <3>2. PrefixGrammar(node.type)'
        BY <2>2, <3>1, HeadBodies DEF PrefixGrammar, BeginsWith, Statements
      <3>3. ASSUME NEW i \in 1..n
            PROVE  /\ tokens'[4 + 2 * i] \in Literals /\ v[i] = LiteralType[tokens'[4 + 2 * i]]
                   /\ tokens'[5 + 2 * i] = IF i = n THEN "close" ELSE "comma"
        <4>1. CASE i = n
          BY <2>2, <2>4, <4>1 DEF Lists, n
        <4>2. CASE i # n
          <5>1. i \in 1..n - 1
            BY <1>0, <4>2
          <5> QED BY <2>2, <2>4, <4>2, <5>1 DEF Lists, n
        <4> QED BY <4>1, <4>2
      <3>4. InsertGrammar'
        BY <1>0, <2>0, <2>4, <3>1, <3>3 DEF InsertGrammar, v, n
      <3>5. AcceptedFollowsGrammar'
        BY <3>1, <3>2, <3>4 DEF AcceptedFollowsGrammar
      <3> QED BY <3>1, <3>5, GrammarAtPlace
    <2>5. CASE Fail({})
      BY <2>5, GiveUpKeepsGrammar DEF Fail
    <2> QED BY <2>1, <2>3, <2>4, <2>5
  <1> QED BY <1>1, <1>2

(* A name more. *)
LEMMA NamesMore ==
  ASSUME NEW s, NEW n \in Nat, n > 0 => Names(s, n) /\ s[1 + 2 * n] = "comma",
         s[2 + 2 * n] = "identifier"
  PROVE  Names(s, n + 1)
  <1>1. ASSUME NEW i \in 1..n + 1 PROVE s[2 * i] = "identifier"
    <2>1. CASE i = n + 1
      <3>1. 2 * i = 2 + 2 * n
        BY <2>1
      <3> QED BY <3>1
    <2>2. CASE i # n + 1
      <3>1. i \in 1..n /\ n > 0
        BY <2>2
      <3> QED BY <3>1 DEF Names
    <2> QED BY <2>1, <2>2
  <1>2. ASSUME NEW i \in 1..n PROVE s[1 + 2 * i] = "comma"
    <2>1. CASE i = n
      BY <2>1
    <2>2. CASE i # n
      <3>1. i \in 1..n - 1 /\ n > 0
        BY <2>2
      <3> QED BY <3>1 DEF Names
    <2> QED BY <2>1, <2>2
  <1>3. n + 1 - 1 = n
    OBVIOUS
  <1> QED BY <1>1, <1>2, <1>3 DEF Names

(* The length of a statement that has not returned lets every comma count. *)
LEMMA CommaIsInRange ==
  ASSUME MemoryInv, Parsing
  PROVE  InRange
  BY DEF MemoryInv, ReadInv, InRange, Ended

LEMMA SelectKeepsGrammar ==
  ASSUME Invs, SelectAll \/ SelectColumn \/ SelectOther \/ SelectEnd \/ SelectFrom \/ SelectTable
  PROVE  GrammarInv'
  <1> DEFINE n == node.selected
  <1>0. /\ Parsing /\ MemoryInv /\ index \in Nat /\ pc \in InSelect
        /\ node \in Nodes /\ n \in Nat /\ node.type = "SELECT"
        /\ BeginsWith(tokens, "SELECT", 1)
        /\ pc = "select" => n = 0 /\ index = 1
        /\ pc = "select_next" => n > 0 /\ index = 1 + 2 * n /\ Names(tokens, n) /\ tokens[index] = "comma"
        /\ pc = "select_end" => n > 0 /\ index = 2 * n /\ Names(tokens, n)
        /\ pc = "from" => SelectedUpTo(tokens, n, index)
        /\ pc = "table" => index > 2 /\ SelectedUpTo(tokens, n, index - 1) /\ tokens[index] = "FROM"
    <2>1. /\ Parsing /\ MemoryInv /\ index \in Nat /\ pc \in InSelect
          /\ node \in Nodes /\ node.type = "SELECT"
      BY DEF Invs, MemoryInv, ReadInv, NodeFits, InSelect, SelectAll, SelectColumn, SelectOther,
             SelectEnd, SelectFrom, SelectTable, Parsing, Returned
    <2>2. InSelection(tokens)
      BY <2>1 DEF Invs, GrammarInv
    <2>3. n \in Nat
      BY <2>1 DEF Nodes
    <2> QED BY <2>1, <2>2, <2>3 DEF InSelection
  <1> HIDE DEF n
  <1>00. index >= 1
    BY <1>0 DEF InSelect, SelectedUpTo
  <1>1. CASE SelectAll
    <2>1. /\ Read("wildcard") /\ "wildcard" \in Kinds /\ pc = "select" /\ index' = index + 1
          /\ pc' = "from" /\ node' = node
      BY <1>1 DEF SelectAll, Consume, Kinds
    <2>2. Agree(tokens, tokens', index) /\ tokens'[index + 1] = "wildcard"
      BY <1>0, <2>1, ReadAgrees
    <2>3. BeginsWith(tokens', "SELECT", 1)
      BY <1>0, <1>00, <2>2, BeginsWithStays
    <2>4. SelectedUpTo(tokens', n, 2) /\ index' = 2
      BY <1>0, <2>1, <2>2 DEF SelectedUpTo
    <2>5. InSelection(tokens)'
      BY <2>1, <2>3, <2>4 DEF InSelection, n
    <2> QED BY <2>1, <2>5, GrammarAtPlace DEF InSelect
  <1>2. CASE SelectColumn
    <2>1. /\ Read("identifier") /\ "identifier" \in Kinds /\ pc \in {"select", "select_next"}
          /\ index' = index + 1 /\ pc' = "select_end" /\ node' = [node EXCEPT !.selected = @ + 1]
      BY <1>2 DEF SelectColumn, Consume, Kinds
    <2>2. Agree(tokens, tokens', index) /\ tokens'[index + 1] = "identifier"
      BY <1>0, <2>1, ReadAgrees
    <2>3. BeginsWith(tokens', "SELECT", 1)
      BY <1>0, <1>00, <2>2, BeginsWithStays
    <2>4. node'.selected = n + 1
      BY <1>0, <2>1 DEF Nodes, n
    <2>5. index = 1 + 2 * n
      BY <1>0, <2>1
    <2>6. n > 0 => Names(tokens', n) /\ tokens'[1 + 2 * n] = "comma"
      <3>1. ASSUME n > 0 PROVE Names(tokens', n) /\ tokens'[1 + 2 * n] = "comma"
        <4>1. Names(tokens, n) /\ tokens[index] = "comma" /\ 2 * n <= index
          BY <1>0, <2>1, <2>5, <3>1
        <4> QED BY <1>0, <1>00, <2>2, <2>5, <4>1, NamesStay DEF Agree
      <3> QED BY <3>1
    <2>7. Names(tokens', n + 1)
      BY <1>0, <2>2, <2>5, <2>6, NamesMore
    <2>8. index' = 2 * (n + 1)
      BY <1>0, <2>1, <2>5
    <2>9. InSelection(tokens)'
      BY <1>0, <2>1, <2>3, <2>4, <2>7, <2>8 DEF InSelection
    <2> QED BY <2>1, <2>9, GrammarAtPlace DEF InSelect
  <1>3. CASE SelectOther
    <2>1. PICK k \in Kinds : Read(k) /\ (Fail({}) \/ (pc = "select_next" /\ Keep("from") /\ node' = node))
      BY <1>3 DEF SelectOther
    <2>2. CASE pc = "select_next" /\ Keep("from") /\ node' = node
      <3>1. /\ Agree(tokens, tokens', index) /\ pc' = "from" /\ index' = index
        BY <1>0, <2>1, <2>2, ReadAgrees DEF Keep
      <3>2. BeginsWith(tokens', "SELECT", 1)
        BY <1>0, <1>00, <3>1, BeginsWithStays
      <3>3. SelectedUpTo(tokens, n, index)
        BY <1>0, <2>2 DEF SelectedUpTo
      <3>4. SelectedUpTo(tokens', n, index)
        BY <1>0, <3>1, <3>3, SelectedStays
      <3>5. InSelection(tokens)'
        BY <2>2, <3>1, <3>2, <3>4 DEF InSelection, n
      <3> QED BY <3>1, <3>5, GrammarAtPlace DEF InSelect
    <2>3. CASE Fail({})
      BY <2>3, GiveUpKeepsGrammar DEF Fail
    <2> QED BY <2>1, <2>2, <2>3
  <1>4. CASE SelectEnd
    <2>0. pc = "select_end" /\ node' = node
      BY <1>4 DEF SelectEnd
    <2>1. PICK k \in Kinds : Read(k) /\ (IF k = "comma" /\ InRange THEN Consume("select_next") ELSE Keep("from"))
      BY <1>4 DEF SelectEnd
    <2>2. /\ Agree(tokens, tokens', index) /\ tokens'[index + 1] = k
      BY <1>0, <2>1, ReadAgrees
    <2>3. BeginsWith(tokens', "SELECT", 1)
      BY <1>0, <1>00, <2>2, BeginsWithStays
    <2>4. Names(tokens', n)
      <3>1. 2 * n <= index /\ Names(tokens, n)
        BY <1>0, <2>0
      <3> QED BY <1>0, <2>2, <3>1, NamesStay
    <2>5. CASE k = "comma"
      <3>1. pc' = "select_next" /\ index' = 1 + 2 * n
        BY <1>0, <2>0, <2>1, <2>5, CommaIsInRange DEF Consume
      <3>2. tokens'[index'] = "comma"
        BY <1>0, <2>0, <2>2, <2>5, <3>1
      <3>3. InSelection(tokens)'
        BY <1>0, <2>0, <2>3, <2>4, <3>1, <3>2 DEF InSelection, n
      <3> QED BY <3>1, <3>3, GrammarAtPlace DEF InSelect
    <2>6. CASE k # "comma"
      <3>1. pc' = "from" /\ index' = index
        BY <2>1, <2>6 DEF Keep
      <3>2. SelectedUpTo(tokens', n, index)
        BY <1>0, <2>0, <2>4 DEF SelectedUpTo
      <3>3. InSelection(tokens)'
        BY <2>0, <2>3, <3>1, <3>2 DEF InSelection, n
      <3> QED BY <3>1, <3>3, GrammarAtPlace DEF InSelect
    <2> QED BY <2>5, <2>6
  <1>5. CASE SelectFrom
    <2>1. PICK k \in Kinds : Read(k) /\ (Fail({}) \/ (k = "FROM" /\ Consume("table") /\ node' = node))
      BY <1>5 DEF SelectFrom
    <2>2. CASE k = "FROM" /\ Consume("table") /\ node' = node
      <3>1. /\ Agree(tokens, tokens', index) /\ tokens'[index + 1] = "FROM"
            /\ pc' = "table" /\ index' = index + 1
        BY <1>0, <2>1, <2>2, ReadAgrees DEF Consume
      <3>2. BeginsWith(tokens', "SELECT", 1)
        BY <1>0, <1>00, <3>1, BeginsWithStays
      <3>3. SelectedUpTo(tokens, n, index)
        BY <1>0, <1>5 DEF SelectFrom
      <3>4. SelectedUpTo(tokens', n, index' - 1) /\ index' > 2
        <4>1. SelectedUpTo(tokens', n, index)
          BY <1>0, <3>1, <3>3, SelectedStays
        <4>2. index > 1
          BY <1>0, <3>3 DEF SelectedUpTo
        <4> QED BY <1>0, <3>1, <4>1, <4>2
      <3>5. InSelection(tokens)'
        BY <2>2, <3>1, <3>2, <3>4 DEF InSelection, n
      <3> QED BY <3>1, <3>5, GrammarAtPlace DEF InSelect
    <2>3. CASE Fail({})
      BY <2>3, GiveUpKeepsGrammar DEF Fail
    <2> QED BY <2>1, <2>2, <2>3
  <1>6. CASE SelectTable
    <2>1. PICK k \in Kinds :
            Read(k) /\ (Fail({}) \/ (k = "identifier" /\ Consume("where") /\ node' = [node EXCEPT !.table = TRUE]))
      BY <1>6 DEF SelectTable
    <2>2. CASE k = "identifier" /\ Consume("where") /\ node' = [node EXCEPT !.table = TRUE]
      <3>1. /\ Agree(tokens, tokens', index) /\ tokens'[index + 1] = "identifier"
            /\ pc' = "where" /\ index' = index + 1
        BY <1>0, <2>1, <2>2, ReadAgrees DEF Consume
      <3>2. BeginsWith(tokens', "SELECT", 1)
        BY <1>0, <1>00, <3>1, BeginsWithStays
      <3>3. index > 2 /\ SelectedUpTo(tokens, n, index - 1) /\ tokens[index] = "FROM"
        BY <1>0, <1>6 DEF SelectTable
      <3>4. node'.table /\ node'.selected = n /\ node'.type = "SELECT"
        BY <1>0, <2>2 DEF Nodes, n
      <3>5. /\ index' + 1 - 3 = index - 1 /\ index' + 1 - 2 = index /\ index' + 1 - 1 = index + 1
            /\ index' + 1 > 4 /\ index - 1 \in Nat
        BY <1>0, <3>1, <3>3
      <3>6. SelectedUpTo(tokens', n, index - 1) /\ tokens'[index] = "FROM"
        BY <1>0, <3>1, <3>3, <3>5, SelectedStays DEF Agree
      <3>7. HasTable(tokens', node', index' + 1)
        BY <3>1, <3>2, <3>4, <3>5, <3>6, DeleteHeadIs DEF HasTable
      <3>8. InWhere(tokens)'
        BY <3>1, <3>7 DEF InWhere
      <3> QED BY <3>1, <3>8, GrammarAtPlace DEF BeforeWhere
    <2>3. CASE Fail({})
      BY <2>3, GiveUpKeepsGrammar DEF Fail
    <2> QED BY <2>1, <2>2, <2>3
  <1> QED BY <1>1, <1>2, <1>3, <1>4, <1>5, <1>6

(* A statement that ends with or without its WHERE at the j-th token. *)
LEMMA AcceptedBehindTable ==
  ASSUME NEW n \in Nodes, n.type \in {"SELECT", "DELETE"}, NEW j \in Nat,
         pc' = "accepted", node' = n, HasTable(tokens', n, j), WhereGrammar(j)',
         n.type = "SELECT" => (n.all <=> tokens'[2] = "wildcard"),
         n.type = "DELETE" => (n.all <=> ~HasWhere(n))
  PROVE  GrammarInv'
  <1>1. n.table /\ BeginsWith(tokens', n.type, Len(Prefix[n.type])) /\ n.selected \in Nat
    BY DEF HasTable, Nodes
  <1>2. PrefixGrammar(node.type)'
    BY <1>1 DEF PrefixGrammar, BeginsWith
  <1>3. CASE n.type = "DELETE"
    <2>1. j = 4
      BY <1>3 DEF HasTable
    <2>2. WhereGrammar(4)' /\ (node'.all <=> ~HasWhere(node')) /\ node'.type = "DELETE"
      BY <1>3, <2>1
    <2>3. AcceptedFollowsGrammar'
      BY <1>1, <1>2, <2>2 DEF AcceptedFollowsGrammar
    <2> QED BY <2>3, GrammarAtPlace
  <1>4. CASE n.type = "SELECT"
    <2> DEFINE m == n.selected
    <2>1. /\ j > 4 /\ SelectedUpTo(tokens', m, j - 3)
          /\ tokens'[j - 2] = "FROM" /\ tokens'[j - 1] = "identifier"
      BY <1>4 DEF HasTable
    <2>2. CASE m = 0
      <3>1. j = 5 /\ tokens'[2] = "wildcard" /\ n.all
        BY <1>4, <2>1, <2>2 DEF SelectedUpTo
      <3>2. tokens'[3] = "FROM" /\ tokens'[4] = "identifier" /\ WhereGrammar(5)'
        BY <2>1, <3>1
      <3>3. SelectGrammar'
        BY <2>2, <3>1, <3>2 DEF SelectGrammar
      <3>4. AcceptedFollowsGrammar'
        BY <1>1, <1>2, <1>4, <3>3 DEF AcceptedFollowsGrammar
      <3> QED BY <3>4, GrammarAtPlace
    <2>3. CASE m > 0
      <3>1. Names(tokens', m) /\ (j - 3 = 2 * m \/ (j - 3 = 1 + 2 * m /\ tokens'[1 + 2 * m] = "comma"))
        BY <2>1, <2>3 DEF SelectedUpTo
      <3>2. tokens'[2] = "identifier"
        <4>1. 1 \in 1..m /\ 2 * 1 = 2
          BY <1>1, <2>3
        <4> QED BY <3>1, <4>1 DEF Names
      <3>3. ~n.all
        BY <1>4, <3>2
      <3>4. \A i \in 1..m : tokens'[2 * i] = "identifier" /\ (i < m => tokens'[1 + 2 * i] = "comma")
        <4>1. \A i \in 1..m : i < m => i \in 1..m - 1
          BY <1>1
        <4> QED BY <3>1, <4>1 DEF Names
      <3>5. CASE j - 3 = 2 * m
        <4>1. tokens'[1 + 2 * m] = "FROM" /\ tokens'[2 + 2 * m] = "identifier" /\ WhereGrammar(3 + 2 * m)'
          <5>1. 1 + 2 * m = j - 2 /\ 2 + 2 * m = j - 1 /\ 3 + 2 * m = j
            <6>1. m \in Nat
              BY <1>1
            <6> HIDE DEF m
            <6> QED BY ONLY <6>1, <3>5, j \in Nat
          <5>2. tokens'[1 + 2 * m] = "FROM" /\ tokens'[2 + 2 * m] = "identifier"
            BY ONLY <2>1, <5>1
          <5>3. WhereGrammar(3 + 2 * m)'
            BY ONLY <5>1, WhereGrammar(j)'
          <5> QED BY <5>2, <5>3
        <4>2. SelectGrammar'
          BY <1>1, <2>3, <3>2, <3>3, <3>4, <4>1 DEF SelectGrammar
        <4>3. AcceptedFollowsGrammar'
          BY <1>1, <1>2, <1>4, <4>2 DEF AcceptedFollowsGrammar
        <4> QED BY <4>3, GrammarAtPlace
      <3>6. CASE j - 3 = 1 + 2 * m /\ tokens'[1 + 2 * m] = "comma"
        <4>1. tokens'[2 + 2 * m] = "FROM" /\ tokens'[3 + 2 * m] = "identifier" /\ WhereGrammar(4 + 2 * m)'
          <5>1. 2 + 2 * m = j - 2 /\ 3 + 2 * m = j - 1 /\ 4 + 2 * m = j
            <6>1. m \in Nat
              BY <1>1
            <6> HIDE DEF m
            <6> QED BY ONLY <6>1, <3>6, j \in Nat
          <5>2. tokens'[2 + 2 * m] = "FROM" /\ tokens'[3 + 2 * m] = "identifier"
            BY ONLY <2>1, <5>1
          <5>3. WhereGrammar(4 + 2 * m)'
            BY ONLY <5>1, WhereGrammar(j)'
          <5> QED BY <5>2, <5>3
        <4>2. SelectGrammar'
          BY <1>1, <2>3, <3>2, <3>3, <3>4, <3>6, <4>1 DEF SelectGrammar
        <4>3. AcceptedFollowsGrammar'
          BY <1>1, <1>2, <1>4, <4>2 DEF AcceptedFollowsGrammar
        <4> QED BY <4>3, GrammarAtPlace
      <3> QED BY <3>1, <3>5, <3>6
    <2> QED BY <1>1, <2>2, <2>3
  <1> QED BY <1>3, <1>4

(* A change of the WHERE clause leaves the rest of the node alone. *)
LEMMA SameTable ==
  ASSUME NEW n \in Nodes, NEW m \in Nodes, m.type = n.type, m.table = n.table,
         m.selected = n.selected, NEW s, NEW j, HasTable(s, n, j)
  PROVE  HasTable(s, m, j)
  BY DEF HasTable

LEMMA WhereKeepsGrammar ==
  ASSUME Invs, OptionalWhere \/ WhereColumn \/ WhereOperator \/ WhereValue
  PROVE  GrammarInv'
  <1>0. /\ Parsing /\ MemoryInv /\ index \in Nat /\ pc \in BeforeWhere \cup BehindColumn
        /\ node \in Nodes /\ node.type \in {"SELECT", "DELETE"}
        /\ pc \in BeforeWhere => NoCondition
        /\ pc = "where_value" => node.column /\ node.op
        /\ InWhere(tokens)
    BY DEF Invs, MemoryInv, ReadInv, NodeFits, BeforeWhere, BehindColumn, OptionalWhere,
           WhereColumn, WhereOperator, WhereValue, Parsing, Returned, GrammarInv
  <1>1. ASSUME NEW j \in Nat, j <= index + 1, HasTable(tokens, node, j), NEW k \in Kinds, Read(k)
        PROVE  HasTable(tokens', node, j) /\ (node.type = "SELECT" => tokens'[2] = tokens[2])
    <2>1. Agree(tokens, tokens', index)
      BY <1>0, <1>1, ReadAgrees
    <2>2. node.type = "SELECT" => j > 4
      BY <1>1 DEF HasTable
    <2> QED BY <1>0, <1>1, <2>1, <2>2, HasTableStays DEF Agree
  <1>2. CASE OptionalWhere
    <2>0. pc = "where" /\ HasTable(tokens, node, index + 1) /\ NoCondition
      BY <1>0, <1>2 DEF OptionalWhere, InWhere, BeforeWhere
    <2>1. PICK k \in Kinds :
            /\ Read(k)
            /\ \/ k = "WHERE" /\ Consume("where_column") /\ node' = node
               \/ k # "WHERE" /\ Keep("accepted") /\ node' = Finished(node)
      BY <1>2 DEF OptionalWhere
    <2>2. /\ tokens'[index + 1] = k /\ HasTable(tokens', node, index + 1)
          /\ node.type = "SELECT" => tokens'[2] = tokens[2]
      BY <1>0, <1>1, <2>0, <2>1, ReadAgrees
    <2>3. CASE k = "WHERE" /\ Consume("where_column") /\ node' = node
      <3>1. pc' = "where_column" /\ index' = index + 1
        BY <2>3 DEF Consume
      <3>2. InWhere(tokens)'
        BY <2>2, <2>3, <3>1 DEF InWhere
      <3> QED BY <3>1, <3>2, GrammarAtPlace DEF BeforeWhere
    <2>4. CASE k # "WHERE" /\ Keep("accepted") /\ node' = Finished(node)
      <3>1. PICK n \in Nodes : n = node'
        BY <1>0, <2>4 DEF Finished, Nodes, HasWhere
      <3>2. /\ n.type = node.type /\ n.table = node.table
            /\ n.selected = node.selected /\ n.column = node.column /\ n.value = node.value
            /\ node.type = "SELECT" => (n.all <=> tokens[2] = "wildcard")
            /\ node.type = "DELETE" => (n.all <=> ~HasWhere(node))
        BY <1>0, <2>4, <3>1 DEF Finished, Nodes, HasWhere
      <3>3. ~HasWhere(node) /\ ~HasWhere(n) /\ ~n.column
        BY <2>0, <3>2 DEF NoCondition, HasWhere
      <3>4. PICK j \in Nat : j = index + 1
        BY <1>0
      <3>5. WhereGrammar(j)'
        BY <2>2, <2>4, <3>1, <3>3, <3>4 DEF WhereGrammar
      <3>6. HasTable(tokens', n, j)
        BY <1>0, <2>2, <3>2, <3>4, SameTable
      <3>7. pc' = "accepted"
        BY <2>4 DEF Keep
      <3>8. /\ n.type = "SELECT" => (n.all <=> tokens'[2] = "wildcard")
            /\ n.type = "DELETE" => (n.all <=> ~HasWhere(n))
        BY <2>2, <3>2, <3>3
      <3> QED BY <1>0, <3>1, <3>2, <3>5, <3>6, <3>7, <3>8, AcceptedBehindTable
    <2> QED BY <2>1, <2>3, <2>4
  <1>3. CASE WhereColumn
    <2>0. pc = "where_column" /\ HasTable(tokens, node, index) /\ tokens[index] = "WHERE"
      BY <1>0, <1>3 DEF WhereColumn, InWhere
    <2>1. PICK k \in Kinds :
            /\ Read(k)
            /\ \/ /\ k = "identifier" /\ Consume("where_operator")
                  /\ node' = [node EXCEPT !.column = TRUE]
               \/ Fail({})
      BY <1>3 DEF WhereColumn
    <2>2. CASE k = "identifier" /\ Consume("where_operator") /\ node' = [node EXCEPT !.column = TRUE]
      <3>1. /\ Agree(tokens, tokens', index) /\ tokens'[index + 1] = k
            /\ pc' = "where_operator" /\ index' = index + 1
        BY <1>0, <2>1, <2>2, ReadAgrees DEF Consume
      <3>2. /\ node' \in Nodes /\ node'.type = node.type /\ node'.table = node.table
            /\ node'.selected = node.selected
        BY <1>0, <2>2 DEF Nodes
      <3>3. HasTable(tokens', node', index) /\ index >= 1
        <4>1. index >= 1
          BY <1>0, <2>0 DEF HasTable
        <4> QED BY <1>0, <1>1, <2>0, <2>1, <3>2, <4>1, SameTable
      <3>4. tokens'[index] = "WHERE" /\ index' - 1 = index
        BY <1>0, <2>0, <3>1, <3>3 DEF Agree
      <3>5. InWhere(tokens)'
        BY <2>2, <3>1, <3>3, <3>4 DEF InWhere
      <3> QED BY <3>1, <3>5, GrammarAtPlace DEF BehindColumn
    <2>3. CASE Fail({})
      BY <2>3, GiveUpKeepsGrammar DEF Fail
    <2> QED BY <2>1, <2>2, <2>3
  <1>4. CASE WhereOperator
    <2>0. /\ pc = "where_operator" /\ HasTable(tokens, node, index - 1)
          /\ tokens[index - 1] = "WHERE" /\ tokens[index] = "identifier"
      BY <1>0, <1>4 DEF WhereOperator, InWhere
    <2>1. PICK k \in Kinds :
            /\ Read(k)
            /\ \/ /\ k = "operator" /\ Consume("where_value") /\ node' = [node EXCEPT !.op = TRUE]
               \/ Fail({})
      BY <1>4 DEF WhereOperator
    <2>2. CASE k = "operator" /\ Consume("where_value") /\ node' = [node EXCEPT !.op = TRUE]
      <3>1. /\ Agree(tokens, tokens', index) /\ tokens'[index + 1] = k
            /\ pc' = "where_value" /\ index' = index + 1
        BY <1>0, <2>1, <2>2, ReadAgrees DEF Consume
      <3>2. /\ node' \in Nodes /\ node'.type = node.type /\ node'.table = node.table
            /\ node'.selected = node.selected
        BY <1>0, <2>2 DEF Nodes
      <3>3. index >= 2
        BY <1>0, <2>0 DEF HasTable
      <3>4. HasTable(tokens', node', index - 1)
        BY <1>0, <1>1, <2>0, <2>1, <3>2, <3>3, SameTable
      <3>5. /\ tokens'[index - 1] = "WHERE" /\ tokens'[index] = "identifier"
            /\ index' - 1 = index /\ index' - 2 = index - 1
        BY <1>0, <2>0, <3>1, <3>3 DEF Agree
      <3>6. InWhere(tokens)'
        BY <2>2, <3>1, <3>4, <3>5 DEF InWhere
      <3> QED BY <3>1, <3>6, GrammarAtPlace DEF BehindColumn
    <2>3. CASE Fail({})
      BY <2>3, GiveUpKeepsGrammar DEF Fail
    <2> QED BY <2>1, <2>2, <2>3
  <1>5. CASE WhereValue
    <2>0. /\ pc = "where_value" /\ HasTable(tokens, node, index - 2) /\ node.column /\ node.op
          /\ tokens[index - 2] = "WHERE" /\ tokens[index - 1] = "identifier"
          /\ tokens[index] = "operator"
      BY <1>0, <1>5 DEF WhereValue, InWhere
    <2>1. PICK k \in Kinds :
            /\ Read(k)
            /\ \/ /\ k \in Literals /\ Consume("accepted")
                  /\ node' = Finished([node EXCEPT !.value = LiteralType[k]])
               \/ Fail({})
      BY <1>5 DEF WhereValue
    <2>2. CASE /\ k \in Literals /\ Consume("accepted")
               /\ node' = Finished([node EXCEPT !.value = LiteralType[k]])
      <3>1. /\ Agree(tokens, tokens', index) /\ tokens'[index + 1] = k
            /\ pc' = "accepted" /\ index' = index + 1
        BY <1>0, <2>1, <2>2, ReadAgrees DEF Consume
      <3>2. index >= 3
        BY <1>0, <2>0 DEF HasTable
      <3>3. PICK j \in Nat : j = index - 2
        BY <1>0, <3>2
      <3>4. LiteralType[k] \in TypeKeywords /\ LiteralType[k] # "NULL"
        BY <2>2 DEF LiteralType, TypeKeywords, Literals
      <3>5. PICK m \in Nodes : m = [node EXCEPT !.value = LiteralType[k]]
        BY <1>0, <3>4 DEF Nodes
      <3>6. /\ m.type = node.type /\ m.table = node.table /\ m.selected = node.selected
            /\ m.column /\ m.op /\ m.value = LiteralType[k]
        BY <1>0, <2>0, <3>5 DEF Nodes
      <3>7. PICK n \in Nodes : n = Finished(m)
        <4>1. (tokens[2] = "wildcard") \in BOOLEAN /\ (~HasWhere(m)) \in BOOLEAN
          OBVIOUS
        <4> DEFINE all == IF m.type = "SELECT" THEN tokens[2] = "wildcard" ELSE ~HasWhere(m)
        <4>2. all \in BOOLEAN
          BY <4>1
        <4> HIDE DEF all
        <4>3. [m EXCEPT !.all = all] \in Nodes
          BY <4>2 DEF Nodes
        <4> QED BY <4>3 DEF Finished, all
      <3>8. /\ n.type = node.type /\ n.table = node.table /\ n.selected = node.selected
            /\ n.column /\ n.op /\ n.value = LiteralType[k]
            /\ n.type = "SELECT" => (n.all <=> tokens[2] = "wildcard")
            /\ n.type = "DELETE" => (n.all <=> ~HasWhere(m))
        BY <3>5, <3>6, <3>7 DEF Finished, Nodes
      <3>9. HasWhere(m) /\ HasWhere(n) /\ n = node'
        BY <2>2, <3>4, <3>5, <3>6, <3>7, <3>8 DEF HasWhere
      <3>10. HasTable(tokens', n, j)
        BY <1>0, <1>1, <2>0, <2>1, <3>3, <3>8, SameTable
      <3>11. tokens'[j] = "WHERE" /\ tokens'[j + 1] = "identifier" /\ tokens'[j + 2] = "operator"
        BY <1>0, <2>0, <3>1, <3>2, <3>3 DEF Agree
      <3>12. tokens'[j + 3] = k /\ index' = j + 3
        <4>1. j + 3 = index + 1
          BY <1>0, <3>2, <3>3
        <4> QED BY <3>1, <4>1
      <3>13. WhereGrammar(j)'
        BY <2>2, <3>8, <3>9, <3>11, <3>12 DEF WhereGrammar
      <3>14. n.type = "SELECT" => (n.all <=> tokens'[2] = "wildcard")
        BY <1>0, <1>1, <2>0, <2>1, <3>3, <3>8
      <3> QED BY <1>0, <3>1, <3>8, <3>9, <3>10, <3>13, <3>14, AcceptedBehindTable
    <2>3. CASE Fail({})
      BY <2>3, GiveUpKeepsGrammar DEF Fail
    <2> QED BY <2>1, <2>2, <2>3
  <1> QED BY <1>2, <1>3, <1>4, <1>5

LEMMA GrammarNext == Invs /\ [Next]_vars => GrammarInv'
  <1> SUFFICES ASSUME Invs, [Next]_vars PROVE GrammarInv'
    OBVIOUS
  <1>1. CASE Release \/ NextStatement
    BY <1>1, GiveUpKeepsGrammar DEF Release, NextStatement
  <1>2. CASE UNCHANGED vars
    <2> USE <1>2 DEF vars
    <2>1. /\ InBeginning(tokens)' <=> InBeginning(tokens)
          /\ InCreate(tokens)' <=> InCreate(tokens)
          /\ InInsert(tokens)' <=> InInsert(tokens)
          /\ InSelection(tokens)' <=> InSelection(tokens)
          /\ InWhere(tokens)' <=> InWhere(tokens)
      BY DEF InBeginning, InCreate, InInsert, InSelection, InWhere
    <2>2. AcceptedFollowsGrammar' <=> AcceptedFollowsGrammar
      BY DEF AcceptedFollowsGrammar, PrefixGrammar, CreateGrammar, InsertGrammar, SelectGrammar,
             WhereGrammar
    <2> QED BY <2>1, <2>2 DEF Invs, GrammarInv
  <1> QED BY <1>1, <1>2, DispatchKeepsGrammar, ExpectHeadKeepsGrammar, ColumnsKeepGrammar,
             ValuesKeepGrammar, SelectKeepsGrammar, WhereKeepsGrammar DEF Next

(* Whatever statement is accepted, its tokens have the form of its grammar *)
(* and its node holds what they say: one type for each column declared,    *)
(* one value of the right type for each literal, the WHERE clause that is  *)
(* there and no other.                                                     *)
THEOREM AcceptsGrammarOnly == Spec => []AcceptedFollowsGrammar
  <1>1. Init => Invs
    BY MemoryInit, GrammarInit DEF Invs
  <1>2. Invs /\ [Next]_vars => Invs'
    BY MemoryNext, GrammarNext DEF Invs
  <1>3. Invs => AcceptedFollowsGrammar
    BY DEF Invs, GrammarInv
  <1> QED BY <1>1, <1>2, <1>3, PTL DEF Spec
=============================================================================
