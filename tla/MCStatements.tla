---------------------------- MODULE MCStatements ----------------------------
(* The instance of Statements for TLC: one table and a name too long for     *)
(* one, one to three rows to a page, texts up to two characters longer than  *)
(* their slot has room for.                                                  *)
EXTENDS Statements

Short(head) == [head |-> head, full |-> FALSE, tail |-> ""]
Long(head, tail) == [head |-> head, full |-> TRUE, tail |-> tail]
Col(name, type) == [name |-> name, type |-> type]

AnInt(v) == [type |-> "INT", v |-> v]
AText(v) == [type |-> "TEXT", v |-> v]
AReal(v) == [type |-> "REAL", v |-> v]
ABool(v) == [type |-> "BOOL", v |-> v]

SmallLengths == <<0, 1, 2, 4>>

SmallLists == {
  <<Col(Short("a"), "TEXT"), Col(Short("b"), "INT")>>,
  <<Col(Long("h", "x"), "INT"), Col(Long("h", ""), "INT")>>,
  <<Col(Long("h", ""), "REAL"), Col(Short("a"), "BOOL"), Col(Short("b"), "TEXT")>>,
  <<Col(Long("h", "x"), "UNKNOWN")>>,
  <<Col(Short("a"), "INT"), Col(Short("b"), "INT"), Col(Short("a"), "INT")>>}

SmallValues == {
  <<AText(1), AnInt(-1)>>, <<AText(2), AnInt(1)>>, <<AText(3), AnInt(0)>>, <<AText(4), AnInt(1)>>,
  <<AText(4), AnInt(0)>>, <<AText(1), AnInt(0)>>,
  <<AnInt(1), AnInt(-2)>>, <<AnInt(0), AnInt(1)>>,
  <<AReal(-1), ABool(1), AText(2)>>, <<AReal(1), ABool(0), AText(3)>>, <<AnInt(0)>>}

Where(name, op, value) == [column |-> name, op |-> op, value |-> value]

SmallWheres == {
  Where(Short("a"), "none", AnInt(0)),
  Where(Short("a"), "=", AText(2)), Where(Short("a"), "<", AText(2)), Where(Short("a"), "=", ABool(1)),
  Where(Short("b"), "<", AnInt(0)), Where(Short("b"), ">", AnInt(0)), Where(Short("b"), "=", AText(3)),
  Where(Long("h", ""), "<", AReal(1)), Where(Long("h", ""), "=", AnInt(1)),
  Where(Long("h", "x"), "<", AnInt(1)), Where(Short("c"), "=", AnInt(0))}

SmallSelects == {<<Short("b"), Short("a"), Short("b")>>, <<Long("h", "")>>, <<Short("c")>>}
=============================================================================
