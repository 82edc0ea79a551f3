CONSTANTS
  a = a
  b = b
  c = c
  NoName = empty
  NoRow = zero
  Torn = torn
  Uncached = null
  Capacity = 3
  MaxTables = 2
  RowsPerPage = 2
  MaxRows = 2
  MaxId = 2
  Names = {a, b}
  DataPages = 4
  MaxStatements = 6
  HashOf <- FlatHash
  Faults = FALSE
SPECIFICATION Spec
INVARIANTS RowsSurviveClose
