SPECIFICATION Spec
CONSTANTS
  TableNames = {"t", "long"}
  LongTables = {"long"}
  ColumnLists <- SmallLists
  InsertValues <- SmallValues
  Wheres <- SmallWheres
  SelectLists <- SmallSelects
  TextLength <- SmallLengths
  TextRoom = 2
  IntHalf = 2
  PageSize = 19
  MaxPages = 2
  MaxRows = 3
  MaxId = 4
INVARIANT TypeOK
INVARIANT FittingRowsIntact
INVARIANT SelectsWhatItSays
INVARIANT DeletesWhatItSays
INVARIANT FaultsExplained
INVARIANT NamesMeanTheirColumn
CHECK_DEADLOCK FALSE
