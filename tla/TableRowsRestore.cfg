CONSTANTS
  Values = {a}
  NoValue = zero
  RowsPerPage = 2
  MaxPages = 2
  MaxRows = 4
  MaxId = 4
  Faults = FALSE
SPECIFICATION FairSpec
PROPERTIES CloseThenRestore
