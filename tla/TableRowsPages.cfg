CONSTANTS
  Values = {a, b}
  NoValue = zero
  RowsPerPage = 1
  MaxPages = 2
  MaxRows = 3
  MaxId = 3
  Faults = FALSE
SPECIFICATION FairSpec
PROPERTY DeleteTerminates
