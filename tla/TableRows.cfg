CONSTANTS
  Values = {a, b}
  NoValue = zero
  RowsPerPage = 2
  MaxPages = 2
  MaxRows = 3
  MaxId = 3
  Faults = TRUE
SPECIFICATION Spec
INVARIANTS IInv FinalFlushHasPage IdsUnique SavedInFile
PROPERTIES NoCollateralLoss RefinesRowSet
SYMMETRY ValueSymmetry
