CONSTANTS
  k1 = k1
  k2 = k2
  k3 = k3
  k4 = k4
  k5 = k5
  NoTable = none
  InitialCapacity = 2
  HashOf <- HashValues
  Keys = {k1, k2, k3, k4, k5}
  Values = {t, u}
SPECIFICATION Spec
INVARIANTS TypeOK MapWellPlaced SizeIsCount NothingLostInResize
INVARIANTS LoopsMeetClosedForms IterationReturnsOthers
PROPERTY ImplementsTableMap
