CONSTANTS
  Alphabet <- LineAlphabet
  MaxLength = 6
  InitialCapacity = 2
  AllocFails = TRUE
SPECIFICATION FairSpec
INVARIANTS TypeOK AccessesInside NothingLeaks ParserMayRely
INVARIANT TokensTellTheLine
PROPERTIES LineEnds
