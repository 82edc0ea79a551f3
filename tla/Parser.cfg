CONSTANT MaxTokens = 13
SPECIFICATION Spec
INVARIANTS
  TypeOK
  ReadsInsideStatement
  FreesWhatItAllocates
  AcceptedFollowsGrammar
