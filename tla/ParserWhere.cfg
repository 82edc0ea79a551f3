CONSTANT MaxTokens = 9
SPECIFICATION Spec
INVARIANT NoWhereMeansEnd
