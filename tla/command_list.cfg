\* Every line of up to six characters under tight limits, every list of up to
\* five tokens, and every pipeline of up to two stages.
SPECIFICATION Spec
CHECK_DEADLOCK FALSE
CONSTANTS
  NULL = "NULL"
  Words = {"a", "b"}
  Characters <- KindsOfCharacters
  MaxTokens = 5
  MaxLine = 6
  Limits <- TightLimits
  MaxStages = 2
INVARIANTS
  
  ArgumentsKept
  CharactersKept
  OneBehindAtMost
