CONSTANTS
  s1 = s1
  s2 = s2
  c1 = c1
  Source <- MCSource
  Id <- MCId
  Slice <- MCOneSlice
  Scope <- MCChain
  CanarySize = 1
  MaxRefresh = 0
  MaxAttempts = 2
  MaxStop = 0
  MaxCrash = 1
  MaxLate = 0
SPECIFICATION FairControlSpec
INVARIANTS
  CardsTruthful
PROPERTIES
  ComesToRest
  ResultsAcknowledged
