CONSTANTS
  s1 = s1
  s2 = s2
  c1 = c1
  Source <- MCSource
  Id <- MCId
  Slice <- MCTwoSlices
  Scope <- MCCanary
  CanarySize = 1
  MaxRefresh = 0
  MaxAttempts = 2
  MaxStop = 2
  MaxCrash = 2
  MaxLate = 1
SPECIFICATION ControlSpec
INVARIANTS
  OneWorkerPerNode
PROPERTIES
  NeverOfferedAgain
