SPECIFICATION Spec
CONSTANTS
  Source = {s1, s2}
  Slice = {1, 2, 3}
  Scope <- AllScopes
  Id = {i1, i2}
  CanarySize = 2
  MaxRefresh = 1
SYMMETRY Permuted
INVARIANTS
  StagesGrounded
  PausesHold
  GatesHold
  GrantsOnce
PROPERTIES
  StepsHold
CHECK_DEADLOCK FALSE
