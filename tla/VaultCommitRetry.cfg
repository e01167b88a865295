SPECIFICATION Spec
CONSTANTS
  Page = {p1}
  Path = {a, b}
  Run = {1, 2}
  Release = {v1}
  NoRelease = NoRelease
  MaxCrashes = 1
SYMMETRY Permuted
INVARIANTS
  InterruptedCommitRetries
CHECK_DEADLOCK FALSE
