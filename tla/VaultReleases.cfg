SPECIFICATION Spec
CONSTANTS
  Page = {p1, p2}
  Path = {a, b}
  Run = {1, 2, 3}
  Release = {v1, v2}
  NoRelease = NoRelease
  MaxCrashes = 1
SYMMETRY Permuted
INVARIANTS
  TypeOK
  CommittedOnce
  RedirectsLeadOn
  RetriesSucceed
PROPERTIES
  OnlyOwnReplaced
CHECK_DEADLOCK FALSE
