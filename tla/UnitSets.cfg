CONSTANTS
  p1 = p1
  p2 = p2
  p3 = p3
  a1 = a1
  a2 = a2
  Process <- MCProcess
  Artifact <- MCArtifact
  Config = {"old", "new"}
  MaxRevision = 3
  MaxDeath = 2
SPECIFICATION Spec
SYMMETRY Permuted
INVARIANTS
  PointersResolve
  OrphansComplete
PROPERTIES
  NeverCurrentAgain
CHECK_DEADLOCK FALSE
