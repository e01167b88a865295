SPECIFICATION Spec
CONSTANTS
  Slice = {1, 2, 3}
  Original = {1}
  Task = {"a", "b"}
  TaskOf <- TaskOf1
  Replacement <- Replacement1
  Oversize = {}
  Worker = {w1, w2}
  None = None
  MaxAttempts = 2
  Concurrency = 1
  MaxCapacity = 2
  LeaseTicks = 2
  Backoff <- MCBackoff
  LockWait = 1
  MaxResumes = 0
  MaxCrashes = 1
INVARIANTS
  TypeOK
  LeasesHold
  AttemptsHold
  NoTaskWorkedTwice
PROPERTIES
  KeepsContract
CHECK_DEADLOCK FALSE
