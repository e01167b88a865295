SPECIFICATION FairSpec
CONSTANTS
  Slice = {1, 2, 3}
  Original = {1}
  Task = {"a", "b"}
  TaskOf <- TaskOf1
  Replacement <- Replacement1
  Oversize = {}
  Worker = {w1}
  None = None
  MaxAttempts = 2
  Concurrency = 1
  MaxCapacity = 2
  LeaseTicks = 1
  Backoff <- MCBackoff
  LockWait = 0
  MaxResumes = 1
  MaxCrashes = 0
INVARIANTS
  NoTaskDropped
PROPERTIES
  ComesToRest
CHECK_DEADLOCK FALSE
