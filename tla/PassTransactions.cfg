SPECIFICATION FairSpec
CONSTANTS
    NumTasks = 3
    FirstSlices <- MCSlices
    Trial <- MCTrial
    SkipOp = {"s1", "s2"}
    MaxAmendments = 2
    MaxCommands = 2
    MaxCrashes = 1
INVARIANTS
  StoppedWhilePending
  SkipsHold
  WorkOwnedOnce
PROPERTIES
  OutcomesStay
  TransactionsEnd
CHECK_DEADLOCK FALSE
