SPECIFICATION FairSpec
CONSTANTS
    Script <- MCScript
    Worker <- MCWorker
    Http <- MCHttp
    Recall <- MCRecall
    Windows = 2
    MaxRelease = 2
    MaxCall = 3
    MaxRebuild = 1
    MaxBreak = 1
INVARIANTS
  IndexHolds
  QueryReadyIsTrue
PROPERTIES
  ServedUntouched
  SyncSelects
CHECK_DEADLOCK FALSE
