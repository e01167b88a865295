SPECIFICATION FairSpec
CONSTANTS
  Page = {p1, p2}
  Thread = {t1, t2}
  Lead = t1
  NoRequest = NoRequest
  MaxStops = 1
  MaxAdmissions = 2
  MaxCrashes = 1
INVARIANTS
  SentAgainOnlyAfterFailure
  BudgetHolds
  SettledTruthfully
PROPERTIES
  SavedSettle
CHECK_DEADLOCK FALSE
