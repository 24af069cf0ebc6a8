\* Both are violated: check them one at a time.
SPECIFICATION FairSpec
CONSTANTS
  Keys = {"extract", "push"}
  Workers = {w1}
  Producers = {p1}
  Admins = {a1}
  None = None
  Follow <- MCFollow
  Refire <- MCRefire
  Debounced = {}
  Poison = {"push"}
  MaxAttempts = 2
  MaxJobs = 3
  MaxTxns = 2
  MaxCrashes = 0
  MaxAdminOps = 1
  MaxPasses = 0
PROPERTIES
  RequestsSettle
  DoneIsFinal
CHECK_DEADLOCK FALSE
