SPECIFICATION FairSpec
CONSTANTS
  Keys = {"extract", "push"}
  Workers = {w1}
  Producers = {p1, p2}
  Admins = {a1}
  None = None
  Follow <- MCFollow
  Refire <- MCRefire
  Debounced = {"push"}
  Poison = {}
  MaxAttempts = 2
  MaxJobs = 8
  MaxTxns = 2
  MaxCrashes = 0
  MaxAdminOps = 0
  MaxPasses = 0
INVARIANTS
  IInv
PROPERTIES
  RequestsSettle
  RequestsReturn
CHECK_DEADLOCK FALSE
