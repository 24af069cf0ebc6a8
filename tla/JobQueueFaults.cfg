SPECIFICATION Spec
CONSTANTS
  Keys = {"extract", "push"}
  Workers = {w1, w2}
  Producers = {p1, p2}
  Admins = {a1}
  None = None
  Follow <- MCFollow
  Refire <- MCRefire
  Debounced = {"push"}
  Poison = {"extract"}
  MaxAttempts = 2
  MaxJobs = 4
  MaxTxns = 2
  MaxCrashes = 1
  MaxAdminOps = 1
  MaxPasses = 1
SYMMETRY Symmetric
INVARIANTS
  OneRunnerPerKey
  NoLostRequest
  DeadOnlyWhenExhausted
PROPERTIES
  ImplementsKeyedWork
CHECK_DEADLOCK FALSE
