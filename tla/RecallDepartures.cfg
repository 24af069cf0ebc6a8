\* Every property here is violated: check them one at a time.
SPECIFICATION Spec
CONSTANTS
  None = None
  Values <- Titles
  PredicateOf <- KindOf
  Exclusive = {"title"}
  Docs = {1, 2, 3}
  Shapes <- Sayings
  Lags = {0, 1}
  GrainSize <- Sizes
  Limit = 2
  SearchLimit = 1
  Registries <- Knowing
  Wordings <- Words
  Scopes <- Filtered
  Questions <- Asked
  Answers <- PlansOfModel
  Horizon = 3
INVARIANTS
  BeliefAlwaysReplays
  OneValueAtAnyPoint
  StaysReadable
  ChannelsEqual
  AxisHonoured
PROPERTIES
  MergeKeepsWindow
  NeverReopened
CHECK_DEADLOCK FALSE
