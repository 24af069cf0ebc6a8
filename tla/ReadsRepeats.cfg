\* Violated: of a paragraph that repeats a piece, the repetition is dropped as the
\* remainder.
SPECIFICATION ReadsSpec
CONSTANTS
  None = None
  Values <- Titles
  PredicateOf <- KindOf
  Exclusive = {"title"}
  Docs = {1, 2, 3}
  Shapes <- Sayings
  Lags = {0, 1}
  GrainSize <- Sizes
  Limit = 2
  SearchLimit = 1
  Registries <- Knowing
  Wordings <- Words
  Scopes <- Filtered
  Questions <- Asked
  Answers <- PlansOfModel
  Horizon = 3
  Chunks = {1, 2, 3}
  Parent <- SectionOf
  Facts = {4}
  Decay <- Recency
  Visible = {1, 2, 3, 4}
  K = 1
  Scale = 12
  Pool = 3
  Limits = {2}
  Scores = {1, 2}
  ItemSize = 2
  Budgets = {3}
  Texts <- Refrains
  WordStarts <- Firsts
  ParentTarget = 6
  ParentMax = 8
  ChildTarget = 3
  ChildMax = 5
  ChildOverlap = 1
  Links <- Web
  ExclusiveTypes = {"x"}
  Sources = {1, 2}
  Walkers = {"u"}
  WalkLimits = {1, 2}
  WalkRows = 3
  Writers = {u, v}
  EdgeLimits = {1}
  EdgeRows = 2
SYMMETRY Symmetry
INVARIANT NothingLost
CHECK_DEADLOCK FALSE
