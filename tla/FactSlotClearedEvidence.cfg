SPECIFICATION Spec
CONSTANTS
  d1 = d1
  d2 = d2
  d3 = d3
  Docs = {d1, d2}
  EventTime <- MCEventTime
  Values = {v1}
  Writers = {p1}
  WriteKinds = {"structured", "clear"}
  Removers = {r1}
  Extractors = {}
  Resolvers = {c1}
  None = None
  MaxClaims = 2
  MaxWrites = 5
  MaxAborts = 0
\* Both are violated: check them one at a time.
INVARIANTS
  ActiveIsBacked
  ActiveIsCurrent
CHECK_DEADLOCK FALSE
