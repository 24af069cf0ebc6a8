SPECIFICATION Spec
CONSTANTS
  d1 = d1
  d2 = d2
  d3 = d3
  Docs = {d1}
  EventTime <- MCEventTime
  Values = {v1}
  Writers = {}
  WriteKinds = {}
  Removers = {r1}
  Extractors = {e1}
  Resolvers = {c1}
  None = None
  MaxClaims = 2
  MaxWrites = 1
  MaxAborts = 0
INVARIANTS
  ActiveIsBacked
CHECK_DEADLOCK FALSE
