SPECIFICATION Spec
CONSTANTS
  d1 = d1
  d2 = d2
  d3 = d3
  Docs = {d1, d2, d3}
  EventTime <- MCEventTime
  Values = {v1, v2}
  Writers = {p1, p2}
  WriteKinds = {"structured"}
  Removers = {r1}
  Extractors = {}
  Resolvers = {c1}
  None = None
  MaxClaims = 4
  MaxWrites = 5
  MaxAborts = 0
SYMMETRY Symmetric
INVARIANTS
  TypeOK
  ActiveIsBacked
CHECK_DEADLOCK FALSE
