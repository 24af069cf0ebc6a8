\* Every property here is violated: check them one at a time.
SPECIFICATION Spec
CONSTANTS
  d1 = d1
  d2 = d2
  d3 = d3
  Docs = {d1, d2}
  EventTime <- MCEventTime
  Values = {v1, v2}
  Writers = {p1, p2}
  WriteKinds = {"structured", "agent"}
  Removers = {r1, r2}
  Extractors = {}
  Resolvers = {c1}
  None = None
  MaxClaims = 3
  MaxWrites = 4
  MaxAborts = 0
INVARIANTS
  ConflictNoticed
  ActiveIsBacked
PROPERTIES
  SupersededIsFinal
CHECK_DEADLOCK FALSE
