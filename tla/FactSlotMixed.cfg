SPECIFICATION Spec
CONSTANTS
  d1 = d1
  d2 = d2
  d3 = d3
  Docs = {d1, d2}
  EventTime <- MCEventTime
  Values = {v1, v2}
  Writers = {p1}
  WriteKinds = {"structured", "agent", "clear"}
  Removers = {r1}
  Extractors = {e1}
  Resolvers = {c1}
  None = None
  MaxClaims = 4
  MaxWrites = 2
  MaxAborts = 0
SYMMETRY Symmetric
PROPERTIES
  SupersededByStronger
CHECK_DEADLOCK FALSE
