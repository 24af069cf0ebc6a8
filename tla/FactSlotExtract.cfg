SPECIFICATION FairSpec
CONSTANTS
  d1 = d1
  d2 = d2
  d3 = d3
  Docs = {d1, d2, d3}
  EventTime <- MCEventTime
  Values = {v1, v2}
  Writers = {}
  WriteKinds = {}
  Removers = {}
  Extractors = {e1, e2}
  Resolvers = {c1}
  None = None
  MaxClaims = 4
  MaxWrites = 0
  MaxAborts = 1
INVARIANTS
  ConflictNoticed
PROPERTIES
  SupersededIsFinal
  ConflictsAreResolved
CHECK_DEADLOCK FALSE
