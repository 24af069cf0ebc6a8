SPECIFICATION FairSpec
CONSTANTS
  a = a
  b = b
  c = c
  Texts <- InPlace
  None = None
  MaxAttempts = 5
  MaxEdits = 4
  MaxFaults = 1
INVARIANTS
  VectorMatchesText
  NothingForgotten
PROPERTIES
  EverythingEmbedded
CHECK_DEADLOCK FALSE
