SPECIFICATION Spec
CONSTANTS
  a = a
  b = b
  c = c
  Texts <- Inserted
  None = None
  MaxAttempts = 2
  MaxEdits = 4
  MaxFaults = 0
INVARIANT VectorMatchesText
CHECK_DEADLOCK FALSE
