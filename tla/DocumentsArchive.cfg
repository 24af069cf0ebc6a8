SPECIFICATION FairSpec
CONSTANTS
  x = x
  y = y
  open = open
  shut = shut
  Ingesters = {p1, p2}
  Envelopes <- Revived
  Known <- Nothing
  Texts = {x, y}
  Acls = {open, shut}
  None = None
  MaxDeliveries = 1
  MaxFaults = 2
INVARIANTS
  EveryDocumentArchived
PROPERTIES
  AnsweredUnlessBlocked
CHECK_DEADLOCK FALSE
