\* Every property here is violated: check them one at a time.
SPECIFICATION FairSpec
CONSTANTS
  x = x
  y = y
  open = open
  shut = shut
  Ingesters = {p1, p2}
  Envelopes <- Confirmed
  Known <- Shut
  Texts = {x, y}
  Acls = {open, shut}
  None = None
  MaxDeliveries = 2
  MaxFaults = 1
INVARIANTS
  TextIsNewest
  ChunksFollowDocument
  AclIsNewest
  NewestDecides
  EveryDocumentArchived
PROPERTIES
  RequestsReturn
CHECK_DEADLOCK FALSE
