SPECIFICATION Spec
CONSTANTS
  x = x
  y = y
  open = open
  shut = shut
  Ingesters = {p1}
  Envelopes <- History
  Known <- Nothing
  Texts = {x, y}
  Acls = {open, shut}
  None = None
  MaxDeliveries = 2
  MaxFaults = 0
INVARIANTS
  TextIsNewest
  PermissionChangesInOrder
  ChunksFollowDocument
CHECK_DEADLOCK FALSE
