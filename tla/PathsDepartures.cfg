\* Both are violated: check them one at a time.
SPECIFICATION Spec
CONSTANTS
  Links <- Web
  Exclusive = {"x"}
  Docs = {1, 2}
  Writers = {u, v}
  Limits = {1}
  MaxRows = 3
INVARIANT NoTwinEdges
PROPERTY EvidenceKept
CHECK_DEADLOCK FALSE
