SPECIFICATION Spec
CONSTANTS
  Parts = {"spend", "windows", "retention", "proposals", "memory"}
  None = None
  Calls = {"plain", "embed", "window"}
  Kind <- MCKind
  Limit = 4
  Estimate = 2
  Tokens = {1, 3}
  MaxTries = 2
  LastMonth = 2
  Texts <- MCTexts
  Target = 2
  Overlap = 1
  Structured = {1}
  MaxAttempts = 2
  MaxEdits = 3
  People = {"p", "q"}
  SourceOf <- MCSourceOf
  Batch = 1
  MaxVersions = 2
  Slots = {"s", "t"}
  Claims = {1, 2, 3}
  SlotOf <- MCSlotOf
  Writers = {"job", "agent"}
  By <- MCBy
  Weak = {}
  Evidence <- MCEvidence
  Docs = {"d"}
  Page = 2
  Keys = {"k"}
  Requests = {1, 2}
  MaxMemories = 3
  MaxRows = 2
INVARIANTS
  TypeOK
  WithinLimit
  FactsOfText
  NothingUntold
  LastIsRecalled
PROPERTIES
  HeldIsKept
CHECK_DEADLOCK FALSE
