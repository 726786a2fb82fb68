CONSTANTS
  Runs = {r1, r2, r3}
  Deleters = {}
  Jobs = {j1}
  Clients = {"claude", "codex"}
  Tags = {}
  NewJobTags = {}
  NoConv = NoConv
  MaxCalls = 0
  MaxCost = 0
SPECIFICATION Spec
CHECK_DEADLOCK FALSE
INVARIANT IdsNotShared
PROPERTY AllocatesIds
