CONSTANTS
  Runs = {r1, r2}
  Deleters = {d1}
  Jobs = {j1}
  Clients = {"codex"}
  Tags = {t1}
  NewJobTags = {t1}
  NoConv = NoConv
  MaxCalls = 1
  MaxCost = 1
SPECIFICATION Spec
SYMMETRY Symmetry
CHECK_DEADLOCK FALSE
INVARIANTS OwnTags OwnConversation
