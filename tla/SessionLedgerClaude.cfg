CONSTANTS
  Runs = {r1, r2}
  Deleters = {d1}
  Jobs = {j1}
  Clients = {"claude"}
  Tags = {}
  NewJobTags = {}
  NoConv = NoConv
  MaxCalls = 1
  MaxCost = 1
SPECIFICATION Spec
SYMMETRY Symmetry
CHECK_DEADLOCK FALSE
INVARIANTS TypeOK UniqueIds SessionsListed OwnUsage OwnFiles
