SPECIFICATION Spec
CONSTANTS
  Sessions <- TwoJobs
  Ledgers <- Found
  Versions = {v1, v2}
  Raws <- SomeRaws
  HandEdits <- ByHand
  MaxEdits = 1
  Listed = {row}
  Names = {"b"}
  MaxTyped = 1
  None = None
PROPERTIES
  DeletesAsShown
CHECK_DEADLOCK FALSE
