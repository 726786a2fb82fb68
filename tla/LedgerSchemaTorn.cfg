SPECIFICATION SchemaSpec
CONSTANTS
  Procs = {p1, p2}
  FoundVersions = {1, 8}
INVARIANTS
  UpgradeRepeatable
CHECK_DEADLOCK FALSE
