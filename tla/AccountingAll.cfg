SPECIFICATION Spec
CONSTANTS
  None = None
  Plays <- MCPlays
  MaxExchanges = 4
  MaxPrompts = 2
  MaxCuts = 2
CHECK_DEADLOCK FALSE
INVARIANTS
  UsageAsSaid
  AgentsOnce
  ReportsAgree
