CONSTANTS
  Clients = {"claude", "codex", "cursor", "vibe"}
  Signals = {TERM, HUP}
  MaxHooks = 2
  This = This
  Hooks = {h1}
  Lines = {u1}
  NoLine = NoLine
  MaxEdits = 1
SPECIFICATION Spec
CHECK_DEADLOCK FALSE
INVARIANTS TypeOK SettingsBack ClientServed PostAfterTeardown HooksBracket
PROPERTY KillEnds
