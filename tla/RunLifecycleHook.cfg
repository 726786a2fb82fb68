CONSTANTS
  Clients = {"claude", "codex", "cursor", "vibe"}
  Signals = {TERM, HUP}
  MaxHooks = 1
  This = This
  Hooks = {h1}
  Lines = {u1}
  NoLine = NoLine
  MaxEdits = 0
SPECIFICATION Spec
SYMMETRY Symmetry
CHECK_DEADLOCK FALSE
INVARIANT NeverLeavesHook
