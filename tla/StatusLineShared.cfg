CONSTANTS
  Runs = {r1, r2, r3}
  Hooks = {h1}
  Lines = {u1}
  NoLine = NoLine
  MaxEdits = 1
SPECIFICATION Spec
SYMMETRY Symmetry
CHECK_DEADLOCK FALSE
INVARIANTS TypeOK LineBack RestKept
PROPERTY UnreadableKept
