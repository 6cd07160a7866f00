SPECIFICATION Spec
CONSTANTS
  Slots = {s1, s2}
  Cells = {c1, c2, c3, c4}
  MaxShapes = 3
  MaxSets = 1
SYMMETRY PointerSymmetry
INVARIANTS
  TypeOK
  BuffersOwned
  CursorIsAShape
  CursorConverges
  CrashOnlyRaced
\* The server may stop sending, and the process may end.
CHECK_DEADLOCK FALSE
