SPECIFICATION Spec
CONSTANTS
  Calls = {c1, c2, c3}
  None = None
  ThrowingHooks = {}
  MaxEdits = 0
INVARIANTS NeverOverlap
CHECK_DEADLOCK FALSE
