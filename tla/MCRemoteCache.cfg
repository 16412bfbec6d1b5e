SPECIFICATION Spec
CONSTANTS
  Calls = {c1, c2, c3, c4}
  Locations = {l1}
  Scopes = {s1, s2, s3}
  None = None
  MaxEntries = 2
  TTL = 2
  MaxTime = 2
  MaxFetches = 3
  Turning = {1}
  MaxClears = 1
INVARIANTS Isolated Inv
PROPERTIES EvictsOldest ServesFresh
SYMMETRY Symmetric
CHECK_DEADLOCK FALSE
