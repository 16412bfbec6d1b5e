SPECIFICATION FairSpec
CONSTANTS
  Calls = {c1, c2}
  None = None
  ThrowingHooks = {"onReload", "onReloadError"}
  MaxEdits = 1
INVARIANTS Inv SeesItsChanges ServesNewest
PROPERTIES ReloadsSettle
CHECK_DEADLOCK FALSE
