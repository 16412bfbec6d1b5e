SPECIFICATION FairSpec
CONSTANTS
  Requests = {r1, r2}
  Tokens = {t1, t2}
  None = None
  HasRefresh = TRUE
  StorageFails = TRUE
  MaxCalls = 1
INVARIANTS MirrorLeads StaysSignedOut
PROPERTIES ReplayUnderRenewal FetchSettles
CHECK_DEADLOCK FALSE
