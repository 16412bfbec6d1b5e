SPECIFICATION Spec
CONSTANTS
  a = a
  b = b
  c = c
  Calls <- MCCalls
  MaxRevoked = 1
INVARIANTS ReplayUnderRenewal
PROPERTIES FlightSpec CallsSettle
CHECK_DEADLOCK FALSE
