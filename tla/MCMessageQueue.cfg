SPECIFICATION Spec
CONSTANTS
  Values = {m1, m2}
  Errors = {reset}
  NoError = NoError
  MaxSent = 4
  MaxAsked = 4
INVARIANTS IInv
PROPERTIES StreamSpec
CHECK_DEADLOCK FALSE
