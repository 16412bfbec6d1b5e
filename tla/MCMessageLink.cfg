SPECIFICATION Spec
CONSTANTS
  Errors = {reset}
  NoError = NoError
  MaxDown = 2
  MaxUp = 1
  MaxReads = 1
INVARIANTS Inv ViolationsClose CloseKeepsFrames
PROPERTIES CloseReachesBoth
CHECK_DEADLOCK FALSE
