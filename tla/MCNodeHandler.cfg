SPECIFICATION NodeSpec
CONSTANTS
  Limit = 1
  MaxUpload = 3
  MaxReply = 3
INVARIANT NodeInv SignalTells
PROPERTIES Ends
CHECK_DEADLOCK FALSE
