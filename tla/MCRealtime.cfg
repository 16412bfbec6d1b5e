SPECIFICATION RealtimeSpec
CONSTANTS
  Order <- DefaultOrder
  Errors = {reset}
  NoError = NoError
  MaxFrames = 3
  MaxAsked = 4
INVARIANTS RealtimeInv
PROPERTIES Settles ConsumersReleased
CHECK_DEADLOCK FALSE
