SPECIFICATION Spec
CONSTANTS
  Configs <- AllConfigs
  Gates = 2
  Guards = 2
  Hooks = 1
  Decorators = 2
INVARIANTS Inv Cleared DeclaredReplies
PROPERTIES AnsweredOnce Answered
CHECK_DEADLOCK FALSE
