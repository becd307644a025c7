SPECIFICATION RunSpec
CONSTANTS
  Programs <- UndefinedUsePrograms
  MAX_BACK_EDGE_TRAVERSALS = 32
  STACK_SIZE = 512
INVARIANT
  UsedRegistersDefined
CHECK_DEADLOCK FALSE
