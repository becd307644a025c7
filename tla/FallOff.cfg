SPECIFICATION RunSpec
CONSTANTS
  Programs <- FallOffProgram
  MAX_BACK_EDGE_TRAVERSALS = 32
  STACK_SIZE = 512
INVARIANT
  ControlStaysInProgram
CHECK_DEADLOCK FALSE
