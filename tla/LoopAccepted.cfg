SPECIFICATION FairRunSpec
CONSTANTS
  Programs <- LoopProgram
  MAX_BACK_EDGE_TRAVERSALS = 32
  STACK_SIZE = 512
PROPERTY
  AcceptedProgramsTerminate
CHECK_DEADLOCK FALSE
