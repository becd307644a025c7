SPECIFICATION FrameSpec
CONSTANTS
  Programs <- WideStoreProgram
  RegMap <- aarch64_regmap
  MAX_BACK_EDGE_TRAVERSALS = 32
  STACK_SIZE = 512
  MAX_FRAMES = 2
INVARIANT
  FrameAccessesStayInFrame
CHECK_DEADLOCK FALSE
