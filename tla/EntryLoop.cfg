SPECIFICATION FrameSpec
CONSTANTS
  Programs <- EntryLoop
  RegMap <- aarch64_regmap
  MAX_BACK_EDGE_TRAVERSALS = 32
  STACK_SIZE = 512
  MAX_FRAMES = 2
INVARIANT
  ReturnsWithoutFrame
CHECK_DEADLOCK FALSE
