SPECIFICATION FrameSpec
CONSTANTS
  Programs <- MCPrograms
  RegMap <- aarch64_regmap
  MAX_BACK_EDGE_TRAVERSALS = 32
  STACK_SIZE = 512
  MAX_FRAMES = 2
INVARIANTS
  LoweringTypeOK
  BranchesReachTheirTarget
  BlockCountsAgree
  AccessesBeginInFrame
  BodyRunsInOneFrame
  ReturnRestoresCaller
  ValuesSurviveCalls
  OperandsHoldTheirValues
PROPERTY
  ImplementsVerifiedRun
\* A rejected program stops, and so does one that has returned.
CHECK_DEADLOCK FALSE
