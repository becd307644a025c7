SPECIFICATION RunSpec
CONSTANTS
  Programs <- MCPrograms
  MAX_BACK_EDGE_TRAVERSALS = 32
  STACK_SIZE = 512
INVARIANTS
  TypeOK
  SolutionIsMeetOverPaths
  RejectionsJustified
  QuietSweepIsConsistent
  SweepsFollowBackwardBranches
  RunTypeOK
  OperandsDefined
  FrameAccessesBeginInFrame
  LeavesOnlyPastFinalBranch
PROPERTY
  StatesOnlyShrink
\* A rejected program, and one that has halted, stop.
CHECK_DEADLOCK FALSE
