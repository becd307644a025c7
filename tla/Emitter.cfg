SPECIFICATION EmitSpec
CONSTANTS
  Programs <- EmitPrograms
  RegMap <- riscv64_regmap
  MAX_BACK_EDGE_TRAVERSALS = 32
  STACK_SIZE = 512
  CondReach <- ShortCond
  JumpReach <- ShortJump
INVARIANTS
  EmitTypeOK
  BranchesLandOnTheirBlock
  RefusedOnlyOutOfReach
  DryRunBoundsCode
\* Rejected, refused and finished programs stop.
CHECK_DEADLOCK FALSE
