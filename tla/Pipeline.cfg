SPECIFICATION PipelineSpec
CONSTANTS
  Programs <- Nothing
  RawPrograms <- MCRawPrograms
  MAX_INSNS = 8
  max_insns = 7
  InitRegs <- MCInitRegs
  DstRegs <- MCDstRegs
  MAX_BACK_EDGE_TRAVERSALS = 32
  STACK_SIZE = 512
INVARIANTS
  DecodesToInsns
  FirstFaultReported
  BranchesShiftByWideLoads
  GeneratedRejectedOnlyForUninit
PROPERTY
  EveryProgramIsJudged
\* A program that is refused, or has a verdict, is done.
CHECK_DEADLOCK FALSE
