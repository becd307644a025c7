SPECIFICATION BufferSpec
CONSTANTS
  owner = owner
  runner = runner
  Threads = {owner, runner}
  Owner = owner
  Codes <- MCCodes
  Length <- MCLength
  FallsOff = {"empty", "page"}
  MAX_JIT_BUFFER_SIZE = 4
  GUARD_PAGE_SIZE = 2
INVARIANTS
  ExecutesWhatWasWritten
  LeavesOnlyByFallingOff
  ModesNeverFault
\* A dropped buffer, or one that was never mapped, is the end.
CHECK_DEADLOCK FALSE
