\* violated: a read ignores its address (sd.h 32)
SPECIFICATION Spec
CONSTANTS
  NUM_ATTEMPTS = 2
  MAX_READ = 5
  MAX_WRITE = 5
  BLOCK_LEN = 2
  R1Tries = 1
  U8 = 4
  Kinds = {"v2", "v1", "late", "low", "none"}
  Delays = {0, 1}
  IdleAfter = {1, 2, 3, 4}
  ReadyAfter = {1, 3, 4}
  Blocks <- Held
  Written <- ToWrite
  MaxCalls = 3
  MaxFaults = 1
INVARIANTS
  ReadsAddressed
CHECK_DEADLOCK FALSE
