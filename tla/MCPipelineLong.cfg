CONSTANTS
  BYTE_MOD = 4
  NUM_REGS = 4
  BP_BUFFER_SIZE = 8
  COUNTER_MOD = 16
  Alu <- Arithmetic
  Programs <- LongPrograms
  Configs <- LongSettings
SPECIFICATION FairObservedSpec
INVARIANTS Scoreboard
PROPERTIES RefinesIsa Progress
