CONSTANTS
  BYTE_MOD = 4
  NUM_REGS = 4
  BP_BUFFER_SIZE = 16
  COUNTER_MOD = 16
  Alu <- Arithmetic
  Programs <- TightLoop
  Configs <- Predicting
SPECIFICATION ObservedSpec
INVARIANT FlushGoesToOutcome
