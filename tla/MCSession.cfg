CONSTANTS
  BYTE_MOD = 4
  NUM_REGS = 4
  BP_BUFFER_SIZE = 16
  COUNTER_MOD = 16
  Alu <- Arithmetic
  Programs <- SessionPrograms
  Configs <- SessionSettings
  StepCounts <- SomeCounts
  MaxRequests = 5
  MaxCycles = 32
SPECIFICATION PromiseSpec
INVARIANTS SessionTypeOK InstructionsAccounted AccuracyInRange ReportsComplete AsNew
PROPERTIES PanicFreezes
