CONSTANTS
  BYTE_MOD = 4
  NUM_REGS = 4
  BP_BUFFER_SIZE = 16
  COUNTER_MOD = 16
  Alu <- Arithmetic
  Programs <- ShortPrograms
  Configs <- EverySetting
SPECIFICATION ObservedSpec
INVARIANTS TypeOK Scoreboard BranchStallHasOwner AnomaliesNeedFeatures
PROPERTIES NoOverwrite RefinesIsa
