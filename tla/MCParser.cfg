CONSTANTS
  BYTE_MOD = 4
  NUM_REGS = 4
  Alu <- Arithmetic
  Sources <- AllSources
  RegFiles <- SomeRegisters
SPECIFICATION Spec
INVARIANTS TypeOK LabelsResolve AcceptsWellFormed PseudoMeaning FeedsPipeline PanicsExplained
