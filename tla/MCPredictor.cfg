CONSTANTS
  BP_BUFFER_SIZE = 16
  COUNTER_MOD = 8
  Pcs <- MCPcs
  Targets <- MCTargets
  NBits <- MCNBits
  MAX_STREAK = 8
SPECIFICATION Spec
INVARIANTS TypeOK TargetOfLastResolution TrainedByStreak UpdateSound
PROPERTY Hysteresis
