CONSTANTS
  a = a
  b = b
  small = small
  reader = reader
  loop = loop
  NoOne = NoOne
  Clients = {a, b}
  Programs = {reader, loop}
  EmptyProgram = reader
  Configs = {small}
  Unparsable = Unparsable
  Crashing = Crashing
  Refused = Refused
  Run <- MyRun
  Rerun <- MyRerun
  StepCounts <- SomeCounts
  MaxSessions = 1
SPECIFICATION FairServerSpec
INVARIANTS ServerTypeOK MutexHeldInside
PROPERTIES ServesAtomically Answered
