SPECIFICATION FairSpec
CONSTANTS
  Requests = {r1, r2, r3}
  Paused = {r1}
  Programs <- AllPrograms
  None = None
INVARIANTS
  LimitSound
  OwnResults
PROPERTIES
  ProgramEnds
CHECK_DEADLOCK FALSE
