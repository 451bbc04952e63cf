SPECIFICATION FairSpec
CONSTANTS
  N = 4
  Timers = {2, 4}
  None = None
INVARIANTS
  NoUseAfterCompletion
PROPERTIES
  ImplementsFirstWins
  FirstLeadsToOutcome
CHECK_DEADLOCK FALSE
