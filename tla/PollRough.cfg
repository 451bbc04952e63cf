SPECIFICATION Spec
CONSTANTS
  Ops = {o1, o2}
  Tokens = {t1, t2}
  NoToken = NoToken
  Kinds = {"connect", "receive", "poll"}
  Times = {0}
  MaxClock = 0
  TicksPerMs = 2
  IntRange = 8
  Handles = {0, 1}
  MaxIntr = 0
  CloseWithPending = TRUE
  Spurious = TRUE
  PollMayFail = TRUE
SYMMETRY Symmetric
INVARIANTS
  ListsSound
  CountMatchesState
PROPERTIES
  ImplementsAsyncOps
