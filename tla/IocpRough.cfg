SPECIFICATION Spec
CONSTANTS
  Ops = {o1, o2, o3}
  Tokens = {t1}
  NoToken = NoToken
  Kinds = {"accept", "receive", "poll"}
  Times = {0}
  MaxClock = 0
  TicksPerMs = 1
  MaxWait = 4
  CloseWithPending = TRUE
  WaitMayFail = TRUE
  Handles = {0, 1}
SYMMETRY Symmetric
INVARIANTS
  AccountsExact
PROPERTIES
  BlocksFreedByCompletions
