SPECIFICATION FairSpec
CONSTANTS
  Ops = {o1, o2}
  Tokens = {t1}
  NoToken = NoToken
  Kinds = {"accept", "receive", "timer", "task"}
  Times = {2, 5}
  MaxClock = 5
  TicksPerMs = 2
  MaxWait = 1
  CloseWithPending = FALSE
  WaitMayFail = FALSE
  Handles = {0, 1}
INVARIANTS
  LookupsSucceed
PROPERTIES
  RunReturns
  ImplementsAsyncOps
  StopCompletes
