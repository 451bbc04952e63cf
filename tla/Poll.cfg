SPECIFICATION FairSpec
CONSTANTS
  Ops = {o1, o2}
  Tokens = {t1}
  NoToken = NoToken
  Kinds = {"accept", "receive", "timer", "task"}
  Times = {3, 4}
  MaxClock = 5
  TicksPerMs = 2
  IntRange = 8
  Handles = {0, 1}
  MaxIntr = 1
  CloseWithPending = FALSE
  Spurious = FALSE
  PollMayFail = FALSE
INVARIANTS
  QueuedSocketLive
  NothingLost
  SleepBounds
PROPERTIES
  TimersFireInOrder
  RunFinishesAll
  EventuallyCompletes
