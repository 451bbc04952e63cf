SPECIFICATION FairSpec
CONSTANTS
  Ops = {o1, o2}
  Tokens = {t1}
  NoToken = NoToken
  Kinds = {"accept", "io", "timer", "task"}
  QueueDepth = 1
  PartialSubmit = FALSE
  SubmitMayFail = TRUE
  CloseWithPending = FALSE
  StartAfterStop = TRUE
  Handles = {0, 1}
INVARIANTS
  PointersValid
  CountersExact
PROPERTIES
  SubmitsOwnDescriptor
  ImplementsAsyncOps
  StopCompletes
