SPECIFICATION Spec
CONSTANTS
  Ops = {o1, o2}
  Tokens = {t1}
  NoToken = NoToken
  Kinds = {"io", "timer"}
  QueueDepth = 2
  PartialSubmit = TRUE
  SubmitMayFail = FALSE
  CloseWithPending = FALSE
  StartAfterStop = FALSE
  Handles = {0}
INVARIANTS
  TimespecOutlivesEntry
