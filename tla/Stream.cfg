SPECIFICATION StreamFairSpec
CONSTANTS
  Inputs <- Requests
  Chunks = {1, 2, 3}
  BufferSize = 5
INVARIANTS
  FieldsExact
  RoomToReceive
PROPERTIES
  ReaderReturns
CHECK_DEADLOCK FALSE
