SPECIFICATION SocketsSpec
CONSTANTS
  Handles = {3, 4, 5}
  MaxLive = 3
  Objects = {o1, o2, o3}
INVARIANTS
  FreeListComplete
  OneOwnerPerSocket
PROPERTIES
  ImplementsTable
