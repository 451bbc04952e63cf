SPECIFICATION ListFairSpec
CONSTANTS
  Nodes = {n1, n2, n3, n4}
  Values = {1, 2}
  Null = Null
  HeadRef = HeadRef
INVARIANTS
  WellFormed
PROPERTIES
  ImplementsTimerList
  CallsReturn
