CONSTANTS
  Size = 2
  Capacity = 1
  Acks = 5
  NoAck = NoAck
SPECIFICATION FairSpec
INVARIANTS
  AcksInOrder
  NoneUncounted
  NeverAhead
PROPERTIES
  EveryAckEnds
  DestructorReturns
