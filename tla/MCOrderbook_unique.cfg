CONSTANTS
  Prices = {1, 2}
  Volumes <- EdgeVolumes
  Ids = {i1, i2, i3, i4}
  NoId = NoId
  MaxOrders = 4
  ReuseIds = FALSE
SPECIFICATION Spec
SYMMETRY IdSymmetry
INVARIANTS
  TypeOK
  QueueOrder
  LevelCounts
  LevelVolumes
  NotCrossed
  IndexSound
  IndexComplete
  Accounted
PROPERTIES
  NoFillOvertakes
  PlainSpec
