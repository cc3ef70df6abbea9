CONSTANTS
  Prices = {1, 2}
  Volumes = {1, 2, 3}
  Ids = {i1, i2}
  NoId = NoId
  MaxOrders = 3
  ReuseIds = TRUE
SPECIFICATION Spec
INVARIANT IndexComplete
