CONSTANTS
  Values = {v1, v2}
  Blank = Blank
  Capacity = 2
  MaxPushes = 6
SPECIFICATION Spec
INVARIANTS
  TypeOK
  NoSharedCell
PROPERTIES
  BoundedSpec
