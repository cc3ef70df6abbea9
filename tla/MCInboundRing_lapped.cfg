CONSTANTS
  Producers = {p1, p2}
  Size = 2
  Events = 2
SPECIFICATION Spec
INVARIANT SlotExclusive
