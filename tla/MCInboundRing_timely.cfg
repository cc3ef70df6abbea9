CONSTANTS
  Producers = {p1, p2, p3}
  Size = 2
  Events = 2
SPECIFICATION FairTimelySpec
INVARIANTS
  TypeOK
  SlotExclusive
  InOrderExactlyOnce
PROPERTIES
  EveryEventIsTaken
  QueueSpec
