CONSTANTS
  Best = 1000000
  Offsets <- MCOffsets
  Sizes <- MCSizes
SPECIFICATION Spec
INVARIANT TokensAreOrdered
PROPERTY TokensAreStable
