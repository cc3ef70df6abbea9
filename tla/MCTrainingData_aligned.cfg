CONSTANTS
  Rows = 6
  Window = 8
SPECIFICATION DataSpec
INVARIANT BookIsTheOneBefore
INVARIANT LabelsAreNext
