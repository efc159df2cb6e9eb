CONSTANTS
  Controllers = {c1, c2}
  InitialSize = 4
  HighWater = 8
  GrowBy = 1
  MaxVersion = 4
  MaxLoss = 1
  LateNews = TRUE
SPECIFICATION Spec
INVARIANT MissingIsGap
SYMMETRY Symmetry
CHECK_DEADLOCK FALSE
