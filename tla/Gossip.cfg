CONSTANTS
  Controllers = {c1, c2}
  InitialSize = 3
  HighWater = 3
  GrowBy = 1
  MaxVersion = 3
  MaxLoss = 1
  LateNews = FALSE
SPECIFICATION FairSpec
INVARIANTS TypeOK LogTruth LastNewsKept MarkedKnown NoThrow MissingIsGap
PROPERTIES LogsAgree
CHECK_DEADLOCK FALSE
