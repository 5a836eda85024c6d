SPECIFICATION Spec
CONSTANTS
  Reqs <- MixedReqs
  Start <- MixedStart
  InitCap = 12
  MinAvail = 3
  GrowBy = 6
  Wrap = 65536
  SplitHeader = TRUE
CHECK_DEADLOCK FALSE
INVARIANTS
  AbortsOnlyOversized
