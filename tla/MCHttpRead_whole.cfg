SPECIFICATION FairSpec
CONSTANTS
  Reqs <- MixedReqs
  Start <- MixedStart
  InitCap = 12
  MinAvail = 3
  GrowBy = 6
  Wrap = 65536
  SplitHeader = FALSE
CHECK_DEADLOCK FALSE
INVARIANTS
  TypeOK
  
  LosesOnlyLarge
  AbortsOnlyOversized
PROPERTIES
  EveryRequestAnswered
