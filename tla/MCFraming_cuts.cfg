SPECIFICATION FairSpec
CONSTANTS
  Frames <- MixedFrames
  Start <- MixedStart
  InitCap = 14
  MinAvail = 6
  GrowBy = 8
CHECK_DEADLOCK FALSE
INVARIANTS
  TypeOK
  StreamInSync
  NoWholeMessageLeft
PROPERTIES
  EveryMessageHandled
