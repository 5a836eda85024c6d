SPECIFICATION Spec
CONSTANTS
  Wrap = 8
  MaxQueue = 2
CHECK_DEADLOCK FALSE
INVARIANTS
  QueuesRestored
