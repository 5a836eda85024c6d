SPECIFICATION FairSpec
CONSTANTS
  w1 = w1
  w2 = w2
  c1 = c1
  c2 = c2
  c3 = c3
  Programs = {"kvs-repl", "kvs", "bench"}
  N = 2
  Workers = {w1, w2}
  Clients = {c1, c2, c3}
  WorkerOf <- OneAlone
  Keys = {"a"}
  Hash <- LastShard
  Late <- SlowLink
  Faults = TRUE
  MaxStops = 1
  Script <- Scripts
CHECK_DEADLOCK FALSE
INVARIANTS
  TypeOK
  AckedEverywhere
  ReplicaOrder
  ReadsNotStale
PROPERTIES
  Answered
