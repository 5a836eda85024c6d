SPECIFICATION Spec
CONSTANTS
  proxy = proxy
  b1 = b1
  b2 = b2
  c1 = c1
  c2 = c2
  Flows = {c1}
  Servers = {proxy, b1, b2}
  Front = proxy
  RuleCapacity = 1
  Answer = Answer
  Routes <- BenchRoutes
  MaxReq = 2
  MaxLink = 1
  BadRequests = {}
  AbruptClose = TRUE
  TimelyReplies = FALSE
  VerifyCsum = FALSE
SYMMETRY BackendSymmetry
CHECK_DEADLOCK FALSE
INVARIANTS
  OneHolder
  CallbackFindsConnection
  StateNeverRegresses
PROPERTIES
  ImplementsFlowOwner
