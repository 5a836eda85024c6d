SPECIFICATION Spec
CONSTANTS
  proxy = proxy
  b1 = b1
  b2 = b2
  c1 = c1
  c2 = c2
  Flows = {c1, c2}
  Servers = {proxy, b1}
  Front = proxy
  RuleCapacity = 1
  Answer = Answer
  Routes <- StarRoutes
  MaxReq = 2
  MaxLink = 1
  BadRequests = {}
  AbruptClose = TRUE
  TimelyReplies = TRUE
  VerifyCsum = FALSE
CHECK_DEADLOCK FALSE
INVARIANTS
  OneHolder
PROPERTIES
  ImplementsFlowOwner
  DiesOnlyOfClient
