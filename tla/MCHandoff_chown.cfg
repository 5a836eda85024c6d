SPECIFICATION Spec
CONSTANTS
  proxy = proxy
  b1 = b1
  b2 = b2
  c1 = c1
  c2 = c2
  Flows = {c1}
  Servers = {proxy, b1, b2}
  Front = proxy
  RuleCapacity = 1
  Answer = Answer
  Routes <- ChainRoutes
  MaxReq = 2
  MaxLink = 2
  BadRequests = {}
  AbruptClose = FALSE
  TimelyReplies = FALSE
  VerifyCsum = TRUE
CHECK_DEADLOCK FALSE
INVARIANTS
  ChownUnlocks
