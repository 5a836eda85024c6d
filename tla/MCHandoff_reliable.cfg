SPECIFICATION Spec
CONSTANTS
  proxy = proxy
  b1 = b1
  b2 = b2
  c1 = c1
  c2 = c2
  Flows = {c1, c2}
  Servers = {proxy, b1, b2}
  Front = proxy
  RuleCapacity = 2
  Answer = Answer
  Routes <- ChainRoutes
  MaxReq = 2
  MaxLink = 2
  BadRequests = {}
  AbruptClose = FALSE
  TimelyReplies = TRUE
  VerifyCsum = TRUE
INVARIANTS
  TypeOK
  NoOrphanSegment
  LockedInTransit
  RuleFollowsConnection
