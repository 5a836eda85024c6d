SPECIFICATION FairSpec
CONSTANTS
  proxy = proxy
  b1 = b1
  b2 = b2
  c1 = c1
  c2 = c2
  Flows = {c1}
  Servers = {proxy, b1, b2}
  Front = proxy
  RuleCapacity = 1
  Answer = Answer
  Routes <- ChainRoutes
  MaxReq = 4
  MaxLink = 3
  BadRequests = {4}
  AbruptClose = FALSE
  TimelyReplies = TRUE
  VerifyCsum = TRUE
PROPERTIES
  RequestAnswered
  ConnectionReclaimed
