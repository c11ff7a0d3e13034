SPECIFICATION Spec
CONSTANTS
  Tokens = {"token"}
  Days = {1}
  Sources <- Named
  Priority <- Ranking
  Quoted <- LpSources
  Requests = {r1}
  Warmups = {}
  Finalizers = {f1}
  Repairs = {}
  UnderlyingOf <- NoVaults
  Incidents = {}
  Modes = {TRUE}
  LockRetryLimit = 1
  LastDay = 3
PROPERTIES RepairsInvalidateEdge
CHECK_DEADLOCK FALSE
