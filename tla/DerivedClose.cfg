SPECIFICATION Spec
CONSTANTS
  Tokens = {"token", "vault"}
  Days = {1}
  Sources <- Named
  Priority <- Ranking
  Quoted <- VaultSources
  Requests = {r1}
  Warmups = {w1}
  Finalizers = {}
  Repairs = {}
  UnderlyingOf <- VaultOverToken
  Incidents = {}
  Modes = {TRUE}
  LockRetryLimit = 1
  LastDay = 2
INVARIANTS ClosesRestOnCloses
CHECK_DEADLOCK FALSE
