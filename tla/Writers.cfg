SPECIFICATION ScenarioSpec
CONSTANTS
  r1 = r1
  w1 = w1
  f1 = f1
  f2 = f2
  c1 = c1
  Tokens = {"token", "vault"}
  Days = {1}
  Sources <- Named
  Priority <- Ranking
  Quoted <- AllSources
  Requests = {r1}
  Warmups = {w1}
  Finalizers = {f1, f2}
  Repairs = {c1}
  UnderlyingOf <- VaultOverToken
  Incidents <- OneIncident
  Modes = {TRUE, FALSE}
  LockRetryLimit = 1
  LastDay = 2
INVARIANTS DirectClosesAreCloses TypeOK PriceInv
PROPERTIES FinalStays FinalizerDefers RejectedStaysOut GapsNotLost
CHECK_DEADLOCK FALSE
