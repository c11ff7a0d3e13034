SPECIFICATION Spec
CONSTANTS
  r = r
  p = p
  a = a
  b = b
  c = c
  Key = {r, p, a, b, c}
  Roots = {r, p}
  Worlds <- EngineWorlds
  MaxDepth = 4
  ResolutionBudget = 4
  Idle = Idle
  HttpCall = {"h1", "h2"}
  Policies <- TwoPolicies
  Limit = 1
  Interval = 2
  RetryDelays <- ShortDelays
  DefaultWait = 2
  RetryAfters = {3}
  MaxCooldownWait = 2
  Target = {"t1", "t2", "t3"}
  Sources <- Historical
  Supports <- Served
  Rejected = {"t3"}
  Grouping <- TwoGroups
  Caller = {"w1", "w2", "w3", "w4"}
  BatchCoin = {"x", "y"}
  CoinOf <- Asks
  MaxEntries = 2
  BatchSizes = {1, 2}
  Concurrency = 1
  Coin = {"c1", "c2", "c3", "c4"}
  SpotSources <- SpotOrder
  GuardedSource = {"enso", "defillama"}
  SpotSupports <- Quotable
  WrittenDown = {"c4"}
  KnownLps = {"c1", "c2", "c3"}
  GuardedSets = {{"c1", "c2", "c3"}, {"c1", "c2"}}
  MaxInFlight = 1
  Client = {"node", "archive"}
  SearchTime = {13, 31, 33}
  Top = 4
  TimeOf <- BlockTimes
  FirstHead = 3
  Gaps <- Prunings
  MaxCache = 1
  MaxSamples = 2
  MaxInterpolations = 2
INVARIANTS EngineInv UnsupportedIsAbsent ReportsAreEarned WaitersAreServed SlotsAreKept CachedIsSettled AnswersAreLast
PROPERTIES ProviderRespected EveryRootAnswered CallersHearBack
CHECK_DEADLOCK FALSE
