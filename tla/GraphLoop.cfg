SPECIFICATION LoopSpec
CONSTANTS
  Parts = {"graph"}
  r = r
  q = q
  p = p
  a = a
  b = b
  c = c
  e = e
  u = u
  usd = usd
  eth = eth
  t1 = t1
  t2 = t2
  v1 = v1
  Key = {r, q, p, a, b, c, "d", "e", "f", "g"}
  Roots = {r, q}
  Worlds <- RingWorld
  MaxDepth = 8
  NodeLimits = {10}
  LookupKey <- Asked
  TodayEnd = 23
  Now = {20, 22}
  AllowIntraday = TRUE
  IsClose <- ClosesDay
  Width = 3
  Strict = 1
  TokenBatch = 2
  TimestampBatch = 2
  Observations <- Responses
  Feed = {usd, eth}
  Feeds <- FeedHistories
  Legs <- LegsOfToken
  Times = {8, 12, 16, 20, 24, 40}
  MaxStaleness = 8
  MaxPhaseHops = 1
  Token = {t1}
  Vault = {v1}
  UnderlyingOf <- OneVault
  Listed = {v1}
  LastDay = 1
  Quotes = {1, 2}
  Unpriced = Unpriced
  BatchSize = 1
  Misaligned <- StoredWrong
  MaxStarts = 4
  MaxRefreshes = 1
  GapToken = {t1, t2}
  Manifests <- Files
  Today = 3
  MaxSpan = 2
  MaxOffset = 1
  DayLength = 4
  Alias <- Aliases
  Charts <- KnownCharts
  TargetsPerBatch = 2
  FirstRows <- Tables
  FirstListed <- ListedBefore
  None = None
PROPERTIES GraphEnds
CHECK_DEADLOCK FALSE
