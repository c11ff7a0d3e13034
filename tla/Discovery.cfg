SPECIFICATION DailySpec
CONSTANTS
  Targets = {t1, t2}
  Workers = {w1}
  Reconcilers = {r1}
  Tokens = {k1, k2, k3}
  NoToken = NoToken
  TransientBackoff <- OneTick
  MissingBackoff <- OneTick
  MaxInvalidAttempts = 1
  ClaimLimit = 2
  LeaseTicks = 3
  AttemptCap = 0
  OverdueCap = 0
  GroupSize = 2
  BudgetTicks = 1
  HardStopTicks = 2
  Rejectable = {}
  Clearable = {}
  LateCap = 0
  t1 = t1
  t2 = t2
  odd = odd
  Recent = {}
  Provisional = {odd, t1, t2}
  Inventory = {}
  DayOrder <- OddFirst
  DiscoveryLimit = 2
INVARIANTS ThrowChargesOne
PROPERTIES SurfacesWhilePageHasRoom
