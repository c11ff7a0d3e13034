SPECIFICATION TimedSpec
CONSTANTS
  Targets = {t1}
  Workers = {w1, w2}
  Reconcilers = {r1}
  Tokens = {k1, k2, k3}
  NoToken = NoToken
  Nobody = Nobody
  TransientBackoff <- OneTick
  MissingBackoff <- OneTick
  MaxInvalidAttempts = 1
  ClaimLimit = 1
  LeaseTicks = 3
  AttemptCap = 0
  OverdueCap = 0
  GroupSize = 1
  BudgetTicks = 1
  HardStopTicks = 2
  Rejectable = {t1}
  Clearable = {t1}
  LateCap = 0
PROPERTIES ClaimsEnd NothingStranded
