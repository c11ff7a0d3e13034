SPECIFICATION ScheduledSpec
CONSTANTS
  Targets = {t1}
  Workers = {w1}
  Reconcilers = {r1}
  Tokens = {k1, k2}
  NoToken = NoToken
  Nobody = Nobody
  TransientBackoff <- OneTick
  MissingBackoff <- OneTwoTicks
  MaxInvalidAttempts = 2
  ClaimLimit = 1
  LeaseTicks = 3
  AttemptCap = 1
  OverdueCap = 0
  GroupSize = 1
  BudgetTicks = 1
  HardStopTicks = 2
  Rejectable = {t1}
  Clearable = {t1}
  LateCap = 0
PROPERTIES EvidenceSettles
