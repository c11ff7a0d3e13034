SPECIFICATION Spec
CONSTANTS
  Targets = {t1}
  Workers = {w1, w2}
  Reconcilers = {r1}
  Tokens = {k1, k2, k3, k4}
  NoToken = NoToken
  Nobody = Nobody
  TransientBackoff <- OneTick
  MissingBackoff <- OneTwoTicks
  MaxInvalidAttempts = 2
  ClaimLimit = 1
  LeaseTicks = 3
  AttemptCap = 1
  OverdueCap = 0
  GroupSize = 1
  BudgetTicks = 1
  HardStopTicks = 2
  Rejectable = {t1}
  Clearable = {t1}
  LateCap = 1
SYMMETRY WorkerSymmetry
INVARIANTS IInv RecordInv LeaseExclusion ClaimsAreCurrent
PROPERTIES HeldRowsUndisturbed CompletionHasEvidence BackoffPreserved ImplementsLifecycle
