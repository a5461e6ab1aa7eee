SPECIFICATION Spec
CONSTANTS
  j1 = j1
  j2 = j2
  s1 = s1
  Jobs = {j1, j2}
  Subs = {s1}
  SubOf <- OneSubscription
  Deps <- ChainDeps
  MaxAttempts = 2
  PauseThreshold = 2
  NoRun = NoRun
  Executors = {e1, e2}
  BatchSize = 1
  SuspectConfig = {s1}
  BunqBehaviour <- RealBunq
  Recoverers = {w1, w2}
  Faults = {"crash", "db_error", "abort"}
INVARIANT RecordedPaymentIsFinal
INVARIANT SingleDeadLetter
PROPERTY FollowsStateMachine
PROPERTY FollowsJobLifecycle
PROPERTY PaidOnlyWhileOpen
SYMMETRY Symmetric
CHECK_DEADLOCK FALSE
