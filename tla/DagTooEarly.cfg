SPECIFICATION Spec
CONSTANTS
  j1 = j1
  j2 = j2
  s1 = s1
  Jobs = {j1, j2}
  Subs = {s1}
  SubOf <- OneSubscription
  Deps <- ChainDeps
  MaxAttempts = 2
  PauseThreshold = 2
  NoRun = NoRun
  Executors = {e1}
  BatchSize = 1
  SuspectConfig = {}
  BunqBehaviour <- HonestBunq
  Recoverers = {w1}
  Faults = {}
INVARIANT CancelledOnlyForDeadDependency
CHECK_DEADLOCK FALSE
