SPECIFICATION Spec
CONSTANTS
  j1 = j1
  j2 = j2
  s1 = s1
  Jobs = {j1, j2}
  Subs = {s1}
  SubOf <- OneSubscription
  Deps <- ChainDeps
  MaxAttempts = 2
  PauseThreshold = 2
  NoRun = NoRun
  Executors = {e1, e2}
  BatchSize = 1
  SuspectConfig = {}
  BunqBehaviour <- LossyBunq
  Recoverers = {w1}
  Faults = {"slow", "crash", "db_error", "unordered"}
INVARIANT TypeOK
INVARIANT OneLiveAttempt
INVARIANT ExclusiveExecution
INVARIANT BackoffRespected
INVARIANT LedgerSound
INVARIANT PrecheckFindsNothing
INVARIANT RunningIsLocked
INVARIANT NothingLost
INVARIANT DependenciesPaidFirst
SYMMETRY Symmetric
CHECK_DEADLOCK FALSE
