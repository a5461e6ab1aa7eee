SPECIFICATION FairSpec
CONSTANTS
  j1 = j1
  j2 = j2
  s1 = s1
  Jobs = {j1}
  Subs = {s1}
  SubOf <- OneSubscription
  Deps <- NoDeps
  MaxAttempts = 3
  PauseThreshold = 2
  NoRun = NoRun
  Executors = {e1, e2}
  BatchSize = 1
  SuspectConfig = {s1}
  BunqBehaviour <- RealBunq
  Recoverers = {w1}
  Faults = {"slow", "crash", "db_error"}
PROPERTY JobsSettle
PROPERTY RunsEnd
CHECK_DEADLOCK FALSE
