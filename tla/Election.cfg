SPECIFICATION FairSpec
CONSTANTS
  Procs = {p1, p2, p3}
  None = None
  Ghost = Ghost
  MaxEpoch = 3
  Disturbances = {"stall", "crash", "redis_error"}
INVARIANT TypeOK
INVARIANT EpochsUnique
INVARIANT HealthyLeaderHoldsKey
INVARIANT HolderHasHighestEpoch
PROPERTY HealthyWritesInOrder
PROPERTY DeposedStepDown
PROPERTY LeadershipRecovers
CHECK_DEADLOCK FALSE
