SPECIFICATION SteadySpec
CONSTANTS
  Procs = {scheduler, recovery}
  None = None
  Ghost = Ghost
  MaxEpoch = 4
  Disturbances = {}
PROPERTY EveryRoleWorks
CHECK_DEADLOCK FALSE
