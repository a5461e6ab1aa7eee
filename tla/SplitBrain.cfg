SPECIFICATION Spec
CONSTANTS
  Procs = {p1, p2}
  None = None
  Ghost = Ghost
  MaxEpoch = 4
  Disturbances = {"redis_error"}
INVARIANT SingleWriter
SYMMETRY Symmetric
CHECK_DEADLOCK FALSE
