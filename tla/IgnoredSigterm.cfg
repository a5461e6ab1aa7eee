SPECIFICATION Spec
CONSTANTS
  Workers = {executor, scheduler, recovery}
  Executors = {executor}
PROPERTY SigtermEndsWorker
CHECK_DEADLOCK FALSE
