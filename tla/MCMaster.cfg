SPECIFICATION FairSpec
CONSTANTS
  WORKER_NUM = 2
  Pids = {1, 2, 3, 4, 5, 6, 7}
  Signals = TRUE
  ForkFails = TRUE
  MaxCrash = 3
INVARIANT
  WorkerTable
PROPERTIES
  MasterStays
  EventuallyReplaced
  EventuallyStops
CHECK_DEADLOCK FALSE
