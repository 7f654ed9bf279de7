SPECIFICATION Spec
CONSTANTS
  WORKER_NUM = 2
  Pids = {1, 2, 3, 4}
  Signals = TRUE
  ForkFails = FALSE
  MaxCrash = 0
INVARIANT StopsEveryWorker
CHECK_DEADLOCK FALSE
