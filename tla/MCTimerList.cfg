SPECIFICATION FairSpec
CONSTANTS
  Timers = {t1, t2, t3}
  NULL = NULL
  Intervals = {1, 2, 3}
  MaxLate = 2
CHECK_DEADLOCK FALSE
INVARIANT ListSound
PROPERTIES NoneOverdue EventuallyRuns
