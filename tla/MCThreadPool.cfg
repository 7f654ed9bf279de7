SPECIFICATION FairSpec
CONSTANTS
  num_threads = 2
  MaxTasks = 4
  MaxSpurious = 2
INVARIANTS
  TypeOK
  AppendsToLast
  NoLostWakeup
  RunsInOrder
  DestroysIdle
PROPERTIES
  EventuallyRun
  EventuallyDestroyed
CHECK_DEADLOCK FALSE
