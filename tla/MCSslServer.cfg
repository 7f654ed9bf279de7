SPECIFICATION Spec
CONSTANTS
  Conns = {c1, c2, c3}
  None = None
  serfd = serfd
  Fds = {1, 2, 3}
  MaxRecords = 2
CHECK_DEADLOCK FALSE
INVARIANTS FindsOwnSession LagExplained
