SPECIFICATION Spec
CONSTANTS
  w1 = w1
  w2 = w2
  c1 = c1
  c2 = c2
  None = None
  LisNum = 2
  LisType <- MCLisType
  StdFds = 3
  MaxFd = 7
  HttpBuf = 2
  ProxyBuf = 2
  Workers = {w1}
  Conns = {c1, c2}
  Port <- MCPort2
  MaxInbox = 2
  Faults = {}
  MaxCrash = 1
INVARIANT ClosedByClient
CHECK_DEADLOCK FALSE
