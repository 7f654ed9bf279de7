SPECIFICATION Spec
CONSTANTS
  w1 = w1
  w2 = w2
  c1 = c1
  c2 = c2
  None = None
  LisNum = 2
  LisType <- MCLisType
  StdFds = 3
  MaxFd = 7
  HttpBuf = 2
  ProxyBuf = 2
  Workers = {w1, w2}
  Conns = {c1, c2}
  Port <- MCPortRace
  MaxInbox = 2
  Faults = {"rst"}
  MaxCrash = 1
SYMMETRY MCSymmetry
INVARIANT NoLostAccept
PROPERTY ServiceSpec
CHECK_DEADLOCK FALSE
