SPECIFICATION FairSpec
CONSTANTS
  w1 = w1
  w2 = w2
  c1 = c1
  c2 = c2
  None = None
  LisNum = 2
  LisType <- MCLisType
  StdFds = 3
  MaxFd = 9
  HttpBuf = 2
  ProxyBuf = 2
  Workers = {w1}
  Conns = {c1, c2}
  Port <- MCPort2
  MaxInbox = 1
  Faults = {"connect", "rst"}
  MaxCrash = 1
PROPERTIES
  EventuallyAccepted
  EventuallyReleased
  EventuallyAnswered
CHECK_DEADLOCK FALSE
