SPECIFICATION Spec
CONSTANTS
  w1 = w1
  w2 = w2
  c1 = c1
  c2 = c2
  None = None
  LisNum = 2
  LisType <- MCLisType
  StdFds = 3
  MaxFd = 7
  HttpBuf = 2
  ProxyBuf = 3
  Workers = {w1}
  Conns = {c1, c2}
  Port <- MCPort2
  MaxInbox = 3
  Faults = {"accept", "nonblock", "add", "connect", "short", "rst", "err"}
  MaxCrash = 1
INVARIANTS
  TypeOK
  DescriptorsSound
  NoStaleRequest
  Accounting
  NoLostEdge
  AnsweredUnlessFull
PROPERTY ServiceSpec
CHECK_DEADLOCK FALSE
