SPECIFICATION FairSpec
CONSTANTS
  Conns = {c1, c2, c3}
  None = None
  MaxTries = 2
  MaxOpen = 2
  MaxRecords = 2
  Faults = {"nonblock", "add", "ssl", "err"}
CHECK_DEADLOCK FALSE
INVARIANTS SessionsSound StrandedOnlyByFailure AnswersMatchRequests
PROPERTIES AloneAnswered
