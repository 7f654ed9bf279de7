SPECIFICATION Spec
CONSTANTS
  FirstReads <- MC_FirstReads
  Reads <- MC_Reads
  MaxReads = 6
CHECK_DEADLOCK FALSE
INVARIANTS
  SameAsOnce
  BodyFollowsHeader
  WritersReadBack
PROPERTY
  RefusedForGood
