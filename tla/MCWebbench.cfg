SPECIFICATION FairSpec
CONSTANTS
  Given <- Counts_NegativeToTwo
  PipeSize = 1
  MaxClients = 2
  MaxTurns = 2
  MaxChunks = 1
  MaxDeaths = 1
INVARIANTS CountsHonest OnlyRefusedLeak
PROPERTIES TotalsAreReports AllEnd
