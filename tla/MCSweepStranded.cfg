CONSTANTS
  Jobs <- OneJob
  Period <- Periods
  Publishing <- Second
  Backoff = 1
  Configs <- SkipWithCap
  MaxClock = 3
  MaxMoves = 2
SPECIFICATION FairSpec
PROPERTIES
  BacklogIsWorkedOff
CHECK_DEADLOCK FALSE
