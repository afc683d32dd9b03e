CONSTANTS
  Jobs <- TwoJobs
  Period <- Periods
  Publishing <- Second
  Backoff = 1
  Configs <- Policies
  MaxClock = 3
  MaxMoves = 2
SPECIFICATION FairSpec
INVARIANTS
  NoOccurrenceLost
  NoOccurrenceTwice
  BacklogKeepsBusy
  NoOverlap
PROPERTIES
  OldestFirst
  BacklogIsWorkedOff
CHECK_DEADLOCK FALSE
