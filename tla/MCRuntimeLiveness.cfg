CONSTANTS
  f = f
  g = g
  Ids <- OneId
  Queues <- OneFunction
  TerminalRetention = 2
  Policy <- TwoAttempts
  LinearStep = 2
  MaxInstant = 4
  MaxAttempt = 3
  Concurrency <- OneAtATime
  Retries <- All
  MaxRunning = 2
  MaxRecords = 2
  DateVirtual = FALSE
  Configs <- Wakes
SPECIFICATION FairSpec
PROPERTIES
  ReadyIsDispatched
  ShutdownCompletes
  SweepReleasesRetries
CHECK_DEADLOCK FALSE
