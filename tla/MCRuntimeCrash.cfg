CONSTANTS
  f = f
  g = g
  Ids <- OneId
  Queues <- OneFunction
  TerminalRetention = 2
  Policy <- TwoAttempts
  LinearStep = 2
  MaxInstant = 4
  MaxAttempt = 3
  Concurrency <- TwoAtATime
  Retries <- None
  MaxRunning = 2
  MaxRecords = 2
  DateVirtual = FALSE
  Configs <- OneCrash
SPECIFICATION Spec
INVARIANTS
  IdleIsTruthful
CHECK_DEADLOCK FALSE
