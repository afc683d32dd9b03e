CONSTANTS
  f = f
  g = g
  Ids <- ThreeIds
  Queues <- TwoFunctions
  TerminalRetention = 2
  Policy <- TwoAttempts
  LinearStep = 2
  MaxInstant = 1
  MaxAttempt = 3
  Concurrency <- OneAndTwoAtATime
  Retries <- All
  MaxRunning = 2
  MaxRecords = 2
  DateVirtual = FALSE
  Configs <- Programs
SPECIFICATION Spec
INVARIANTS
  PayloadsMatchRecords
  OneInvocationPerAttempt
  SlotsAreTruthful
  IdleIsTruthful
  ResetStopsOldHandlers
  CapacityIsHonest
PROPERTIES
  OldSessionsAreInert
  NothingEnqueuedAfterStop
CHECK_DEADLOCK FALSE
