CONSTANTS
  Data <- MCData
  MaxExports = 2
  MaxFailures = 2
  MaxCrashes = 1
  MaxStages = 2
  MaxIntrusions = 3
  Stores <- MCStores
  WipeOrder <- MCWipeOrder
  Requests = {r1}
  SnapshotNames = {"a", "b"}
  MaxSnapshots = 1
  MaxBytes = 2
  MaxWrites = 2
  MaxTransitions = 3
  Hotp <- MCHotp
  Window = 1
  EnrollmentTtl = 1
  StrictGrace = 2
  ChallengeTimeout = 2
  SignInTtl = 2
  MaxFactors = 1
  MaxPending = 2
  MaxAttempts = 2
  MaxClock = 3
  MaxIssued = 4
  MaxRestores = 1
  Ids <- MCIds
  f = f
  g = g
  Queues <- MCQueues
  TerminalRetention = 1
  Policy <- MCPolicy
  LinearStep = 2
  MaxInstant = 1
  MaxAttempt = 3
  MaxEpoch = 1
  MaxEvictions = 1
SYMMETRY QueueSymmetry
SPECIFICATION ServicesSpec
INVARIANTS
  ManifestMeansWhole
  OldExportSurvives
  RequestsActInOneSession
  StepsAreUsedOnce
  IndexesAgree
  RetryBudget
  DiscardIsTheLoop
PROPERTIES
  OnlyTheReplacedIsRemoved
  
  TerminalNeverRegresses
CHECK_DEADLOCK FALSE
