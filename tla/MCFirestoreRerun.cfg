CONSTANTS
  Docs <- TwoDocs
  Values <- TwoValues
  Absent = "absent"
  Filters <- OnlyX
  Unfiltered = Unfiltered
  Ids <- ThreeIds
  Owners <- TwoRequests
  Ttl = 3
  Idle = 1
  IdleAllowance = 1
  ExpiredMemory = 1
  EmulatorRetention = 1
  ReadWindow = 1
  MaxActive = 2
  MaxFinished = 1
  MaxLedger = 3
  MaxActiveLedger = 4
  Incremented <- Flip
  Requests <- TwoRequests
  Batches <- AllBatches
  Operations <- AllOperations
  Configs <- Reruns
  Seeds <- SeedA
SPECIFICATION Spec
INVARIANT
  AppliedOnce
CHECK_DEADLOCK FALSE
