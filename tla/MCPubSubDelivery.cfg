CONSTANTS
  Keys <- OneKey
  NoKey = ""
  AckDeadline = 1
  PushMinimum = 1
  Configs <- Everything
  PullSizes <- Sizes
  MaxMessages = 3
  MaxAcks = 3
  MaxClock = 1
  MaxSeeks = 1
  MaxChanges = 1
SPECIFICATION Spec
INVARIANTS
  IndexesAgree
  TransferredIsDone
  TransferKeepsKeyOrder
  DispatcherIsNotMisled
  SelectionIsTheLoop
PROPERTIES
  NothingIsLost
  KeyOrder
  SeekRestoresBacklogInRoom
CHECK_DEADLOCK FALSE
