CONSTANTS
  Keys <- OneKey
  NoKey = ""
  AckDeadline = 1
  PushMinimum = 1
  Configs <- Tight
  PullSizes <- OneSize
  MaxMessages = 3
  MaxAcks = 3
  MaxClock = 1
  MaxSeeks = 1
  MaxChanges = 0
SPECIFICATION Spec
PROPERTIES
  SeekRestoresBacklog
CHECK_DEADLOCK FALSE
