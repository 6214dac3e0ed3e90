SPECIFICATION FairSpec
CONSTANTS
  NULL = null
  long = long
  Records = {long, r1, r2, r3}
  RecordSize <- MCRecordSize
  BufferSize = 3
  rollSize_ = 2
INVARIANTS
  BuffersReturned
  LogOrder
PROPERTIES
  RecordsReachDisk
  StopReturns
CHECK_DEADLOCK FALSE
