SPECIFICATION FairSpec
CONSTANTS
  NULL = null
  long = long
  Records = {r1}
  RecordSize <- MCRecordSize
  BufferSize = 3
  rollSize_ = 2
INVARIANTS
  AllFlushedOnStop
CHECK_DEADLOCK FALSE
