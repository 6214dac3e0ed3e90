SPECIFICATION Spec
CONSTANTS
  Threads = {t1}
  Messages = {m1, m2}
  Files = {f1}
  NoFile = none
  MsgLen = 2
  FileSize = 2
  SndBuf = 1
  lowWaterMark_ = 1
  highWaterMark_ = 2
  MaxQueue = 1
SYMMETRY InterchangeableMessages
INVARIANTS
  StreamOrder
  WatermarksAgree
  OutputIsWatched
  DownOnce
  RemovedBeforeRelease
PROPERTIES
  ShutdownAfterDrain
  
CHECK_DEADLOCK FALSE
