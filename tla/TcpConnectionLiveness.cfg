SPECIFICATION FairSpec
CONSTANTS
  Threads = {}
  Messages = {m1, m2}
  Files = {f1}
  NoFile = none
  MsgLen = 2
  FileSize = 2
  SndBuf = 1
  lowWaterMark_ = 1
  highWaterMark_ = 2
  MaxQueue = 2
PROPERTIES
  ShutdownCompletes
  PeerCloseRemoves
  ProducersResume
  TransferEnds
CHECK_DEADLOCK FALSE
