SPECIFICATION FairSpec
CONSTANTS
  c1 = c1
  c2 = c2
  l1 = l1
  l2 = l2
  Conns = {c1, c2}
  Loops = {l1, l2}
  LoopOf <- MCLoopOf
  Reads <- MCReads
  Timeout = 1
  MaxRequests = 0
PROPERTIES
  ZombiesAreClosed
CHECK_DEADLOCK FALSE
