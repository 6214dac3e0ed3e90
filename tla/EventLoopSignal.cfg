SPECIFICATION FairSpec
CONSTANTS
  Threads = {t1}
  Functors = {f1}
  Channels = {}
  WakeupChannel = wakeup
  MaxEvents = 1
  EventfdMax = 1
PROPERTIES
  SignalEndsLoop
