SPECIFICATION FairSpec
CONSTANTS
  Threads = {t1, t2}
  Functors = {f1, f2, f3}
  Channels = {c1}
  WakeupChannel = wakeup
  MaxEvents = 1
  EventfdMax = 1
INVARIANTS
  NoLostWakeup
PROPERTIES
  ImplementsTaskQueue
  QueuedFunctorRuns
  QuitEndsLoop
