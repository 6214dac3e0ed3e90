SPECIFICATION FairSpec
CONSTANTS
  s1 = s1
  s2 = s2
  r1 = r1
  Timers = {s1, s2, r1}
  Delay <- MCDelay
  Interval <- MCInterval
  MaxInt = 4
  MaxTime = 3
  MaxQueue = 1
INVARIANTS
  SetsAgree
  TimerfdArmed
PROPERTIES
  NeverEarly
  CancelIsFinal
  WaitingTimerLeaves
CHECK_DEADLOCK FALSE
