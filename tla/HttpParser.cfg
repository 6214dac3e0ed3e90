SPECIFICATION Spec
CONSTANTS
  Streams <- MCStreams
  SizeMax = 2
INVARIANTS
  RequestsAsSent
  RestIsUnfinished
CHECK_DEADLOCK FALSE
