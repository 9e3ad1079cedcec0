CONSTANTS
  QueueSize = 2
  MaxChunks = 4
  MaxPings = 2
CHECK_DEADLOCK FALSE
SPECIFICATION Spec
INVARIANT StopIsHeard
