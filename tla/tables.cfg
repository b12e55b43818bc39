SPECIFICATION Spec
CONSTANTS
  NServers = 1
  Tries = 2
  Timeout = 2
  Msec = 2
  SecMsecs = 1
  IntMax = 64
  Rands = {0, 7}
  TimeoutBuckets = 2
  QidBuckets = 2
  IdHalf = 2
  Question = {a, b}
  MaxQueries = 2
  MaxClock = 7
INVARIANTS
  AnswerFits
  DeadlineAhead
  WakesInTime
PROPERTIES
  NoDeadlineMissed
CHECK_DEADLOCK FALSE
