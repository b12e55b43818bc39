SPECIFICATION Spec
CONSTANTS
  Thread = {t1, t2}
  NoCall = none
  MaxCalls = 2
  MaxAddrs = 3
  ALEN = 3
INVARIANT FailureIsTold
CHECK_DEADLOCK FALSE
