SPECIFICATION Spec
CONSTANTS
  Lookup = {l1, l2}
  NoLookup = none
  Lookups <- BindThenFile
  NDomains = 2
  NoCheckResp = FALSE
PROPERTY VerdictOfName
CHECK_DEADLOCK FALSE
