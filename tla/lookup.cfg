SPECIFICATION Spec
CONSTANTS
  Lookup = {l1, l2}
  NoLookup = none
  Lookups <- BindThenFile
  NDomains = 2
  NoCheckResp = FALSE
INVARIANTS
  AnsweredOnce
PROPERTIES
  FallsBackToA
  EveryLookupEnds
  ImplementsSearch
CHECK_DEADLOCK FALSE
