SPECIFICATION Spec
CONSTANTS
  NServers = 2
  Tries = 1
  MaxQueries = 2
  StayOpen = FALSE
  UseVc = FALSE
  IgnTc = FALSE
  NoCheckResp = FALSE
  Rotate = FALSE
  AppMay = {"cancel", "chain"}
INVARIANT SweepLeavesNothing
