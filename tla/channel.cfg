SPECIFICATION Spec
CONSTANTS
  NServers = 2
  Tries = 2
  MaxQueries = 2
  StayOpen = FALSE
  UseVc = TRUE
  IgnTc = FALSE
  NoCheckResp = FALSE
  Rotate = TRUE
  AppMay = {"chain", "cancel", "destroy"}
INVARIANTS
  TypeOK
  WaitingIsRegistered
  SavedNodesAlive
  InFlight
  CallbackOnce
  OncePerConnection
  SendsBounded
  SkippedStaySkipped
  RequestNotLost
  NoDanglingRequest
  ClosedWhenIdle
  DestroyedIsClean
CHECK_DEADLOCK FALSE
