SPECIFICATION FairSpec
CONSTANTS
  NServers = 1
  Tries = 2
  MaxQueries = 2
  StayOpen = FALSE
  UseVc = FALSE
  IgnTc = FALSE
  NoCheckResp = FALSE
  Rotate = FALSE
  AppMay = {"chain"}
INVARIANT
  WaitingIsRegistered
PROPERTIES
  EveryQueryEnds
  BrokenIsClosed
  ImplementsService
