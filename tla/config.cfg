SPECIFICATION Spec
CONSTANTS
  Requests <- MCRequests
  Environments <- MCEnvironments
  Systems <- MCSystems
  Failures <- MCFailures
  V6Servers = {"v6"}
  NewServers <- MCNewServers
  Csvs <- MCCsvs
  MaxSends = 2
INVARIANTS
  Precedence
  ServersAsListed
  ServersInUse
  Released
PROPERTY
  DupFaithful
CHECK_DEADLOCK FALSE
