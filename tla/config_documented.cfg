SPECIFICATION Spec
CONSTANTS
  Requests <- MCRequests
  Environments <- MCEnvironments
  Systems <- MCSystems
  Failures <- MCFailures
  V6Servers = {"v6"}
  NewServers <- MCNewServers
  Csvs <- MCCsvs
  MaxSends = 2
INVARIANT
  ConfigAsDocumented
CHECK_DEADLOCK FALSE
