SPECIFICATION Spec
CONSTANTS
  Hosts <- TwoServers
  MaxVersion = 2
  MaxRuns = 2
CHECK_DEADLOCK FALSE
INVARIANTS StopsAtFirstFailure DeployedIsWhole DeployInv
PROPERTIES SchemaCoversStarted
