SPECIFICATION Spec
CONSTANTS
  Hosts <- TwoServers
  MaxVersion = 1
  MaxRuns = 2
CHECK_DEADLOCK FALSE
INVARIANT AllHostsDeployed
