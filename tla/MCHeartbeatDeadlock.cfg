SPECIFICATION HFairSpec
CONSTANTS
  Versions = {"v1"}
  HTTPVersions = {}
  Limit <- MCLimit
  MaxGen = 3
  MaxSaves = 1
  MaxFaults = 0
  Threshold = 2
  MaxRestarts = 0
PROPERTIES
  HeartbeatReloadReturns
CHECK_DEADLOCK FALSE
