SPECIFICATION FairSpec
CONSTANTS
  Versions = {"v1"}
  HTTPVersions = {"v1"}
  Limit <- MCLimit
  MaxGen = 3
  MaxSaves = 1
  MaxFaults = 1
CONSTRAINT OneDisturbance
PROPERTIES
  CallsReturn
  GenerationsSettle
CHECK_DEADLOCK FALSE
