SPECIFICATION HSpec
CONSTANTS
  Versions = {"v1"}
  HTTPVersions = {}
  Limit <- MCLimit
  MaxGen = 3
  MaxSaves = 0
  MaxFaults = 0
  Threshold = 2
  MaxRestarts = 1
INVARIANTS
  
  CloseEndsRecovery
PROPERTIES
  NewestWriterWins
CHECK_DEADLOCK FALSE
CONSTRAINT Quiet
