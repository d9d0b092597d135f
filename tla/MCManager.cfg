SPECIFICATION Spec
CONSTANTS
  Versions = {"v1", "v2"}
  HTTPVersions = {"v1"}
  Limit <- MCLimit
  MaxGen = 3
  MaxSaves = 1
  MaxFaults = 1
CONSTRAINT SignalWithOne
INVARIANTS
  TypeOK
  OnlyCurrentAcceptsSOCKS
  NothingLost
  LimitsHold
\* INVARIANTS TurnsExact
PROPERTIES
  SessionsSurviveReload
  GenerationsSucceed
CHECK_DEADLOCK FALSE
