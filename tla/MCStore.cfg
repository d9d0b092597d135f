SPECIFICATION StoreSpec
CONSTANTS
  Versions = {"v1"}
  HTTPVersions = {}
  Limit <- MCLimit
  MaxGen = 3
  MaxSaves = 1
  MaxFaults = 1
  MaxTraffic = 2
  MaxIds = 2
  Addrs = {"a", "b"}
  Handlers = {h1, h2}
  Background = {"b1"}
  MaxRequests = 3
  MaxReloads = 1
SYMMETRY HandlerSymmetry
INVARIANTS
  TrafficKept
  RowsDecide
PROPERTIES
  AnswersMatchRow
CHECK_DEADLOCK FALSE
