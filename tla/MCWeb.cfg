SPECIFICATION WebFairSpec
CONSTANTS
  Tokens = {t1, t2}
  Handlers = {h1, h2}
  Lifetimes = {1}
  Interval = 1
  MaxTime = 1
  MaxRequests = 3
  MaxFaults = 1
  Calls = {c1, c2}
  MaxInstalls = 2
  MaxChecks = 1
  MaxRestarts = 1
INVARIANTS
  RevokedStays
  UpdateInOrder
PROPERTIES
  EndsWhatItMust
  UpdateSeen
CHECK_DEADLOCK FALSE
