SPECIFICATION OnlyTabSpec
CONSTANTS
  MaxSockets = 2
  Asks = {q1}
  MaxCalls = 1
  MaxLogins = 1
  OtherLogins = 0
  MaxChanges = 1
  MaxNames = 1
  MaxFaults = 1
PROPERTIES
  RefreshSettles
  ChangeShown
CONSTRAINT EndedInCalm
CHECK_DEADLOCK FALSE
