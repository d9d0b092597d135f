SPECIFICATION FairSpec
CONSTANTS
  MaxSockets = 2
  Asks = {q1}
  MaxCalls = 1
  MaxLogins = 1
  OtherLogins = 0
  MaxChanges = 0
  MaxNames = 0
  MaxFaults = 1
CHECK_DEADLOCK FALSE
\* One of them at a time: TLC stops at the first violation
PROPERTIES
  RevokedReturnsToLogin
\* PROPERTIES DisconnectedRetries
