SPECIFICATION Spec
CONSTANTS
  Targets = {a, b}
  IPv6Targets = {b}
  Sources = {s1}
  Workers = {g1, g2}
  QueueCap = 1
  MaxTargets = 1
  TTL = 1
  IdleTime = 1
  MaxTime = 1
  MaxDatagrams = 2
  Keys = {"a", "b"}
  Callers = {g1, g2}
  Providers = {p1, p2}
  MaxEntries = 2
  MaxBytes = 2
  Second = 2
  MaxTTL = 2
  MaxSize = 3
  MaxDnsTime = 2
SYMMETRY Symmetric
CONSTRAINT ClosedInTime
INVARIANTS
  Exact
  EndsCleanly
  CacheSound
\* INVARIANTS TurnsExact
PROPERTIES
  HitsAge
CHECK_DEADLOCK FALSE
