SPECIFICATION PolicySpec
CONSTANTS
  Sessions = {s1, s2, s3}
  Clients = {c1, c2}
  Loops = {l1, l2}
  Ceilings = {0, 1, 2}
  Targets = {t1}
  MaxPort = 3
  MaxRules = 3
SYMMETRY Symmetric
INVARIANTS
  Exact
  AnyPortExact
PROPERTIES
  TotalBudget
  ClientBudget
CHECK_DEADLOCK FALSE
