SPECIFICATION FairSpec
CONSTANTS
  Conns = {c1, c2}
  Drainers = {drain}
  Closers = {close}
  Peers = {p1, q1}
  Allowed = {p1}
  Idle = 2
  MaxChunks = 2
INVARIANTS
  NothingLeft
  BindSettled
  CutWhenDue
\* INVARIANTS TurnsExact
PROPERTIES
  DrainKeepsWork
  EverythingEnds
CHECK_DEADLOCK FALSE
