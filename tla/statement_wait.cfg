\* A caller that waits for an event is woken; an idle statement is freed.
SPECIFICATION FairSpec
CONSTANTS
  s1 = s1  s2 = s2  c1 = c1  c2 = c2
  k1 = k1  k2 = k2  e1 = e1  e2 = e2
  NULL = NULL
  Stmt <- TwoStmts
  Conn <- OneConn
  StmtHandle <- TwoHandles
  Event <- TwoEvents
  Ops <- NeverCloses
  PrepareTimeouts <- NoTimeout
  KeepsStale = FALSE
  Faults <- NotFreeing
  MaxLinks = 1
CHECK_DEADLOCK FALSE
INVARIANTS
  AwaitedIsSet
PROPERTIES
  WaitEnds
