\* Two statements over two connections, every call may fail.
SPECIFICATION Spec
CONSTANTS
  s1 = s1  s2 = s2  c1 = c1  c2 = c2
  k1 = k1  k2 = k2  e1 = e1  e2 = e2
  NULL = NULL
  Stmt <- TwoStmts
  Conn <- TwoConns
  StmtHandle <- TwoHandles
  Event <- OneEvent
  Ops <- EveryOp
  PrepareTimeouts <- NoTimeout
  KeepsStale = FALSE
  Faults <- NotFreeing
  MaxLinks = 2
CHECK_DEADLOCK FALSE
INVARIANTS
  TypeOK
  HandlesOwned
  DoneUnlessAwaited
PROPERTY
  DestructionFrees
SYMMETRY Symmetry
