\* Nested transactions, calls that fail and the link that comes and goes.
SPECIFICATION Spec
CONSTANTS
  h1 = h1  t1 = t1  t2 = t2  w1 = w1  w2 = w2
  NULL = NULL
  Handle <- OneHandle
  AsyncModes <- Synchronous
  Txn <- TwoTxns
  Work <- TwoItems
  Faults <- LinkAndTransactionFaults
  MaxLinks = 2
  ConnectsInside = FALSE
CHECK_DEADLOCK FALSE
INVARIANTS
  TypeOK
  CountsOpen
  ManualWhileOpen
  QuiescentIsClean
PROPERTIES
  LastUncommittedRollsBack
  UnitOfWorkSpec
