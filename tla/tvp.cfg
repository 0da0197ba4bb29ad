\* Two table objects on a statement with two tables.
SPECIFICATION Spec
CONSTANTS
  p1 = p1  p2 = p2  t1 = t1  t2 = t2
  NULL = NULL
  Params <- TwoTables
  Tables <- TwoTables
  Columns <- OneColumn
  Objects <- TwoObjects
  RowCounts = {0, 1}
  MayFail = TRUE
INVARIANTS
  TypeOK
  RefusesWhileOpen
  FocusFollowsTable
  ColumnsOutliveCaller
SYMMETRY Symmetry
CHECK_DEADLOCK FALSE
