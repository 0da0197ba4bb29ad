\* Two results on one statement, rowsets of one and of two rows; the first is
\* also read, unbound and fetched asynchronously.
SPECIFICATION Spec
CONSTANTS
  r1 = r1  r2 = r2
  NULL = NULL
  Objects <- TwoObjects
  Read = {r1}
  Sets <- TwoSets
  MaxColumns = 2
  Sizes = {1, 2}
  MarksUnbound = FALSE
  GetsBound = TRUE
  MayFail = TRUE
INVARIANTS
  TypeOK
  FetchesIntoHolder
  GetsCurrentRow
  GetsNulls
CHECK_DEADLOCK FALSE
