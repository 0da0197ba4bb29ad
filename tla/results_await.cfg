\* Two results on one statement, rowsets of one and of two rows; no call fails.
SPECIFICATION Spec
CONSTANTS
  r1 = r1  r2 = r2
  NULL = NULL
  Objects <- TwoObjects
  Read = {r1}
  Sets <- TwoSets
  MaxColumns = 2
  Sizes = {1, 2}
  MarksUnbound = FALSE
  GetsBound = TRUE
  MayFail = FALSE
INVARIANT AwaitsAFetch
CHECK_DEADLOCK FALSE
