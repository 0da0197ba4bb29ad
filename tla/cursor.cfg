\* Every navigation over several result sets, in rowsets of one and of three.
SPECIFICATION Spec
CONSTANTS
  Sets <- ManySets
  RowsetSizes <- OneOrThree
  Unbounds <- Either
  Ops <- EveryOp
  Skips <- Ahead
  Targets <- Aimed
  Faults <- EveryFault
CHECK_DEADLOCK FALSE
INVARIANT
  TypeOK
PROPERTIES
  LandsWhereAsked
  PositionInRowset
  ReadsCurrentRow
