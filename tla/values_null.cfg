\* Columns of every type, each read as every type, no call failing.
SPECIFICATION Spec
CONSTANTS
  WideBits = 16
  Malformed = Malformed
  Incompatible = Incompatible
  OutOfRange = OutOfRange
  NotANumber = NotANumber
  Sizes <- FewIntegers
  Columns <- AllColumns
  Targets <- AllTargets
  Piece = 3
  GetsBound = TRUE
  MayFail = FALSE
INVARIANT NullIsNull
CHECK_DEADLOCK FALSE
