\* Columns of every type, each read as every type, in pieces of three units.
SPECIFICATION Spec
CONSTANTS
  WideBits = 16
  Malformed = Malformed
  Incompatible = Incompatible
  OutOfRange = OutOfRange
  NotANumber = NotANumber
  Sizes <- FewIntegers
  Columns <- AllColumns
  Targets <- AllTargets
  Piece = 3
  GetsBound = TRUE
  MayFail = TRUE
INVARIANTS
  TypeOK
  ReadsWhole
  ValuesKept
  TextSays
CHECK_DEADLOCK FALSE
