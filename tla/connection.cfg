\* Every call fails; the handles stay accounted for.
SPECIFICATION ConnSpec
CONSTANTS
  h1 = h1
  h2 = h2
  NULL = NULL
  Handle <- MCHandle
  Faults <- ConnectionFaults
  AsyncModes <- EitherMode
  MaxLinks = 4
CHECK_DEADLOCK FALSE
INVARIANTS
  ConnTypeOK
  HandlesHeld
PROPERTIES
  ConnectedMeansOpen
  DestructionFrees
