\* An iterator, a row cache and a caller read one result set in rowsets.
SPECIFICATION FairReaders
CONSTANTS
  Sets <- LongSet
  RowsetSizes <- Three
  Unbounds <- NotBound
  Ops <- OnlyNext
  Skips <- Nowhere
  Targets <- Nowhere
  Faults <- OnlyGet
INVARIANT CacheIsCurrentRow
PROPERTIES
  ImplementsStream
  IteratorIsStream
CHECK_DEADLOCK FALSE
