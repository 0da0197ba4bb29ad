\* Every form of binding, in batches shorter and longer than the indicators.
SPECIFICATION Spec
CONSTANTS
  p1 = p1  p2 = p2
  NULL = NULL
  Params <- TwoParams
  Forms <- FormsOfTwo
  Batches <- BatchesOfTwo
  Sentries <- Prefixes
  MinIndicators = 2
INVARIANTS
  TypeOK
  RowsArriveAsMeant
  SentryOnlyMakesNulls
  DanglesOnlyAfterThrow
PROPERTY
  DescriptionStays
