SPECIFICATION Spec
CONSTANTS
  Window = 8
  MinMatch = 3
  MaxMatch = 5
  Word = 1
  Hash <- MCHash
  Buckets <- MCBuckets
  Inputs <- MCInputs
INVARIANT
  KnownAhead
  ReportsNearest
PROPERTY
  GoesBack
