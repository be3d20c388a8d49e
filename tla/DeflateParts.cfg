SPECIFICATION Spec
CONSTANTS
  Master = 5
  Requests <- MCRequests
  Sizes = {0, 1, 5, 7}
  PNGs = {TRUE, FALSE}
  Twices = {0, 1, 2}
INVARIANT
  KeptIsPart
  SeededInOrder
PROPERTY
  WritesStream
