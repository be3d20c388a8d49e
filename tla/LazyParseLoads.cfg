SPECIFICATION Spec
CONSTANTS
  MaxD = 32
  MaxD3 = 16
  MaxMatch = 258
  Attempts = 5
  Far4 = 6
  Far5 = 8
  Hash <- MCHash
  Hash3 <- MCHash3
  Buckets = {0, 1, 2}
  Stray = {0, 9}
  Jobs <- MCJobs
INVARIANT
  LoadsAsDocumented
