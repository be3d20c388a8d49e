SPECIFICATION Spec
CONSTANTS
  Cutoff = 3
  DepthFactor = 1
  Jobs <- MCJobs
INVARIANT
  StableOrder
  MemorySuffices
  Optimal
