SPECIFICATION RunSpec
CONSTANTS
  MaxMatch = 4
  MinMatch = 2
  Window = 4
  EagerStop = 3
  UltraOnce = 3
  UltraShort = 4
  StIter = 2
  Costs = {1, 2}
  Large = 9
  Jobs <- MCJobs
  Spare = 2
  Chunk = 4
  UIntMax = 1000
  Blocks <- MCBlocks
INVARIANT
  InStep
  HandOver
  FastPathPromise
  EndReached
  ReplayInStep
  StSeeded
  InBuffer
  Reproduces
PROPERTY
  Terminates
  TraceEnds
