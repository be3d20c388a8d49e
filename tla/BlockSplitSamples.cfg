SPECIFICATION FairSpec
CONSTANTS
  Costs = {1, 2}
  Large = 9
  Near = 1
  FineMin = 9
  Fine = 2
  Jobs <- MCJobs
INVARIANT
  ProperSplit
  StatsOfBlock
  DoneJustified
  InRange
  FineSplitPays
PROPERTY
  Terminates
