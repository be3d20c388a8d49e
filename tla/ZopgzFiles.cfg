SPECIFICATION Spec
CONSTANTS
  Bases <- MCBases
  Depth = 2
  Texts <- MCTexts
  IOErrors = TRUE
  Longest = 4
  ta0 = ta0
  ta1 = ta1
  tb0 = tb0
  tb1 = tb1
  tc0 = tc0
  td1 = td1
  te0 = te0
  Jobs <- MCJobs
INVARIANT
  LossesKnown
  ReleasedOnce
  LoopsAgree
