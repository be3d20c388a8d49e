SPECIFICATION Spec
CONSTANTS
  Jobs <- MCJobs
INVARIANT
  Decodes
  Predicted
  Fits
  FreedOnce
