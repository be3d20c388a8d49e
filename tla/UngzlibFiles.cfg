SPECIFICATION FairSpec
CONSTANTS
  Cap = 6
  Fixed = 4
  IOErrors = TRUE
  Jobs <- MCJobs
  Absent = 99
INVARIANT
  Honest
  NoFalseAlarmPlain
  InStep
PROPERTY
  Terminates
