SPECIFICATION FairSpec
CONSTANTS
  Cap = 6
  Fixed = 4
  IOErrors = FALSE
  Jobs <- HeaderJobs
  Absent = 99
INVARIANT
  NoFalseAlarm
