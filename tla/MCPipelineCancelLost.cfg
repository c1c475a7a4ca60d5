CONSTANTS
  Starts = {start1}
  Cancels = {cancel1}
  Resumes = {}
  Jobs = {job1, job2}
  MaxAttempts = 3
  MaxFaults = 0
  MaxOutages = 0
  MaxAdmin = 0
SPECIFICATION Spec
PROPERTIES
  CancelHolds
\* Every pipeline ends, and then nothing happens any more.
CHECK_DEADLOCK FALSE
