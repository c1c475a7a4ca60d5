CONSTANTS
  Starts = {start1, start2}
  Cancels = {cancel1}
  Resumes = {resume1}
  Jobs = {job1, job2, job3}
  MaxAttempts = 3
  MaxFaults = 3
  MaxOutages = 1
  MaxAdmin = 1
SPECIFICATION Spec
CONSTRAINT OneTrouble
SYMMETRY Symmetry
INVARIANTS
  WorkspaceReclaimed
PROPERTIES
  KeepsPromise
\* Every pipeline ends, and then nothing happens any more.
CHECK_DEADLOCK FALSE
