CONSTANTS
  Project = project
  Files = {f1}
  Selection = selection
  MaxAttempts = 2
  DailyLimit = 5
  MaxRuns = 2
  MaxTroubles = 1
  Scenarios <- MCScenarios
SPECIFICATION FairSpec
CHECK_DEADLOCK FALSE
INVARIANTS
  TypeOK
  OneRowPerTask
  SavedHasAnswers
  WithinQuota
PROPERTY
  StageEnds
