CONSTANTS
  Manuals = {m1, m2}
  Imports = {i1, i2}
  Removals = {d1}
  Starts = {s1}
  Edits = {e1}
  Repos = {r1}
  Commits = 3
  Page = 1
  None = None
  MaxTroubles = 1
  MaxServed = 3
SPECIFICATION Spec
SYMMETRY Symmetry
CONSTRAINT Served
CHECK_DEADLOCK FALSE
INVARIANTS
  TypeOK
  VersionsCount
  CommitOnce
  RefusedByOthers
  CompletedHasObject
  RowsSettle
  SyncComplete
