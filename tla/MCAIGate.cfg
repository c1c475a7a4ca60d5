CONSTANTS
  Callers = {c1, c2, c3, c4}
  Limit = 2
  MaxAttempts = 2
SPECIFICATION Spec
INVARIANTS
  TypeOK
  ActiveCounts
  NoLostWakeup
PROPERTIES
  Admitted
