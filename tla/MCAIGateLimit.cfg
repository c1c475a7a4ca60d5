CONSTANTS
  Callers = {c1, c2, c3}
  Limit = 1
  MaxAttempts = 2
SPECIFICATION Spec
INVARIANTS
  LimitHolds
