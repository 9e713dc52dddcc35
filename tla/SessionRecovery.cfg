CONSTANTS
  p1 = p1
  p2 = p2
  a1 = a1
  None = None
  Procs = {p1}
  MaxAttempt = 2
  MaxRevision = 0
  MaxAttempts = 1
  MaxNoProgress = 1
  Auths = {a1}
  ExtraAttempts = 1
  Outcomes <- MCPlain
  Reuse = TRUE
SPECIFICATION Spec
INVARIANTS HandlerRunsOnce AccountingIsExact
