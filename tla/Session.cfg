CONSTANTS
  p1 = p1
  p2 = p2
  a1 = a1
  None = None
  Procs = {p1, p2}
  MaxAttempt = 2
  MaxRevision = 1
  MaxAttempts = 2
  MaxNoProgress = 2
  Auths = {}
  ExtraAttempts = 1
  Outcomes <- MCContrary
  Reuse = FALSE
SYMMETRY MCSymmetry
SPECIFICATION Spec
INVARIANTS OneOpenAttempt IdIssuedOnce ProgressFactKept
PROPERTIES NothingIsForgotten
