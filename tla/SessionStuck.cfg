CONSTANTS
  p1 = p1
  p2 = p2
  a1 = a1
  None = None
  Procs = {p1}
  MaxAttempt = 2
  MaxRevision = 1
  MaxAttempts = 1
  MaxNoProgress = 1
  Auths = {}
  ExtraAttempts = 1
  Outcomes <- MCContrary
  Reuse = FALSE
SPECIFICATION Spec
INVARIANT SettledIsQuiet
