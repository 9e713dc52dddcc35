SPECIFICATION TermsSpec
CONSTANTS
  Procs = {p, q}
  s1 = s1
  s2 = s2
  c1 = c1
  Supplies = {s1, s2}
  Continuations = {c1}
  Switches = {w1}
  Amount <- AmountDef
  InitAttempts = 1
  InitRequests = 1
  MaxUsed = 1
  MaxCrashes = 1
  None = None
INVARIANTS GrantsAgree NoWorkUnderHalfSupply ReturnedStays
VIEW Seen
SYMMETRY ProcSymmetry
CHECK_DEADLOCK FALSE
