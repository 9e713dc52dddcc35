SPECIFICATION Spec
CONSTANTS
  MaxId = 5
  MaxRepairs = 1
  MaxDecisions = 2
  Attempts <- MCAttempts
  Requests <- MCRequests
  Processes <- MCProcesses
  Granted <- MCGranted
  MaxGrants = 1
  MaxCrashes = 2
  MaxEdits = 2
INVARIANTS
  CertifiedRanAsApproved
  RepairsAreJustified
  NothingIsReplayed
\* The work may end with the coordinator, or at a stop that nothing resumes.
CHECK_DEADLOCK FALSE
