CONSTANTS
  f1 = f1
  f2 = f2
  None = None
  Files <- MCFiles
  Purposes <- MCPurposes
  Clients <- MCClients
  RetryAttempts = 2
  ConnectAttempts = 3
  MaxRepairs = 2
  MaxResumes = 1
SPECIFICATION Spec
INVARIANTS WholePatchesOnly
PROPERTIES LostIsNotAskedAgain NothingSentUncovered
CHECK_DEADLOCK FALSE
