SPECIFICATION Spec
CONSTANTS
  Streams = {stdout, stderr}
  Invocation = invocation
  NoLimit = NoLimit
  Timeout = 1
  Durations <- MCDurations
  MaxChunks = 1
  MaxCrashes = 1
  WritesFail = TRUE
INVARIANTS
  LaunchedOnce
  SettledAsRecorded
  ChargeMatchesLaunch
  OutputErrorIsNotSilent
  ReceiptIsComplete
PROPERTY CallEnds
