SPECIFICATION FairSpec
CONSTANTS
  MaxId = 6
  MaxAttempts = 3
  MaxTurns = 2
  MaxRequests = 2
  MaxSubmissions = 1
  MaxCrashes = 1
  Replies <- RepliesDef
  Submissions <- SubmissionsDef
  Versions = {1, 2, 3}
  Incomplete = {3}
  None = None
INVARIANTS
  JournalIsAccounted
  ProposalRunsOnce
  OutcomeTellsEffect
  
  SettledIsDelivered
  StuckOnlyThus
VIEW Seen
PROPERTY RunEnds
CHECK_DEADLOCK FALSE
