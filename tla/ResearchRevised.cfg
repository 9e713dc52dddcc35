CONSTANTS
  None = None
  Modes <- MCModes
  Revisable <- MCRevisable
  MaxAttempts = 12
  MaxUpsets = 3
SPECIFICATION Spec
INVARIANT RevisedWorkStands
CHECK_DEADLOCK FALSE
