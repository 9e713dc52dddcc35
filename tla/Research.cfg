CONSTANTS
  None = None
  Modes <- MCModes
  Revisable <- MCRevisable
  MaxAttempts = 12
  MaxUpsets = 3
SPECIFICATION Spec
INVARIANTS KeptWorkStands MeasuredOnce InterruptionsSettle
PROPERTIES UserDecides
CHECK_DEADLOCK FALSE
