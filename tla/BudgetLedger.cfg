CONSTANTS
  i1 = i1
  i2 = i2
  i3 = i3
  req = req
  tok = tok
  wall = wall
  NoLimit = NoLimit
  Dims <- MCDims
  Ids = {i1, i2, i3}
  Scopes = {s1}
  InitialLimits <- MCLimits
  Requests <- MCRequests
  Actuals <- MCActuals
  Floors <- MCFloors
  Grants <- MCGrants
  WritesFail = FALSE
SYMMETRY MCSymmetry
SPECIFICATION Spec
INVARIANTS InFlightIsCounted WithinAllowance
PROPERTIES FloorSurvives ImplementsAllowance FinishedStays
