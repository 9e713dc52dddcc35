SPECIFICATION Spec
CONSTANTS
  data = data
  table = table
  figure = figure
  text = text
  tabulate = tabulate
  draw = draw
  Absent = Absent
  Files = {data, table, figure, text}
  Contents = {v1, v2}
  Commands = {tabulate, draw}
  Inputs <- MCInputs
  Outputs <- MCOutputs
  Body = text
  Images = {figure}
  Given = {data, text}
  MaxRuns = 2
  MaxTime = 1
  MaxEdits = 2
  MaxCrashes = 1
SYMMETRY MCSymmetry
PROPERTIES
  PublishedIsFresh
  PublishedAsBound
  SuccessIsGenuine
\* Every attempt ends and nothing has to be started again.
CHECK_DEADLOCK FALSE
