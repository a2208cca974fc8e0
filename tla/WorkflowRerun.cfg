CONSTANTS
  Graphs <- MCDiamond
  MaxSteps = 20
  MaxLoop = 2
  MaxFaults = 2
  Overlap = FALSE
SPECIFICATION Spec
PROPERTY FinishedNotRerun
CHECK_DEADLOCK FALSE
