CONSTANTS
  Graphs <- MCGraphs
  MaxSteps = 11
  MaxLoop = 2
  MaxFaults = 2
  Overlap = FALSE
SPECIFICATION FairSpec
INVARIANTS TypeOK JoinWaits  ResumedNotRerun
PROPERTY RunEnds
CHECK_DEADLOCK FALSE
