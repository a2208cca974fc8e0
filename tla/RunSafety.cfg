CONSTANTS
  Loops = {l1, l2, l3}
  NoLoop = NoLoop
  OtherRun = OtherRun
  FirstLoop = l1
  Approvers = {a1}
  Calls = 3
  Gated = {1, 2}
  MaxSteps = 1
  CanPark = TRUE
  Streaming = TRUE
  SaveMayFail = TRUE
  SendMayStall = TRUE
  MaxCancels = 2
  MaxRestarts = 2
SPECIFICATION Spec
INVARIANTS TypeOK AtMostOnce ApprovedFirst StepBudget
PROPERTY KeepsCallOrder
