CONSTANTS
  Loops = {l1, l2, l3}
  NoLoop = NoLoop
  OtherRun = OtherRun
  FirstLoop = l1
  Approvers = {a1, a2}
  Calls = 2
  Gated = {1, 2}
  MaxSteps = 1
  CanPark = TRUE
  Streaming = FALSE
  SaveMayFail = FALSE
  SendMayStall = FALSE
  MaxCancels = 0
  MaxRestarts = 0
SPECIFICATION Spec
INVARIANT AtMostOnce
