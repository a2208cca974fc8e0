CONSTANTS
  Loops = {l1, l2}
  NoLoop = NoLoop
  OtherRun = OtherRun
  FirstLoop = l1
  Approvers = {a1}
  Calls = 2
  Gated = {1, 2}
  MaxSteps = 1
  CanPark = TRUE
  Streaming = FALSE
  SaveMayFail = TRUE
  SendMayStall = FALSE
  MaxCancels = 1
  MaxRestarts = 0
SPECIFICATION FairSpec
INVARIANT RunningIsLive
PROPERTIES LoopsFinish DecisionTakesEffect
