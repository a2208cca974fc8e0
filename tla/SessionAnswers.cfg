CONSTANTS
  Runs <- MCRuns
  Keys = {"code"}
  MaxSessions = 2
  MaxTries = 1
  Plan <- MCPlan
  Child = {2}
  Ambiguous = TRUE
  MaxFaults = 1
SPECIFICATION FairSpec
INVARIANTS TypeOK AnsweredOnce  WaitIsAnswerable
PROPERTY WaitsEnd
CHECK_DEADLOCK FALSE
