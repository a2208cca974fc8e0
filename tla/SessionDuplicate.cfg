CONSTANTS
  Runs <- MCRuns
  Keys = {"code"}
  MaxSessions = 2
  MaxTries = 2
  Plan <- MCPlan
  Child = {2}
  Ambiguous = TRUE
  MaxFaults = 1
SPECIFICATION Spec
PROPERTY DuplicatesAreNoOps
CHECK_DEADLOCK FALSE
