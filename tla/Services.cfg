CONSTANTS
  Cases = {1, 2, 3}
  Evals = {1, 2}
  MaxConcurrency = 2
  Starts <- MCStarts
  MaxSaves = 2
  MaxActs = 1
  Runs = {1, 2, 3, 4}
  Ids = {"a", "b", "s", "t", "w"}
  KindOf <- MCKindOf
  MaxDepth = 3
  ResourceStarts <- MCResources
  MaxMoves = 2
  Requests = {1, 2}
  Names = {"x", "y"}
  MaxIter = 2
  MaxCalls = 2
  Ops = {"update", "set", "graph", "attach", "detach", "chat"}
  Jobs = {1, 2, 3}
  JobStarts <- MCJobs
  Offered = {"m"}
  MaxTokens = 4
  MaxMishaps = 1
  Coders = {1, 2}
  Reviewers = {3}
  WorkLoads <- MCWork
  MaxChanges = 1
  MaxGitFaults = 1
SPECIFICATION FairSpec
INVARIANTS TypeOK  LatestIsEvaluated  HeldIsAccounted GrantIsNotRaced  WorkReachesRemote
PROPERTY EvalsEnd
CHECK_DEADLOCK FALSE
