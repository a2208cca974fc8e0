CONSTANTS
  Docs = 3
  CheckpointEvery = 1
  MaxJobs = 3
  MaxEdits = 1
  MaxCancels = 1
  MaxRestarts = 1
  Overlap = FALSE
SPECIFICATION FairSpec
INVARIANTS TypeOK DamageIsBounded IndexIsAccountedFor
PROPERTY SyncsSettle
CHECK_DEADLOCK FALSE
