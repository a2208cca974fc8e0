CONSTANTS
  Names <- MCNames
  Peers <- MCPeers
  Self = "self"
  From <- MCFrom
  Says <- MCSays
  Loads <- MCLoads
  Roles <- MCRoles
  DMPolicy = "pairing"
  MaxAsks = 1
  MaxFaults = 1
  Reminders = {"rem"}
  Messages = {"series"}
  Interval <- MCInterval
  MaxOccurrences <- MCMax
  EndAt <- MCEnd
  Due <- MCDue
  MaxInterval = 1
  MaxTime = 3
  MaxEdits = 1
  MaxFailures = 1
  Senders = {"own", "foe", "new"}
  FirstRoles <- MCFirst
  Tasks = {1, 2, 3}
  TaskLoads <- MCTasks
  SearchCap = 1
  MaxSlips = 1
SPECIFICATION FairSpec
INVARIANTS TypeOK OneUsePerMessage EchoStartsNothing RunsTakeTurns SendsAsScheduled DecisionsStand 
PROPERTIES PollersEnd DueIsHandled
CHECK_DEADLOCK FALSE
