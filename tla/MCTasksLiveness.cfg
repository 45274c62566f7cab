CONSTANTS
  Tasks = {1}
  Workers = {u}
  Clients = {c, d}
  Schedules <- Recurring
  Commands = {"create", "pause", "run_now"}
  RequestIds = FALSE
  CatchUp = FALSE
  MaxQueuedRuns = 1
  RetryDelay = 1
  MaxTime = 4
  MaxCommands = 4
  FaultKinds = {"crash"}
  MaxFaults = 1
SPECIFICATION FairSpec
PROPERTIES
  DueIsMaterialized
CHECK_DEADLOCK FALSE
