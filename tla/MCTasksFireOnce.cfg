CONSTANTS
  Tasks = {1}
  Workers = {u}
  Clients = {c}
  Schedules <- Once
  Commands = {"create", "update"}
  RequestIds = FALSE
  CatchUp = FALSE
  MaxQueuedRuns = 1
  RetryDelay = 1
  MaxTime = 2
  MaxCommands = 2
  FaultKinds = {"crash"}
  MaxFaults = 0
SPECIFICATION Spec
INVARIANTS
  FiresOnce
CHECK_DEADLOCK FALSE
